------------------------- MODULE KeyLifecycleProofs -------------------------
(***************************************************************************)
(* Proofs of the invariants of KeyLifecycle, for any number of callers,    *)
(* pairs, connections and calls, any set of servers and any faults.        *)
(*                                                                         *)
(* IInv is the inductive invariant.  Most of it is a conjunction over the  *)
(* callers: what the position of a caller says of its own variables and of *)
(* the objects at the server.  Steps of other callers disturb that only    *)
(* through the server and the set of returned key pairs, which Evolves     *)
(* says they may only do in one direction.                                 *)
(***************************************************************************)
EXTENDS KeyLifecycle, TLAPS

USE DEF Outcomes

Usable == {"Active", "Deactivated", "Destroyed"}
ReadingKey == {"meta_connect", "get_key"}
Activating == {"act_connect", "activate"}
Destroying == {"des_connect", "revoke", "destroy"}
Signing == {"sign_connect", "sign"}
Asking == {"gen_connect", "query", "create", "recreate"}

\* A connection is held exactly while a request is out; a response is there
\* only then; nothing is returned before the end.
HoldsOnlyForRequest(c) ==
  /\ conn[c] <=> pc[c] \in RequestStates
  /\ resp[c].status # "Pending" => pc[c] \in RequestStates
  /\ resp[c].status = "Pending" => resp[c] = Pending
  /\ pc[c] # "idle" => ret[c] = "None"

\* What has been created for the call of this caller.
MadeByCall(c) ==
  /\ \A p, q \in made[c] : p = q
  /\ pc[c] \in {"gen_connect", "query"} => made[c] = {}
  /\ pc[c] \in {"create", "recreate"} /\ resp[c].status \notin {"Ok", "NetError", "Odd"}
       => made[c] = {}
  /\ ret[c] = "Unsupported" => made[c] = {}

\* The variables of generate() before and after the creation.
Generates(c) ==
  /\ pc[c] \in Asking => local[c].via = "generate" /\ local[c].alg \in SupportedAlgorithms
  /\ pc[c] \in {"create", "recreate"} /\ resp[c].status = "Ok" =>
       /\ resp[c].pair \in Pairs
       /\ object[Private(resp[c].pair)] # "Absent"
       /\ kind[resp[c].pair] = AlgInfo(local[c].alg).kind
  /\ pc[c] \in ReadingKey \cup Activating /\ local[c].via = "generate" =>
       /\ PairOf(local[c].pub) \in Pairs
       /\ local[c].pub = Public(PairOf(local[c].pub))
       /\ local[c].priv = Private(PairOf(local[c].pub))
       /\ object[local[c].priv] # "Absent"
       /\ kind[PairOf(local[c].pub)] = AlgInfo(local[c].alg).kind
  /\ pc[c] = "get_key" /\ resp[c].status = "Ok" =>
       local[c].pub \in KeyIds /\ resp[c].pair = PairOf(local[c].pub)
  /\ pc[c] \in Activating =>
       local[c].via = "generate" /\ local[c].key = PairOf(local[c].pub)
  /\ pc[c] = "activate" /\ resp[c].status = "Ok" => object[local[c].priv] \in Usable

\* The variables of destroy() and sign_raw().
DestroysOrSigns(c) ==
  /\ pc[c] \in Destroying => local[c].priv \in KeyIds
  /\ pc[c] = "destroy" /\ resp[c].status = "Ok" => object[local[c].priv] = "Destroyed"
  /\ pc[c] \in Signing => KeyPairOf(local[c]) \in keypairs
  /\ pc[c] = "sign" /\ resp[c].status = "Ok" =>
       local[c].priv \in KeyIds /\ resp[c].pair = PairOf(local[c].priv)

CallerInv(c) ==
  HoldsOnlyForRequest(c) /\ MadeByCall(c) /\ Generates(c) /\ DestroysOrSigns(c)

\* Both halves of a pair come into being together.
HalvesTogether ==
  \A p \in Pairs : object[Private(p)] = "Absent" <=> object[Public(p)] = "Absent"

DeliveredAreKnown == \A k \in keypairs : k.via = "generate" => k.key \in Pairs

IInv ==
  /\ TypeOK
  /\ HalvesTogether
  /\ DeliveredAreKnown
  /\ \A c \in Callers : CallerInv(c)
  /\ DeliveredAreUsable
  /\ KeyPairsMatch
  /\ SignaturesVerify
  /\ DestroyedIsFinal

-----------------------------------------------------------------------------
(* What a step of one caller, or of the server for one, leaves alone.      *)

Others(c) ==
  \A d \in Callers \ {c} :
    /\ pc'[d] = pc[d] /\ conn'[d] = conn[d] /\ resp'[d] = resp[d]
    /\ local'[d] = local[d] /\ ret'[d] = ret[d] /\ made'[d] = made[d]

Evolves ==
  /\ \A id \in KeyIds :
       /\ object[id] # "Absent" => object'[id] # "Absent"
       /\ object[id] \in Usable => object'[id] \in Usable
       /\ object[id] = "Destroyed" => object'[id] = "Destroyed"
  /\ \A p \in Pairs : object[Private(p)] # "Absent" => kind'[p] = kind[p]
  /\ keypairs \subseteq keypairs'

ClientTypeOK ==
  /\ pc \in [Callers -> PcValues]
  /\ conn \in [Callers -> BOOLEAN]
  /\ resp \in [Callers -> Replies]
  /\ local \in [Callers -> Locals]
  /\ ret \in [Callers -> Outcomes]
  /\ made \in [Callers -> SUBSET Pairs]
  /\ calls \in 0 .. MaxCalls

AppTypeOK ==
  /\ keypairs \subseteq KeyPairs
  /\ signatures \subseteq [keypair : KeyPairs, pair : Pairs]
  /\ destroyed \subseteq KeyIds

LEMMA TypeSplit == TypeOK <=> HsmTypeOK /\ ClientTypeOK /\ AppTypeOK
  BY DEF TypeOK, ClientTypeOK, AppTypeOK

LEMMA AlgInfoKind == \A a \in SupportedAlgorithms : AlgInfo(a).kind \in KeyKinds
<1> SUFFICES ASSUME NEW a \in SupportedAlgorithms
             PROVE  AlgInfo(a).kind \in KeyKinds
  OBVIOUS
<1>1. \E item \in ALG_MAPPINGS : item[1] = a
  BY DEF SupportedAlgorithms
<1>2. (CHOOSE item \in ALG_MAPPINGS : item[1] = a) \in ALG_MAPPINGS
  BY <1>1
<1>3. \A item \in ALG_MAPPINGS : item[2].kind \in KeyKinds
  BY DEF ALG_MAPPINGS, RsaInfo, EcdsaInfo, EdInfo, KeyKinds
<1> QED
  BY <1>2, <1>3 DEF AlgInfo

LEMMA PairIds ==
  \A p \in Pairs : /\ Private(p) \in KeyIds /\ PairOf(Private(p)) = p
                   /\ Public(p) \in KeyIds /\ PairOf(Public(p)) = p
  BY DEF Private, Public, KeyIds, PairOf

LEMMA IdPairs == \A id \in KeyIds : PairOf(id) \in Pairs
  BY DEF KeyIds, PairOf

\* A caller that does nothing keeps its part of the invariant.
LEMMA CallerFrame ==
  ASSUME IInv, Evolves, NEW d \in Callers,
         pc'[d] = pc[d], conn'[d] = conn[d], resp'[d] = resp[d],
         local'[d] = local[d], ret'[d] = ret[d], made'[d] = made[d]
  PROVE  CallerInv(d)'
<1>1. CallerInv(d)
  BY DEF IInv
<1>2. HoldsOnlyForRequest(d)' /\ MadeByCall(d)'
  BY <1>1 DEF CallerInv, HoldsOnlyForRequest, MadeByCall
<1>3. Generates(d)'
  BY <1>1, PairIds DEF CallerInv, Generates, Evolves, Activating
<1>4. DestroysOrSigns(d)'
  BY <1>1 DEF CallerInv, DestroysOrSigns, Evolves, Destroying
<1> QED
  BY <1>2, <1>3, <1>4 DEF CallerInv

\* So does what has been returned, if nothing is added to it.
LEMMA ReturnedFrame ==
  ASSUME IInv, Evolves, UNCHANGED appVars
  PROVE  DeliveredAreKnown' /\ DeliveredAreUsable' /\ KeyPairsMatch'
           /\ SignaturesVerify' /\ DestroyedIsFinal'
<1>1. DeliveredAreKnown' /\ SignaturesVerify'
  BY DEF IInv, appVars, DeliveredAreKnown, SignaturesVerify
<1>2. \A k \in keypairs : k.via = "generate" => k.key \in Pairs /\ k.priv = Private(k.key)
  BY DEF IInv, DeliveredAreKnown, KeyPairsMatch
<1>3. DeliveredAreUsable'
  BY <1>2, PairIds DEF IInv, Evolves, appVars, DeliveredAreUsable, Usable
<1>4. KeyPairsMatch'
  BY <1>2, PairIds DEF IInv, Evolves, appVars, DeliveredAreUsable, Usable, KeyPairsMatch
<1>5. DestroyedIsFinal'
  BY DEF IInv, TypeOK, Evolves, appVars, DestroyedIsFinal
<1> QED
  BY <1>1, <1>3, <1>4, <1>5

LEMMA NothingEvolves ==
  ASSUME UNCHANGED hsmVars, keypairs \subseteq keypairs'
  PROVE  Evolves
  BY DEF hsmVars, Evolves

-----------------------------------------------------------------------------
(* The steps that calls are made of.  StepOK is what each has to establish *)
(* of its caller; App says what it may do to what has been returned.       *)

StepOK(c) == ClientTypeOK' /\ CallerInv(c)' /\ Others(c)

LEMMA CallerStep ==
  ASSUME IInv, NEW c \in Callers, StepOK(c), Evolves,
         HsmTypeOK', AppTypeOK', HalvesTogether',
         DeliveredAreKnown', DeliveredAreUsable', KeyPairsMatch',
         SignaturesVerify', DestroyedIsFinal'
  PROVE  IInv'
<1>1. \A d \in Callers \ {c} : CallerInv(d)'
  BY CallerFrame DEF StepOK, Others
<1>2. TypeOK'
  BY DEF StepOK, TypeOK, ClientTypeOK, AppTypeOK
<1> QED
  BY <1>1, <1>2 DEF StepOK, IInv

\* A step that returns nothing to the application and asks nothing of the
\* server.
LEMMA QuietStep ==
  ASSUME IInv, NEW c \in Callers, StepOK(c), UNCHANGED <<hsmVars, appVars>>
  PROVE  IInv'
<1>1. Evolves
  BY NothingEvolves DEF appVars
<1>2. HsmTypeOK' /\ HalvesTogether'
  BY DEF IInv, TypeOK, HsmTypeOK, HalvesTogether, hsmVars
<1>3. AppTypeOK'
  BY DEF IInv, TypeOK, AppTypeOK, appVars
<1> QED
  BY <1>1, <1>2, <1>3, ReturnedFrame, CallerStep

LEMMA ReturnStep ==
  ASSUME IInv, NEW c \in Callers, NEW r \in {"Ok", "Unsupported", "Failed", "Panic"},
         Return(c, r), r = "Unsupported" => made[c] = {}
  PROVE  StepOK(c) /\ UNCHANGED hsmVars
<1> USE DEF IInv, TypeOK
<1>1. NoLocal \in Locals /\ Pending \in Replies
  BY DEF NoLocal, Locals, Pending, Replies, Vias, SecurityAlgorithms, Ids, NoLength
<1>2. ClientTypeOK' /\ Others(c)
  BY <1>1 DEF Return, ClientTypeOK, Others, PcValues
<1>3. CallerInv(c)
  OBVIOUS
<1>4. pc'[c] = "idle" /\ ~conn'[c] /\ resp'[c] = Pending /\ ret'[c] = r /\ made'[c] = made[c]
  BY DEF Return
<1>5. HoldsOnlyForRequest(c)'
  BY <1>4 DEF HoldsOnlyForRequest, RequestStates, Pending
<1>6. MadeByCall(c)'
  BY <1>3, <1>4 DEF CallerInv, MadeByCall
<1>7. Generates(c)' /\ DestroysOrSigns(c)'
  BY <1>4 DEF Generates, DestroysOrSigns, Asking, ReadingKey, Activating, Destroying, Signing
<1> QED
  BY <1>2, <1>5, <1>6, <1>7 DEF StepOK, CallerInv, Return

LEMMA EnterStep ==
  ASSUME IInv, NEW c \in Callers, NEW label \in ConnectStates \ {"act_connect"},
         NEW l \in Locals, Enter(c, label, l),
         label = "gen_connect" => l.via = "generate" /\ l.alg \in SupportedAlgorithms,
         label = "meta_connect" => l.via # "generate",
         label = "des_connect" => l.priv \in KeyIds,
         label = "sign_connect" => KeyPairOf(l) \in keypairs
  PROVE  IInv'
<1> USE DEF IInv, TypeOK
<1>1. ClientTypeOK' /\ Others(c)
  BY MaxCallsAssumption DEF Enter, ClientTypeOK, Others, PcValues
<1>2. CallerInv(c)
  OBVIOUS
<1>3. /\ pc[c] = "idle" /\ pc'[c] = label /\ local'[c] = l /\ ret'[c] = "None" /\ made'[c] = {}
      /\ conn'[c] = conn[c] /\ resp'[c] = resp[c] /\ keypairs' = keypairs
  BY DEF Enter, appVars
<1>4. HoldsOnlyForRequest(c)' /\ MadeByCall(c)'
  BY <1>2, <1>3 DEF CallerInv, HoldsOnlyForRequest, MadeByCall, ConnectStates, RequestStates
<1>5. Generates(c)'
  BY <1>3 DEF Generates, ConnectStates, Asking, ReadingKey, Activating
<1>6. DestroysOrSigns(c)'
  BY <1>3 DEF DestroysOrSigns, ConnectStates, Destroying, Signing
<1>7. StepOK(c)
  BY <1>1, <1>4, <1>5, <1>6 DEF StepOK, CallerInv
<1> QED
  BY <1>7, QuietStep DEF Enter

Connections ==
  {<<"gen_connect", "query">>, <<"gen_connect", "create">>, <<"meta_connect", "get_key">>,
   <<"act_connect", "activate">>, <<"des_connect", "revoke">>, <<"sign_connect", "sign">>}

LEMMA ConnectStep ==
  ASSUME IInv, NEW c \in Callers, NEW from, NEW to, <<from, to>> \in Connections,
         Connect(c, from, to)
  PROVE  IInv'
<1> USE DEF IInv, TypeOK
<1>1. ClientTypeOK' /\ Others(c)
  BY DEF Connect, ClientTypeOK, Others, PcValues, RequestStates, Connections
<1>2. CallerInv(c)
  OBVIOUS
<1>3. /\ pc[c] = from /\ pc'[c] = to /\ conn'[c] /\ local'[c] = local[c] /\ ret'[c] = ret[c]
      /\ made'[c] = made[c] /\ resp'[c] = resp[c] /\ UNCHANGED <<keypairs, object, kind>>
  BY DEF Connect, appVars, hsmVars
<1>4. resp[c] = Pending
  BY <1>2, <1>3 DEF CallerInv, HoldsOnlyForRequest, RequestStates, Connections
<1>5. HoldsOnlyForRequest(c)' /\ MadeByCall(c)'
  BY <1>2, <1>3, <1>4 DEF CallerInv, HoldsOnlyForRequest, MadeByCall, Connections,
                          RequestStates, Pending
<1>6. Generates(c)'
  BY <1>2, <1>3, <1>4 DEF CallerInv, Generates, Connections, Asking, ReadingKey,
                          Activating, Pending
<1>7. DestroysOrSigns(c)'
  BY <1>2, <1>3, <1>4 DEF CallerInv, DestroysOrSigns, Connections, Destroying, Signing, Pending
<1>8. StepOK(c)
  BY <1>1, <1>5, <1>6, <1>7 DEF StepOK, CallerInv
<1> QED
  BY <1>8, QuietStep DEF Connect

LEMMA ProceedStep ==
  ASSUME IInv, NEW c \in Callers, NEW to, Proceed(c, to),
         \/ Granted(c, "query") /\ to = "create"
         \/ RetriesWithCurve(c) /\ to = "recreate"
         \/ Granted(c, "revoke") /\ to = "destroy"
  PROVE  IInv'
<1> USE DEF IInv, TypeOK
<1>1. to \in {"create", "recreate", "destroy"}
  OBVIOUS
<1>2. Pending \in Replies
  BY DEF Pending, Replies
<1>3. ClientTypeOK' /\ Others(c)
  BY <1>1, <1>2 DEF Proceed, ClientTypeOK, Others, PcValues, RequestStates
<1>4. CallerInv(c)
  OBVIOUS
<1>5. /\ pc'[c] = to /\ conn'[c] = conn[c] /\ local'[c] = local[c] /\ ret'[c] = ret[c]
      /\ made'[c] = made[c] /\ resp'[c] = Pending /\ UNCHANGED <<keypairs, object, kind>>
  BY DEF Proceed, appVars, hsmVars
<1>6. \/ pc[c] = "query" /\ to = "create"
      \/ pc[c] = "create" /\ to = "recreate" /\ resp[c].status = "ServerError"
      \/ pc[c] = "revoke" /\ to = "destroy"
  BY DEF Granted, RetriesWithCurve
<1>7. HoldsOnlyForRequest(c)' /\ MadeByCall(c)'
  BY <1>4, <1>5, <1>6 DEF CallerInv, HoldsOnlyForRequest, MadeByCall, RequestStates, Pending
<1>8. Generates(c)'
  BY <1>4, <1>5, <1>6 DEF CallerInv, Generates, Asking, ReadingKey, Activating, Pending
<1>9. DestroysOrSigns(c)'
  BY <1>4, <1>5, <1>6 DEF CallerInv, DestroysOrSigns, Destroying, Signing, Pending
<1>10. StepOK(c)
  BY <1>3, <1>7, <1>8, <1>9 DEF StepOK, CallerInv
<1> QED
  BY <1>10, QuietStep DEF Proceed

\* A call that ends without having anything to hand out.
LEMMA EmptyHandedStep ==
  ASSUME IInv, NEW c \in Callers, NEW r \in {"Ok", "Unsupported", "Failed", "Panic"},
         Return(c, r), r = "Unsupported" => made[c] = {}, UNCHANGED appVars
  PROVE  IInv'
BY ReturnStep, QuietStep

\* A call that ends at once, before it has waited for anything.
LEMMA RefusedStep ==
  ASSUME IInv, NEW c \in Callers, pc[c] = "idle", calls < MaxCalls, calls' = calls + 1,
         ret' = [ret EXCEPT ![c] = "Failed"], made' = [made EXCEPT ![c] = {}],
         UNCHANGED <<hsmVars, pc, conn, resp, local, appVars>>
  PROVE  IInv'
<1> USE DEF IInv, TypeOK
<1>1. ClientTypeOK' /\ Others(c)
  BY MaxCallsAssumption DEF ClientTypeOK, Others
<1>2. CallerInv(c)
  OBVIOUS
<1>3. ret'[c] = "Failed" /\ made'[c] = {}
  OBVIOUS
<1>4. HoldsOnlyForRequest(c)' /\ MadeByCall(c)'
  BY <1>2, <1>3 DEF CallerInv, HoldsOnlyForRequest, MadeByCall
<1>5. Generates(c)' /\ DestroysOrSigns(c)'
  BY DEF Generates, DestroysOrSigns, Asking, ReadingKey, Activating, Destroying, Signing
<1> QED
  BY <1>1, <1>4, <1>5, QuietStep DEF StepOK, CallerInv

-----------------------------------------------------------------------------
(* The steps of generate().                                                *)

LEMMA LocalWithIds ==
  \A l \in Locals, priv, pub \in Ids :
    LET m == WithIds(l, priv, pub)
    IN /\ m \in Locals /\ m.via = l.via /\ m.alg = l.alg /\ m.bits = l.bits
       /\ m.flags = l.flags /\ m.priv = priv /\ m.pub = pub
  BY ZenonT(30) DEF Locals, WithIds

LEMMA LocalWithKey ==
  \A l \in Locals, k \in Pairs \cup {NoPair} :
    LET m == WithKey(l, k)
    IN /\ m \in Locals /\ m.via = l.via /\ m.alg = l.alg /\ m.bits = l.bits
       /\ m.flags = l.flags /\ m.priv = l.priv /\ m.pub = l.pub /\ m.key = k
  BY Zenon DEF Locals, WithKey

LEMMA CreatedStep ==
  ASSUME IInv, NEW c \in Callers, Created(c)
  PROVE  IInv'
<1> USE DEF IInv, TypeOK
<1> DEFINE p == resp[c].pair
           l == WithIds(local[c], Private(p), Public(p))
<1>1. pc[c] \in {"create", "recreate"} /\ resp[c].status = "Ok" /\ Release(c, "meta_connect", l)
  BY DEF Created, Granted
<1>2. CallerInv(c)
  OBVIOUS
<1>3. /\ p \in Pairs /\ local[c].via = "generate"
      /\ object[Private(p)] # "Absent" /\ kind[p] = AlgInfo(local[c].alg).kind
  BY <1>1, <1>2 DEF CallerInv, Generates, Asking
<1>4. local[c] \in Locals /\ Private(p) \in Ids /\ Public(p) \in Ids /\ Pending \in Replies
  BY <1>3, PairIds DEF Ids, Pending, Replies
<1>7. /\ l \in Locals /\ l.via = "generate" /\ l.alg = local[c].alg
      /\ l.priv = Private(p) /\ l.pub = Public(p)
  BY <1>3, <1>4, LocalWithIds
<1> HIDE DEF l
<1>5. ClientTypeOK' /\ Others(c)
  BY <1>1, <1>4, <1>7 DEF Release, ClientTypeOK, Others, PcValues, ConnectStates
<1>6. /\ pc'[c] = "meta_connect" /\ ~conn'[c] /\ local'[c] = l /\ ret'[c] = ret[c]
      /\ made'[c] = made[c] /\ resp'[c] = Pending /\ UNCHANGED <<keypairs, object, kind>>
  BY <1>1 DEF Release, appVars, hsmVars
<1>8. HoldsOnlyForRequest(c)' /\ MadeByCall(c)'
  BY <1>1, <1>2, <1>6 DEF CallerInv, HoldsOnlyForRequest, MadeByCall, RequestStates, Pending
<1>9. Generates(c)'
  BY <1>3, <1>6, <1>7, PairIds DEF Generates, Asking, ReadingKey, Activating, Pending
<1>10. DestroysOrSigns(c)'
  BY <1>6 DEF DestroysOrSigns, Destroying, Signing
<1>11. StepOK(c)
  BY <1>5, <1>8, <1>9, <1>10 DEF StepOK, CallerInv
<1> QED
  BY <1>1, <1>11, QuietStep DEF Release

LEMMA LocatedStep ==
  ASSUME IInv, NEW c \in Callers, Granted(c, "get_key"), local[c].via = "generate",
         Release(c, "act_connect", Located(c))
  PROVE  IInv'
<1> USE DEF IInv, TypeOK
<1> DEFINE l == Located(c)
<1>0. Release(c, "act_connect", l)
  OBVIOUS
<1>1. pc[c] = "get_key" /\ resp[c].status = "Ok"
  BY DEF Granted
<1>2. CallerInv(c)
  OBVIOUS
<1>3. local[c] \in Locals /\ resp[c].pair \in Pairs \cup {NoPair} /\ Pending \in Replies
  BY DEF Pending, Replies
<1>6. /\ l \in Locals /\ l.via = local[c].via /\ l.alg = local[c].alg /\ l.priv = local[c].priv
      /\ l.pub = local[c].pub /\ l.key = resp[c].pair
  BY <1>3, LocalWithKey DEF Located
<1> HIDE DEF l
<1>4. ClientTypeOK' /\ Others(c)
  BY <1>0, <1>3, <1>6 DEF Release, ClientTypeOK, Others, PcValues, ConnectStates
<1>5. /\ pc'[c] = "act_connect" /\ ~conn'[c] /\ local'[c] = l /\ ret'[c] = ret[c]
      /\ made'[c] = made[c] /\ resp'[c] = Pending /\ UNCHANGED <<keypairs, object, kind>>
  BY <1>0 DEF Release, appVars, hsmVars
<1>7. HoldsOnlyForRequest(c)' /\ MadeByCall(c)'
  BY <1>1, <1>2, <1>5 DEF CallerInv, HoldsOnlyForRequest, MadeByCall, RequestStates, Pending
<1>8. Generates(c)'
  BY <1>1, <1>2, <1>5, <1>6 DEF CallerInv, Generates, Asking, ReadingKey, Activating, Pending
<1>9. DestroysOrSigns(c)'
  BY <1>5 DEF DestroysOrSigns, Destroying, Signing
<1>10. StepOK(c)
  BY <1>4, <1>7, <1>8, <1>9 DEF StepOK, CallerInv
<1> QED
  BY <1>10, QuietStep DEF Release

LEMMA ActivatedStep ==
  ASSUME IInv, NEW c \in Callers, Activated(c)
  PROVE  IInv'
<1> USE DEF IInv, TypeOK
<1> DEFINE l == local[c]
           k == KeyPairOf(l)
<1>1. /\ pc[c] = "activate" /\ resp[c].status = "Ok" /\ Return(c, "Ok")
      /\ keypairs' = keypairs \cup {k} /\ UNCHANGED <<signatures, destroyed>>
  BY DEF Activated, Granted
<1>2. StepOK(c) /\ UNCHANGED hsmVars
  BY <1>1, ReturnStep
<1>3. CallerInv(c) /\ l \in Locals
  OBVIOUS
<1>4. /\ k \in KeyPairs /\ k.via = l.via /\ k.alg = l.alg /\ k.priv = l.priv
      /\ k.pub = l.pub /\ k.key = l.key
  BY <1>3 DEF KeyPairOf, Locals, KeyPairs
<1>5. /\ k.key \in Pairs /\ k.pub = Public(k.key) /\ k.priv = Private(k.key)
      /\ kind[k.key] = AlgInfo(k.alg).kind /\ object[k.priv] \in Usable
  BY <1>1, <1>3, <1>4 DEF CallerInv, Generates, Activating
<1> HIDE DEF k
<1>6. UNCHANGED <<kind, object>> /\ Evolves
  BY <1>1, <1>2, NothingEvolves DEF hsmVars
<1>7. HsmTypeOK' /\ AppTypeOK' /\ HalvesTogether'
  BY <1>1, <1>2, <1>4 DEF HsmTypeOK, AppTypeOK, HalvesTogether, hsmVars
<1>8. DeliveredAreKnown' /\ DeliveredAreUsable' /\ KeyPairsMatch'
  BY <1>1, <1>5, <1>6 DEF DeliveredAreKnown, DeliveredAreUsable, KeyPairsMatch, Usable
<1>9. SignaturesVerify' /\ DestroyedIsFinal'
  BY <1>1, <1>6 DEF SignaturesVerify, DestroyedIsFinal
<1> QED
  BY <1>2, <1>6, <1>7, <1>8, <1>9, CallerStep

-----------------------------------------------------------------------------
(* The steps of the other calls.                                           *)

\* A KeyPair of from_metadata() or from_urls(): nothing is claimed of it.
LEMMA ImportedStep ==
  ASSUME IInv, NEW c \in Callers, local[c].via # "generate", Return(c, "Ok"),
         keypairs' = keypairs \cup {KeyPairOf(Located(c))},
         UNCHANGED <<signatures, destroyed>>
  PROVE  IInv'
<1> USE DEF IInv, TypeOK
<1> DEFINE k == KeyPairOf(Located(c))
<1>1. keypairs' = keypairs \cup {k}
  OBVIOUS
<1>2. StepOK(c) /\ UNCHANGED hsmVars
  BY ReturnStep
<1>3. Located(c) \in Locals /\ Located(c).via = local[c].via
  BY LocalWithKey DEF Located, Replies
<1>4. k \in KeyPairs /\ k.via # "generate"
  BY <1>3 DEF KeyPairOf, Locals, KeyPairs
<1> HIDE DEF k
<1>5. UNCHANGED <<kind, object>> /\ Evolves
  BY <1>1, <1>2, NothingEvolves DEF hsmVars
<1>6. HsmTypeOK' /\ AppTypeOK' /\ HalvesTogether'
  BY <1>1, <1>2, <1>4 DEF HsmTypeOK, AppTypeOK, HalvesTogether, hsmVars
<1>7. DeliveredAreKnown' /\ DeliveredAreUsable' /\ KeyPairsMatch'
  BY <1>1, <1>4, <1>5 DEF DeliveredAreKnown, DeliveredAreUsable, KeyPairsMatch
<1>8. SignaturesVerify' /\ DestroyedIsFinal'
  BY <1>5 DEF SignaturesVerify, DestroyedIsFinal
<1> QED
  BY <1>2, <1>5, <1>6, <1>7, <1>8, CallerStep

LEMMA KeyDestroyedStep ==
  ASSUME IInv, NEW c \in Callers, KeyDestroyed(c)
  PROVE  IInv'
<1> USE DEF IInv, TypeOK
<1>1. /\ pc[c] = "destroy" /\ resp[c].status = "Ok" /\ Return(c, "Ok")
      /\ destroyed' = destroyed \cup {local[c].priv} /\ UNCHANGED <<keypairs, signatures>>
  BY DEF KeyDestroyed, Granted
<1>2. StepOK(c) /\ UNCHANGED hsmVars
  BY <1>1, ReturnStep
<1>3. local[c].priv \in KeyIds /\ object[local[c].priv] = "Destroyed"
  BY <1>1 DEF CallerInv, DestroysOrSigns, Destroying
<1>4. UNCHANGED <<kind, object>> /\ Evolves
  BY <1>1, <1>2, NothingEvolves DEF hsmVars
<1>5. HsmTypeOK' /\ AppTypeOK' /\ HalvesTogether'
  BY <1>1, <1>2, <1>3 DEF HsmTypeOK, AppTypeOK, HalvesTogether, hsmVars
<1>6. DeliveredAreKnown' /\ DeliveredAreUsable' /\ KeyPairsMatch' /\ SignaturesVerify'
  BY <1>1, <1>4 DEF DeliveredAreKnown, DeliveredAreUsable, KeyPairsMatch, SignaturesVerify
<1>7. DestroyedIsFinal'
  BY <1>1, <1>3, <1>4 DEF DestroyedIsFinal
<1> QED
  BY <1>2, <1>4, <1>5, <1>6, <1>7, CallerStep

LEMMA SignedStep ==
  ASSUME IInv, NEW c \in Callers, Granted(c, "sign"), Return(c, "Ok"),
         signatures' = signatures \cup
           {[keypair |-> KeyPairOf(local[c]), pair |-> resp[c].pair]},
         UNCHANGED <<keypairs, destroyed>>
  PROVE  IInv'
<1> USE DEF IInv, TypeOK
<1> DEFINE k == KeyPairOf(local[c])
           p == resp[c].pair
<1>1. signatures' = signatures \cup {[keypair |-> k, pair |-> p]}
  OBVIOUS
<1>2. StepOK(c) /\ UNCHANGED hsmVars
  BY ReturnStep
<1>3. CallerInv(c) /\ pc[c] = "sign" /\ resp[c].status = "Ok"
  BY DEF Granted
<1>4. k \in keypairs /\ local[c].priv \in KeyIds /\ p = PairOf(local[c].priv)
  BY <1>3 DEF CallerInv, DestroysOrSigns, Signing
<1>5. k.priv = local[c].priv
  BY DEF KeyPairOf
<1> HIDE DEF k
<1>6. k.via = "generate" => p = k.key
  BY <1>4, <1>5, PairIds DEF DeliveredAreKnown, KeyPairsMatch
<1>7. p \in Pairs
  BY <1>4, IdPairs
<1> HIDE DEF p
<1>8. UNCHANGED <<kind, object>> /\ Evolves
  BY <1>2, NothingEvolves DEF hsmVars
<1>9. HsmTypeOK' /\ AppTypeOK' /\ HalvesTogether'
  BY <1>1, <1>2, <1>4, <1>7 DEF HsmTypeOK, AppTypeOK, HalvesTogether, hsmVars
<1>10. DeliveredAreKnown' /\ DeliveredAreUsable' /\ KeyPairsMatch' /\ DestroyedIsFinal'
  BY <1>8 DEF DeliveredAreKnown, DeliveredAreUsable, KeyPairsMatch, DestroyedIsFinal
<1>11. SignaturesVerify'
  BY <1>1, <1>6 DEF SignaturesVerify
<1> QED
  BY <1>2, <1>8, <1>9, <1>10, <1>11, CallerStep

-----------------------------------------------------------------------------
(* The steps of the server.                                                *)

LEMMA ReplyEffect ==
  ASSUME IInv, NEW c \in Callers, NEW p \in Pairs \cup {NoPair}, Reply(c, p)
  PROVE  /\ resp' \in [Callers -> Replies]
         /\ resp'[c].status \in {"Ok", "NetError", "Odd"}
         /\ resp'[c].status = "Ok" => resp'[c].pair = p
         /\ \A d \in Callers \ {c} : resp'[d] = resp[d]
         /\ UNCHANGED <<pc, conn, local, ret, appVars, calls>>
<1>1. PICK s \in {"Ok", "NetError", "Odd"} :
        resp' = [resp EXCEPT ![c] = [status |-> s, pair |-> IF s = "Ok" THEN p ELSE NoPair]]
  BY DEF Reply, ReplyStatuses
<1>2. [status |-> s, pair |-> IF s = "Ok" THEN p ELSE NoPair] \in Replies
  BY DEF Replies
<1> QED
  BY <1>1, <1>2 DEF Reply, IInv, TypeOK

\* What an answer has to establish: typed variables, what the caller may
\* conclude from it, and a server that only evolves.
LEMMA ServerStep ==
  ASSUME IInv, NEW c \in Callers, pc[c] \in RequestStates, resp[c] = Pending,
         resp' \in [Callers -> Replies], resp'[c].status # "Pending",
         \A d \in Callers \ {c} : resp'[d] = resp[d] /\ made'[d] = made[d],
         UNCHANGED <<pc, conn, local, ret, appVars, calls>>,
         made' \in [Callers -> SUBSET Pairs],
         MadeByCall(c)', Generates(c)', DestroysOrSigns(c)',
         HsmTypeOK', HalvesTogether', Evolves
  PROVE  IInv'
<1> USE DEF IInv, TypeOK
<1>1. ClientTypeOK' /\ Others(c)
  BY DEF ClientTypeOK, Others
<1>2. CallerInv(c)
  OBVIOUS
<1>3. HoldsOnlyForRequest(c)'
  BY <1>2 DEF CallerInv, HoldsOnlyForRequest
<1>4. AppTypeOK'
  BY DEF AppTypeOK, appVars
<1>5. StepOK(c)
  BY <1>1, <1>3 DEF StepOK, CallerInv
<1> QED
  BY <1>4, <1>5, ReturnedFrame, CallerStep

\* Answers that change nothing at the server.
LEMMA AnswerStep ==
  ASSUME IInv, NEW c \in Callers, pc[c] \in RequestStates, resp[c] = Pending,
         resp' \in [Callers -> Replies], resp'[c].status # "Pending",
         \A d \in Callers \ {c} : resp'[d] = resp[d],
         UNCHANGED <<pc, conn, local, ret, appVars, calls, hsmVars, made>>,
         resp'[c].status = "Ok" =>
           \/ pc[c] = "query"
           \/ /\ pc[c] = "get_key" /\ local[c].pub \in KeyIds
              /\ resp'[c].pair = PairOf(local[c].pub)
           \/ /\ pc[c] = "sign" /\ local[c].priv \in KeyIds
              /\ resp'[c].pair = PairOf(local[c].priv)
  PROVE  IInv'
<1> USE DEF IInv, TypeOK
<1>1. CallerInv(c) /\ resp[c].status = "Pending"
  BY DEF Pending
<1>2. UNCHANGED <<keypairs, object, kind>> /\ Evolves
  BY NothingEvolves DEF appVars, hsmVars
<1>3. MadeByCall(c)'
  BY <1>1 DEF CallerInv, MadeByCall
<1>4. Generates(c)'
  BY <1>1, <1>2 DEF CallerInv, Generates
<1>5. DestroysOrSigns(c)'
  BY <1>1, <1>2 DEF CallerInv, DestroysOrSigns
<1>6. HsmTypeOK' /\ HalvesTogether'
  BY DEF HsmTypeOK, HalvesTogether, hsmVars
<1> QED
  BY <1>2, <1>3, <1>4, <1>5, <1>6, ServerStep

LEMMA ServeReadStep ==
  ASSUME IInv, NEW c \in Callers, ServeQuery(c) \/ ServeGet(c) \/ ServeSign(c)
  PROVE  IInv'
<1> USE DEF Waiting, RequestStates
<1>1. CASE ServeQuery(c)
  <2>1. NoPair \in Pairs \cup {NoPair} /\ Reply(c, NoPair)
    BY <1>1 DEF ServeQuery
  <2> QED
    BY <1>1, <2>1, ReplyEffect, AnswerStep DEF ServeQuery
<1>2. CASE ServeGet(c)
  <2>1. PairOf(local[c].pub) \in Pairs \cup {NoPair} /\ local[c].pub \in KeyIds
    BY <1>2, IdPairs DEF ServeGet, Exists
  <2> QED
    BY <1>2, <2>1, ReplyEffect, AnswerStep DEF ServeGet
<1>3. CASE ServeSign(c)
  <2>1. PairOf(local[c].priv) \in Pairs \cup {NoPair} /\ local[c].priv \in KeyIds
    BY <1>3, IdPairs DEF ServeSign, CanSign
  <2> QED
    BY <1>3, <2>1, ReplyEffect, AnswerStep DEF ServeSign
<1> QED
  BY <1>1, <1>2, <1>3

LEMMA ServeWithoutStep ==
  ASSUME IInv, NEW c \in Callers, NEW status \in {"ServerError", "NetError", "Odd"},
         ServeWithout(c, status)
  PROVE  IInv'
<1> DEFINE r == [status |-> status, pair |-> NoPair]
<1>1. r \in Replies /\ r.status = status
  BY DEF Replies
<1>2. resp' = [resp EXCEPT ![c] = r]
  BY DEF ServeWithout
<1> HIDE DEF r
<1>3. /\ resp' \in [Callers -> Replies] /\ resp'[c].status \notin {"Ok", "Pending"}
      /\ \A d \in Callers \ {c} : resp'[d] = resp[d]
  BY <1>1, <1>2 DEF IInv, TypeOK
<1> QED
  BY <1>3, AnswerStep DEF ServeWithout

\* What Activate, Revoke and Destroy do to the object named.
LEMMA ObjectStep ==
  ASSUME IInv, NEW c \in Callers, Reply(c, NoPair), resp[c] = Pending, UNCHANGED made,
         NEW s \in Usable, SetObject(local[c].priv, s),
         local[c].priv \in KeyIds, object[local[c].priv] # "Absent",
         object[local[c].priv] = "Destroyed" => s = "Destroyed",
         \/ pc[c] = "activate"
         \/ pc[c] = "revoke"
         \/ pc[c] = "destroy" /\ s = "Destroyed"
  PROVE  IInv'
<1> USE DEF IInv, TypeOK
<1> DEFINE id == local[c].priv
<1>1. CallerInv(c) /\ resp[c].status = "Pending" /\ pc[c] \in RequestStates
  BY DEF Pending, RequestStates
<1>2. /\ resp' \in [Callers -> Replies] /\ resp'[c].status \in {"Ok", "NetError", "Odd"}
      /\ \A d \in Callers \ {c} : resp'[d] = resp[d]
      /\ UNCHANGED <<pc, conn, local, ret, appVars, calls>>
  BY ReplyEffect
<1>3. /\ object' \in [KeyIds -> ObjectStates] /\ object'[id] = s /\ s # "Absent"
      /\ \A x \in KeyIds \ {id} : object'[x] = object[x]
      /\ UNCHANGED <<server, kind>>
  BY DEF SetObject, HsmTypeOK, Usable, ObjectStates
<1>4. HsmTypeOK' /\ Evolves
  BY <1>2, <1>3 DEF HsmTypeOK, Evolves, Usable, appVars
<1>5. HalvesTogether'
  BY <1>3, PairIds DEF HalvesTogether
<1>6. MadeByCall(c)'
  BY <1>1, <1>2 DEF CallerInv, MadeByCall
<1>7. Generates(c)'
  BY <1>1, <1>2, <1>3 DEF CallerInv, Generates, ReadingKey, Activating, Asking
<1>8. DestroysOrSigns(c)'
  BY <1>1, <1>2, <1>3 DEF CallerInv, DestroysOrSigns, Destroying, Signing
<1> QED
  BY <1>1, <1>2, <1>4, <1>5, <1>6, <1>7, <1>8, ServerStep

LEMMA ServeObjectStep ==
  ASSUME IInv, NEW c \in Callers, ServeActivate(c) \/ ServeRevoke(c) \/ ServeDestroy(c)
  PROVE  IInv'
<1> USE DEF Waiting, Usable
<1>1. CASE ServeActivate(c)
  BY <1>1, ObjectStep DEF ServeActivate, CanActivate
<1>2. CASE ServeRevoke(c)
  <2>1. server.revokes \subseteq {"PreActive", "Active", "Deactivated"}
    BY ServersAssumption DEF IInv, TypeOK, HsmTypeOK, Profiles
  <2> QED
    BY <1>2, <2>1, ObjectStep DEF ServeRevoke, CanRevoke
<1>3. CASE ServeDestroy(c)
  BY <1>3, ObjectStep DEF ServeDestroy, CanDestroy, Exists
<1> QED
  BY <1>1, <1>2, <1>3

LEMMA ServeCreateStep ==
  ASSUME IInv, NEW c \in Callers, ServeCreate(c)
  PROVE  IInv'
<1> USE DEF IInv, TypeOK
<1> DEFINE k == Template(c)
<1>1. PICK p \in Pairs : /\ CreateKeyPair(p, k)
                         /\ Reply(c, p)
                         /\ made' = [made EXCEPT ![c] = @ \cup {p}]
  BY DEF ServeCreate
<1>2. CallerInv(c) /\ pc[c] \in {"create", "recreate"} /\ resp[c] = Pending
  BY DEF ServeCreate, Waiting
<1>3. /\ resp' \in [Callers -> Replies] /\ resp'[c].status \in {"Ok", "NetError", "Odd"}
      /\ resp'[c].status = "Ok" => resp'[c].pair = p
      /\ \A d \in Callers \ {c} : resp'[d] = resp[d]
      /\ UNCHANGED <<pc, conn, local, ret, appVars, calls>>
  BY <1>1, ReplyEffect
<1>4. /\ local[c].via = "generate" /\ local[c].alg \in SupportedAlgorithms /\ made[c] = {}
      /\ ret[c] = "None"
  BY <1>2 DEF CallerInv, HoldsOnlyForRequest, Generates, MadeByCall, Asking, Pending
<1>5. k = AlgInfo(local[c].alg).kind /\ k \in KeyKinds
  BY <1>4, AlgInfoKind DEF Template
<1> HIDE DEF k
<1>6. /\ object[Private(p)] = "Absent" /\ object[Public(p)] = "Absent"
      /\ object' \in [KeyIds -> ObjectStates] /\ kind' \in [Pairs -> KeyKinds]
      /\ object'[Private(p)] # "Absent" /\ object'[Public(p)] # "Absent" /\ kind'[p] = k
      /\ \A q \in Pairs \ {p} : kind'[q] = kind[q]
      /\ \A id \in KeyIds : id[2] # p => object'[id] = object[id]
      /\ UNCHANGED server
  BY <1>1, <1>5, PairIds DEF CreateKeyPair, HsmTypeOK, HalvesTogether, ObjectStates,
                             Private, Public
<1>7. \A id \in KeyIds : id[2] = p => object[id] = "Absent"
  <2>1. \A id \in KeyIds : id = <<id[1], id[2]>> /\ id[1] \in {"private", "public"}
    BY DEF KeyIds
  <2>2. \A id \in KeyIds : id[2] = p => id \in {Private(p), Public(p)}
    BY <2>1, Zenon DEF Private, Public
  <2> QED
    BY <1>6, <2>2
<1>8. \A q \in Pairs : Private(q)[2] = q /\ Public(q)[2] = q
  BY DEF Private, Public
<1>9. HsmTypeOK' /\ HalvesTogether'
  BY <1>6, <1>8, PairIds DEF HsmTypeOK, HalvesTogether
<1>10. Evolves
  BY <1>3, <1>6, <1>7 DEF Evolves, Usable, appVars
<1>11. /\ made' \in [Callers -> SUBSET Pairs] /\ made'[c] = {p}
       /\ \A d \in Callers \ {c} : made'[d] = made[d]
  BY <1>1, <1>4
<1>12. MadeByCall(c)'
  BY <1>2, <1>3, <1>4, <1>11 DEF MadeByCall
<1>13. Generates(c)'
  BY <1>2, <1>3, <1>4, <1>5, <1>6 DEF Generates, Asking, ReadingKey, Activating
<1>14. DestroysOrSigns(c)'
  BY <1>2, <1>3 DEF DestroysOrSigns, Destroying, Signing
<1> QED
  BY <1>2, <1>3, <1>9, <1>10, <1>11, <1>12, <1>13, <1>14, ServerStep DEF RequestStates

-----------------------------------------------------------------------------
(* The start of each call.                                                 *)

LEMMA NoLocalType == NoLocal \in Locals
  BY DEF NoLocal, Locals, Vias, SecurityAlgorithms, Ids, NoLength

LEMMA ImportType ==
  ASSUME NEW via \in Vias, NEW alg \in SecurityAlgorithms, NEW flags \in Nat,
         NEW priv \in Ids, NEW pub \in Ids
  PROVE  LET l == Import(via, alg, flags, priv, pub)
         IN /\ l \in Locals /\ l.via = via /\ l.alg = alg /\ l.flags = flags
            /\ l.priv = priv /\ l.pub = pub
  BY DEF Import, NoLocal, Locals, NoLength

LEMMA ForGenerateType ==
  ASSUME NEW r \in Params
  PROVE  LET l == ForGenerate(r)
         IN /\ l \in Locals /\ l.via = "generate" /\ l.alg \in SupportedAlgorithms
            /\ l.alg = r.alg /\ l.bits = r.bits /\ l.flags = r.flags
<1>1. r.alg \in SupportedAlgorithms /\ r.bits \in Nat /\ r.flags \in Nat
  BY ParamsAssumption
<1>2. \A a \in SupportedAlgorithms : a \in SecurityAlgorithms
  BY DEF SupportedAlgorithms, ALG_MAPPINGS, SecurityAlgorithms, RsaAlgorithms,
         EcdsaAlgorithms, EdAlgorithms
<1> QED
  BY <1>1, <1>2 DEF ForGenerate, Locals, Vias, Ids

\* sign_raw() uses the KeyPair as it is.
LEMMA SignWithType ==
  ASSUME NEW k \in KeyPairs
  PROVE  LET l == WithKey(Import(k.via, k.alg, k.flags, k.priv, k.pub), k.key)
         IN l \in Locals /\ KeyPairOf(l) = k
<1> DEFINE m == Import(k.via, k.alg, k.flags, k.priv, k.pub)
           l == WithKey(m, k.key)
<1>1. /\ k.via \in Vias /\ k.alg \in SecurityAlgorithms /\ k.flags \in Nat
      /\ k.priv \in Ids /\ k.pub \in Ids /\ k.key \in Pairs \cup {NoPair}
  BY DEF KeyPairs
<1>2. /\ m \in Locals /\ m.via = k.via /\ m.alg = k.alg /\ m.flags = k.flags
      /\ m.priv = k.priv /\ m.pub = k.pub
  BY <1>1, ImportType
<1> HIDE DEF m
<1>3. /\ l \in Locals /\ l.via = k.via /\ l.alg = k.alg /\ l.flags = k.flags
      /\ l.priv = k.priv /\ l.pub = k.pub /\ l.key = k.key
  BY <1>1, <1>2, LocalWithKey
<1> HIDE DEF l
<1>4. KeyPairOf(l) = k
  BY <1>3 DEF KeyPairOf, KeyPairs
<1> QED
  BY <1>3, <1>4 DEF l, m

LEMMA StartStep ==
  ASSUME IInv, NEW c \in Callers, Start(c)
  PROVE  IInv'
<1> USE DEF IInv, TypeOK, ConnectStates
<1>1. CASE Generate(c)
  <2>1. PICK r \in Params : Enter(c, "gen_connect", ForGenerate(r))
    BY <1>1 DEF Generate
  <2> QED
    BY <2>1, ForGenerateType, EnterStep
<1>2. CASE FromMetadata(c)
  <2> DEFINE L(a, priv, pub) == Import("from_metadata", a, 0, priv, pub)
  <2>1. PICK a \in ImportAlgs, priv \in KeyIds, pub \in KeyIds :
          Enter(c, "meta_connect", L(a, priv, pub))
    BY <1>2 DEF FromMetadata
  <2>2. a \in SecurityAlgorithms /\ priv \in Ids /\ pub \in Ids /\ "from_metadata" \in Vias
    BY ImportAlgsAssumption DEF Ids, Vias
  <2>3. L(a, priv, pub) \in Locals /\ L(a, priv, pub).via = "from_metadata"
    BY <2>2, ImportType
  <2> HIDE DEF L
  <2> QED
    BY <2>1, <2>3, EnterStep
<1>3. CASE FromUrls(c)
  <2> DEFINE L(k, l) == Import("from_urls", k.alg, k.flags, k.priv, l.pub)
  <2>1. PICK k, l \in keypairs :
          \/ Enter(c, "meta_connect", L(k, l))
          \/ /\ pc[c] = "idle" /\ calls < MaxCalls /\ calls' = calls + 1
             /\ ret' = [ret EXCEPT ![c] = "Failed"] /\ made' = [made EXCEPT ![c] = {}]
             /\ UNCHANGED <<hsmVars, pc, conn, resp, local, appVars>>
    BY <1>3 DEF FromUrls
  <2>2. /\ k.alg \in SecurityAlgorithms /\ k.flags \in Nat /\ k.priv \in Ids
        /\ l.pub \in Ids /\ "from_urls" \in Vias
    BY DEF KeyPairs, Vias
  <2>3. L(k, l) \in Locals /\ L(k, l).via = "from_urls"
    BY <2>2, ImportType
  <2> HIDE DEF L
  <2> QED
    BY <2>1, <2>3, EnterStep, RefusedStep
<1>4. CASE DestroyKey(c)
  <2>1. PICK id \in KeyIds : Enter(c, "des_connect", WithIds(NoLocal, id, NoId))
    BY <1>4 DEF DestroyKey, Destroyable
  <2>2. id \in Ids /\ NoId \in Ids
    BY DEF Ids
  <2>3. WithIds(NoLocal, id, NoId) \in Locals /\ WithIds(NoLocal, id, NoId).priv = id
    BY <2>2, NoLocalType, LocalWithIds
  <2> QED
    BY <2>1, <2>3, EnterStep
<1>5. CASE SignRaw(c)
  <2>1. PICK k \in keypairs :
          Enter(c, "sign_connect", WithKey(Import(k.via, k.alg, k.flags, k.priv, k.pub), k.key))
    BY <1>5 DEF SignRaw
  <2> QED
    BY <2>1, SignWithType, EnterStep
<1>6. CASE SignUnsupported(c)
  BY <1>6, RefusedStep DEF SignUnsupported
<1> QED
  BY <1>1, <1>2, <1>3, <1>4, <1>5, <1>6 DEF Start

-----------------------------------------------------------------------------
(* The calls as they go on, and the theorems.                              *)

LEMMA BailsStep ==
  ASSUME IInv, NEW c \in Callers, NEW label, Bails(c, label)
  PROVE  IInv'
BY EmptyHandedStep DEF Bails

LEMMA ContinueStep ==
  ASSUME IInv, NEW c \in Callers, Continue(c)
  PROVE  IInv'
<1> USE DEF Connections
<1>1. CASE ConnectFails(c)
  BY <1>1, EmptyHandedStep DEF ConnectFails
<1>2. CASE GenerateQueries(c) \/ GenerateCreates(c)
  BY <1>2, ConnectStep DEF GenerateQueries, GenerateCreates
<1>3. CASE GenerateRejectsLength(c)
  <2>1. made[c] = {}
    BY <1>3 DEF IInv, CallerInv, MadeByCall, GenerateRejectsLength
  <2> QED
    BY <1>3, <2>1, EmptyHandedStep DEF GenerateRejectsLength
<1>4. CASE Bails(c, "query") \/ Bails(c, "get_key") \/ Bails(c, "activate")
             \/ Bails(c, "revoke") \/ Bails(c, "destroy")
  BY <1>4, BailsStep
<1>5. CASE Queried(c)
  <2>1. made[c] = {}
    BY <1>5 DEF IInv, CallerInv, MadeByCall, Queried, Granted
  <2> QED
    BY <1>5, <2>1, EmptyHandedStep, ProceedStep DEF Queried
<1>6. CASE CreateFails(c)
  BY <1>6, EmptyHandedStep, ProceedStep DEF CreateFails
<1>7. CASE Created(c)
  BY <1>7, CreatedStep
<1>8. CASE \/ Connect(c, "meta_connect", "get_key") \/ Connect(c, "act_connect", "activate")
           \/ Connect(c, "des_connect", "revoke") \/ Connect(c, "sign_connect", "sign")
  BY <1>8, ConnectStep
<1>9. CASE KeyFetched(c)
  <2> DEFINE r == IF Fetched(c) = "Panic" THEN "Panic" ELSE "Failed"
  <2>1. \/ local[c].via = "generate" /\ Release(c, "act_connect", Located(c))
        \/ /\ local[c].via # "generate" /\ Return(c, "Ok")
           /\ keypairs' = keypairs \cup {KeyPairOf(Located(c))}
           /\ UNCHANGED <<signatures, destroyed>>
        \/ Return(c, r) /\ UNCHANGED appVars
    BY <1>9 DEF KeyFetched
  <2>2. r \in {"Failed", "Panic"}
    OBVIOUS
  <2> HIDE DEF r
  <2> QED
    BY <1>9, <2>1, <2>2, LocatedStep, ImportedStep, EmptyHandedStep DEF KeyFetched
<1>10. CASE Activated(c)
  BY <1>10, ActivatedStep
<1>11. CASE Revoked(c)
  BY <1>11, ProceedStep DEF Revoked
<1>12. CASE KeyDestroyed(c)
  BY <1>12, KeyDestroyedStep
<1>13. CASE SignFails(c)
  BY <1>13, BailsStep DEF SignFails
<1>14. CASE SignPanics(c)
  BY <1>14, EmptyHandedStep DEF SignPanics
<1>15. CASE Signed(c)
  <2>1. CASE UNCHANGED signatures /\ Return(c, "Failed")
    BY <1>15, <2>1, EmptyHandedStep DEF Signed, appVars
  <2>2. CASE /\ Return(c, "Ok")
             /\ signatures' = signatures \cup
                  {[keypair |-> KeyPairOf(local[c]), pair |-> resp[c].pair]}
    BY <1>15, <2>2, SignedStep DEF Signed
  <2> QED
    BY <1>15, <2>1, <2>2 DEF Signed
<1> QED
  BY <1>1, <1>2, <1>3, <1>4, <1>5, <1>6, <1>7, <1>8, <1>9, <1>10, <1>11, <1>12, <1>13,
     <1>14, <1>15 DEF Continue

LEMMA ServeStep ==
  ASSUME IInv, NEW c \in Callers, Serve(c)
  PROVE  IInv'
<1>1. CASE Refuse(c) \/ LoseRequest(c) \/ AnswerOddly(c)
  BY <1>1, ServeWithoutStep DEF Refuse, LoseRequest, AnswerOddly
<1> QED
  BY <1>1, ServeReadStep, ServeObjectStep, ServeCreateStep DEF Serve

LEMMA StutterStep ==
  ASSUME IInv, UNCHANGED vars
  PROVE  IInv'
BY DEF vars, hsmVars, clientVars, appVars, IInv, TypeOK, HsmTypeOK, HalvesTogether,
       DeliveredAreKnown, DeliveredAreUsable, KeyPairsMatch, SignaturesVerify,
       DestroyedIsFinal, CallerInv, HoldsOnlyForRequest, MadeByCall, Generates,
       DestroysOrSigns

LEMMA InitInv == Init => IInv
<1> SUFFICES ASSUME Init
             PROVE  IInv
  OBVIOUS
<1> USE DEF Init, HsmInit
<1>1. TypeOK
  BY NoLocalType, MaxCallsAssumption
     DEF TypeOK, HsmTypeOK, PcValues, Pending, Replies, KeyKinds, ObjectStates
<1>2. HalvesTogether
  BY PairIds DEF HalvesTogether
<1>3. \A c \in Callers : CallerInv(c)
  BY DEF CallerInv, HoldsOnlyForRequest, MadeByCall, Generates, DestroysOrSigns, Pending,
         RequestStates, Asking, ReadingKey, Activating, Destroying, Signing
<1> QED
  BY <1>1, <1>2, <1>3 DEF IInv, DeliveredAreKnown, DeliveredAreUsable, KeyPairsMatch,
     SignaturesVerify, DestroyedIsFinal

LEMMA NextInv == IInv /\ [Next \/ Finished]_vars => IInv'
<1> SUFFICES ASSUME IInv, [Next \/ Finished]_vars
             PROVE  IInv'
  OBVIOUS
<1>1. CASE Next
  BY <1>1, StartStep, ContinueStep, ServeStep DEF Next
<1>2. CASE Finished \/ UNCHANGED vars
  BY <1>2, StutterStep DEF Finished
<1> QED
  BY <1>1, <1>2

\* The inductive invariant holds in every state of every behaviour of the
\* calls of src/lib.rs and src/key_pair.rs.
THEOREM Invariance == Spec => []IInv
<1> QED
  BY InitInv, NextInv, PTL DEF Spec

\* The variables of every caller, and what was returned, keep their types.
THEOREM TypeCorrect == Spec => []TypeOK
<1>1. IInv => TypeOK
  BY DEF IInv
<1> QED
  BY <1>1, Invariance, PTL

\* One call of generate() leaves at most one pair at the server (src/lib.rs,
\* lines 206-286), for any number of callers and any faults.
THEOREM OnePair == Spec => []OnePairPerCall
<1>1. IInv => OnePairPerCall
  BY DEF IInv, CallerInv, MadeByCall, OnePairPerCall
<1> QED
  BY <1>1, Invariance, PTL

\* The ids and the DNSKEY of a generated KeyPair are of one pair, of the kind
\* asked for (src/lib.rs, lines 302-319).
THEOREM Delivered == Spec => []KeyPairsMatch
<1>1. IInv => KeyPairsMatch
  BY DEF IInv
<1> QED
  BY <1>1, Invariance, PTL

\* The private key of a generated KeyPair has been activated (src/lib.rs, lines
\* 321-343).
THEOREM DeliveredActivated == Spec => []DeliveredAreUsable
<1>1. IInv => DeliveredAreUsable
  BY DEF IInv
<1> QED
  BY <1>1, Invariance, PTL

\* Signatures of generated KeyPairs verify under their DNSKEY
\* (src/key_pair.rs, lines 339-370).
THEOREM Verifiable == Spec => []SignaturesVerify
<1>1. IInv => SignaturesVerify
  BY DEF IInv
<1> QED
  BY <1>1, Invariance, PTL

\* No caller waits for a connection while it holds one (src/lib.rs, lines
\* 290-293), for pools of any size.
THEOREM PoolNeverHeld == Spec => []NoHoldAndWait
<1>1. IInv => NoHoldAndWait
  BY DEF IInv, CallerInv, HoldsOnlyForRequest, NoHoldAndWait, ConnectStates, RequestStates
<1> QED
  BY <1>1, Invariance, PTL

\* A key that destroy() said it has destroyed stays destroyed (src/lib.rs,
\* lines 352-357).
THEOREM DestroyedForGood == Spec => []DestroyedIsFinal
<1>1. IInv => DestroyedIsFinal
  BY DEF IInv
<1> QED
  BY <1>1, Invariance, PTL

-----------------------------------------------------------------------------
(* Who activates keys.                                                     *)

LEMMA CallersLeaveServer ==
  ASSUME NEW c \in Callers, Start(c) \/ Continue(c)
  PROVE  UNCHANGED hsmVars
<1> USE DEF Enter, Return, Connect, Proceed, Release
<1>1. CASE Start(c)
  BY <1>1 DEF Start, Generate, FromMetadata, FromUrls, DestroyKey, SignRaw, SignUnsupported
<1>2. CASE Continue(c)
  BY <1>2 DEF Continue, ConnectFails, GenerateQueries, GenerateCreates,
     GenerateRejectsLength, Bails, Queried, CreateFails, Created, KeyFetched, Activated,
     Revoked, KeyDestroyed, SignFails, SignPanics, Signed
<1> QED
  BY <1>1, <1>2

LEMMA OnlyActivateActivates ==
  ASSUME IInv, NEW c \in Callers, Serve(c), NEW p \in Pairs,
         object[Private(p)] = "PreActive", object'[Private(p)] = "Active"
  PROVE  ServeActivate(c) /\ local[c].priv = Private(p)
<1> USE PairIds DEF IInv, TypeOK, HsmTypeOK
<1>1. ASSUME NEW id, NEW s, SetObject(id, s)
      PROVE  s = "Active" /\ id = Private(p)
  BY <1>1 DEF SetObject
<1>2. CASE ServeQuery(c) \/ ServeGet(c) \/ ServeSign(c)
  BY <1>2 DEF ServeQuery, ServeGet, ServeSign, hsmVars
<1>3. CASE Refuse(c) \/ LoseRequest(c) \/ AnswerOddly(c)
  BY <1>3 DEF Refuse, LoseRequest, AnswerOddly, ServeWithout, hsmVars
<1>4. CASE ServeCreate(c)
  <2>1. PICK q \in Pairs : CreateKeyPair(q, Template(c))
    BY <1>4 DEF ServeCreate
  <2>2. q # p
    BY <2>1 DEF CreateKeyPair
  <2>3. object'[Private(p)] = object[Private(p)]
    BY <2>1, <2>2 DEF CreateKeyPair, Private
  <2> QED
    BY <2>3
<1>5. CASE ServeRevoke(c) \/ ServeDestroy(c)
  BY <1>1, <1>5 DEF ServeRevoke, ServeDestroy
<1>6. CASE ServeActivate(c)
  BY <1>1, <1>6 DEF ServeActivate
<1> QED
  BY <1>2, <1>3, <1>4, <1>5, <1>6 DEF Serve

\* A key is activated only for the caller that has read the public half of its
\* pair (src/lib.rs, lines 307-333), whatever other callers do.
THEOREM LocatedBeforeActive == Spec => ActivationAfterLocation
<1> DEFINE Locates(p) == \E c \in Callers : /\ pc[c] = "activate"
                                            /\ local[c].priv = Private(p)
                                            /\ local[c].key = p
           Step == \A p \in Pairs :
             object[Private(p)] = "PreActive" /\ object'[Private(p)] = "Active" => Locates(p)
<1>1. IInv /\ [Next \/ Finished]_vars => [Step]_vars
  <2> SUFFICES ASSUME IInv, Next \/ Finished, NEW p \in Pairs,
                      object[Private(p)] = "PreActive", object'[Private(p)] = "Active"
               PROVE  Locates(p)
    OBVIOUS
  <2>1. object' # object
    OBVIOUS
  <2>2. PICK c \in Callers : Serve(c)
    BY <2>1, CallersLeaveServer DEF Next, Finished, vars, hsmVars
  <2>3. ServeActivate(c) /\ local[c].priv = Private(p)
    BY <2>2, OnlyActivateActivates
  <2>4. pc[c] = "activate" /\ CallerInv(c)
    BY <2>3 DEF ServeActivate, Waiting, IInv
  <2>5. local[c].priv = Private(local[c].key)
    BY <2>4 DEF CallerInv, Generates, Activating
  <2> QED
    BY <2>3, <2>4, <2>5 DEF Private
<1>2. Spec => [][Step]_vars
  <2> HIDE DEF Step
  <2> QED
    BY <1>1, Invariance, PTL DEF Spec
<1> QED
  BY <1>2 DEF ActivationAfterLocation
=============================================================================
