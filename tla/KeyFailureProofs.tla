-------------------------- MODULE KeyFailureProofs --------------------------
(***************************************************************************)
(* What a generate() that fails leaves behind in KeyLifecycle, for any     *)
(* values of its constants, and what it takes for none to fail.            *)
(*                                                                         *)
(* No two calls have had the same pair made for them, and the pair a call  *)
(* goes on with is one of them.  Since keys are activated only for the     *)
(* call that holds their pair, a pair made for a call that has not         *)
(* returned is active only when the answer to its activation is there, or  *)
(* lost, or of another type.                                               *)
(*                                                                         *)
(* On a server that works, the pair a call holds stays as it was created   *)
(* until the call activates it, because only ids of returned KeyPairs are  *)
(* destroyed; the server has room, because every pair is that of a call;   *)
(* and of the two templates the server accepts one.  So every request of   *)
(* generate() after the first refusal is granted.                          *)
(***************************************************************************)
EXTENDS KeyCustodyProofs, FiniteSetTheorems

Owned ==
  /\ \A c \in Callers : \A p \in made[c] : object[Private(p)] # "Absent"
  /\ \A c, d \in Callers : \A p \in made[c] : p \in made[d] => c = d
  /\ \A c \in Callers, p \in Pairs : Holds(c, p) => p \in made[c]

ActivationAnswered(c) ==
  pc[c] = "activate" /\ resp[c].status \in {"Ok", "NetError", "Odd"}

ActiveWhenAnswered(c) ==
  \A p \in made[c] :
    pc[c] # "idle" /\ object[Private(p)] = "Active" => ActivationAnswered(c)

FInv == HInv /\ Owned /\ \A c \in Callers : ActiveWhenAnswered(c)

-----------------------------------------------------------------------------
(* The steps of a caller.                                                  *)

LEMMA StartMakesNothing ==
  ASSUME HInv, NEW c \in Callers, Start(c)
  PROVE  pc[c] = "idle" /\ made' = [made EXCEPT ![c] = {}]
  BY DEF Start, Generate, FromMetadata, FromUrls, DestroyKey, SignRaw, SignUnsupported, Enter

LEMMA ContinueMakesNothing ==
  ASSUME HInv, NEW c \in Callers, Continue(c)
  PROVE  /\ UNCHANGED made
         /\ pc[c] = "activate" => pc'[c] = "idle"
         /\ pc[c] = "activate" /\ resp[c].status = "Ok" => ret'[c] = "Ok"
<1> USE DEF HInv, IInv, TypeOK, Return, Answered, Granted
<1>1. CASE \/ ConnectFails(c) \/ GenerateRejectsLength(c) \/ SignFails(c) \/ SignPanics(c)
           \/ Bails(c, "query") \/ Bails(c, "get_key") \/ Bails(c, "activate")
           \/ Bails(c, "revoke") \/ Bails(c, "destroy") \/ KeyDestroyed(c) \/ Signed(c)
  BY <1>1 DEF ConnectFails, ConnectStates, GenerateRejectsLength, SignFails, SignPanics,
              Bails, KeyDestroyed, Signed
<1>2. CASE \/ GenerateQueries(c) \/ GenerateCreates(c)
           \/ Connect(c, "meta_connect", "get_key") \/ Connect(c, "act_connect", "activate")
           \/ Connect(c, "des_connect", "revoke") \/ Connect(c, "sign_connect", "sign")
  BY <1>2 DEF GenerateQueries, GenerateCreates, Connect
<1>3. CASE Queried(c) \/ CreateFails(c) \/ Revoked(c) \/ Created(c) \/ KeyFetched(c)
  BY <1>3 DEF Queried, CreateFails, Revoked, Created, KeyFetched, Proceed, Release
<1>4. CASE Activated(c)
  BY <1>4 DEF Activated
<1> QED
  BY <1>1, <1>2, <1>3, <1>4 DEF Continue

LEMMA ContinueNotIdle ==
  ASSUME NEW c \in Callers, Continue(c)
  PROVE  pc[c] # "idle"
<1> USE DEF Answered, Granted, Connect
<1>1. CASE \/ ConnectFails(c) \/ GenerateRejectsLength(c) \/ SignFails(c) \/ SignPanics(c)
           \/ GenerateQueries(c) \/ GenerateCreates(c) \/ Queried(c) \/ CreateFails(c)
  BY <1>1 DEF ConnectFails, ConnectStates, GenerateRejectsLength, SignFails, SignPanics,
              Bails, GenerateQueries, GenerateCreates, Queried, CreateFails
<1> QED
  BY <1>1 DEF Continue, Bails, Created, KeyFetched, Activated, Revoked, KeyDestroyed, Signed

LEMMA CallerKeeps ==
  ASSUME HInv, NEW c \in Callers, Start(c) \/ Continue(c)
  PROVE  Keeps(c) /\ UNCHANGED hsmVars
<1>1. UNCHANGED hsmVars
  BY CallersLeaveServer
<1>2. CASE Start(c)
  BY <1>1, <1>2, StartKeeps
<1>3. CASE Activated(c)
  <2>1. Return(c, "Ok")
    BY <1>3 DEF Activated
  <2> QED
    BY <1>1, <2>1, ReturnKeeps DEF HInv
<1>4. CASE Continue(c) /\ ~Activated(c)
  BY <1>1, <1>4, ContinueKeeps
<1> QED
  BY <1>2, <1>3, <1>4

LEMMA CallerOwns ==
  ASSUME FInv, NEW c \in Callers, Start(c) \/ Continue(c)
  PROVE  Owned' /\ \A d \in Callers : ActiveWhenAnswered(d)'
<1> USE DEF FInv
<1>1. /\ Keeps(c) /\ Others(c) /\ UNCHANGED object
      /\ made'[c] = made[c] \/ (pc[c] = "idle" /\ made'[c] = {})
  BY CallerKeeps, StartMakesNothing, ContinueMakesNothing DEF Keeps, hsmVars, HInv, IInv, TypeOK
<1>2. \A d \in Callers : made'[d] \subseteq made[d]
  BY <1>1 DEF Others
<1>3. \A d \in Callers, p \in Pairs : Holds(d, p)' => Holds(d, p)
  BY <1>1, OthersHold DEF Keeps
<1>4. pc[c] = "idle" => \A p \in Pairs : ~Holds(c, p)
  BY DEF Holds, ReadingKey, Activating
<1>5. Owned'
  BY <1>1, <1>2, <1>3, <1>4 DEF Owned, Others
<1>6. ActiveWhenAnswered(c)'
  <2>1. made'[c] = {} \/ (pc[c] = "activate" => pc'[c] = "idle")
    BY StartMakesNothing, ContinueMakesNothing DEF HInv, IInv, TypeOK
  <2>2. pc[c] = "idle" => made'[c] = {}
    BY StartMakesNothing, ContinueNotIdle DEF HInv, IInv, TypeOK
  <2> QED
    BY <1>1, <1>2, <2>1, <2>2 DEF ActiveWhenAnswered, ActivationAnswered
<1>7. \A d \in Callers \ {c} : ActiveWhenAnswered(d)'
  BY <1>1 DEF ActiveWhenAnswered, ActivationAnswered, Others
<1> QED
  BY <1>5, <1>6, <1>7

-----------------------------------------------------------------------------
(* The steps of the server.                                                *)

LEMMA ActiveWasInactive ==
  ASSUME HInv, NEW c \in Callers, Serve(c), NEW p \in Pairs,
         object'[Private(p)] = "Active"
  PROVE  object[Private(p)] \in {"PreActive", "Active"}
<1> USE PairIds DEF HInv, IInv, TypeOK, HsmTypeOK
<1>1. CASE \/ ServeQuery(c) \/ ServeGet(c) \/ ServeSign(c)
           \/ Refuse(c) \/ LoseRequest(c) \/ AnswerOddly(c)
  BY <1>1 DEF ServeQuery, ServeGet, ServeSign, Refuse, LoseRequest, AnswerOddly,
              ServeWithout, hsmVars
<1>2. CASE ServeCreate(c)
  BY <1>2 DEF ServeCreate, CreateKeyPair
<1>3. CASE ServeActivate(c) \/ ServeRevoke(c) \/ ServeDestroy(c)
  BY <1>3 DEF ServeActivate, ServeRevoke, ServeDestroy, SetObject, CanActivate
<1> QED
  BY <1>1, <1>2, <1>3 DEF Serve

LEMMA NothingVanishes ==
  ASSUME HInv, NEW c \in Callers, Serve(c), ~ServeCreate(c), NEW p \in Pairs,
         object[Private(p)] # "Absent"
  PROVE  object'[Private(p)] # "Absent"
<1> USE PairIds DEF HInv, IInv, TypeOK, HsmTypeOK
<1>1. CASE \/ ServeQuery(c) \/ ServeGet(c) \/ ServeSign(c)
           \/ Refuse(c) \/ LoseRequest(c) \/ AnswerOddly(c)
  BY <1>1 DEF ServeQuery, ServeGet, ServeSign, Refuse, LoseRequest, AnswerOddly,
              ServeWithout, hsmVars
<1>2. CASE ServeActivate(c) \/ ServeRevoke(c) \/ ServeDestroy(c)
  BY <1>2 DEF ServeActivate, ServeRevoke, ServeDestroy, SetObject
<1> QED
  BY <1>1, <1>2 DEF Serve

LEMMA KeysEndure ==
  ASSUME HInv, NEW c \in Callers, Serve(c), NEW p \in Pairs,
         object[Private(p)] # "Absent"
  PROVE  object'[Private(p)] # "Absent" /\ kind'[p] = kind[p]
<1> USE PairIds DEF HInv, IInv, TypeOK, HsmTypeOK
<1>1. CASE ServeCreate(c)
  <2>1. PICK q \in Pairs : CreateKeyPair(q, Template(c))
    BY <1>1 DEF ServeCreate
  <2>2. q # p
    BY <2>1 DEF CreateKeyPair
  <2> QED
    BY <2>1, <2>2 DEF CreateKeyPair, Private
<1>2. CASE \/ ServeQuery(c) \/ ServeGet(c) \/ ServeSign(c)
           \/ Refuse(c) \/ LoseRequest(c) \/ AnswerOddly(c)
  BY <1>2 DEF ServeQuery, ServeGet, ServeSign, Refuse, LoseRequest, AnswerOddly,
              ServeWithout, hsmVars
<1>3. CASE ServeActivate(c) \/ ServeRevoke(c) \/ ServeDestroy(c)
  BY <1>3, NothingVanishes DEF Serve, ServeActivate, ServeRevoke, ServeDestroy,
     ServeCreate, SetObject, Waiting
<1> QED
  BY <1>1, <1>2, <1>3 DEF Serve

\* Activation is for the holder of the pair, and is answered, in one way or
\* another, or its answer lost.
LEMMA ActivatedForHolder ==
  ASSUME HInv, NEW c \in Callers, Serve(c), NEW p \in Pairs,
         object[Private(p)] # "Active", object'[Private(p)] = "Active"
  PROVE  Holds(c, p) /\ ActivationAnswered(c)'
<1> USE DEF HInv, IInv, TypeOK
<1>1. ServeActivate(c) /\ local[c].priv = Private(p)
  BY ActiveWasInactive, OnlyActivateActivates
<1>2. pc[c] = "activate" /\ Reply(c, NoPair)
  BY <1>1 DEF ServeActivate, Waiting
<1>3. local[c].via = "generate" /\ local[c].priv = Private(PairOf(local[c].pub))
  BY <1>2 DEF CallerInv, Generates, Activating
<1>4. Holds(c, p)
  BY <1>1, <1>2, <1>3 DEF Holds, Activating, Private
<1>5. pc' = pc /\ resp'[c].status \in {"Ok", "NetError", "Odd"}
  BY <1>2 DEF Reply, ReplyStatuses, HInv, IInv, TypeOK
<1> QED
  BY <1>2, <1>4, <1>5 DEF ActivationAnswered

LEMMA AnswerOwns ==
  ASSUME FInv, NEW c \in Callers, Serve(c), ~ServeCreate(c)
  PROVE  Owned' /\ \A d \in Callers : ActiveWhenAnswered(d)'
<1> USE DEF FInv, HInv, IInv, TypeOK
<1>1. UNCHANGED <<pc, made>> /\ resp[c] = Pending
  BY DEF Serve, ServeQuery, ServeGet, ServeActivate, ServeRevoke, ServeDestroy, ServeSign,
         Refuse, LoseRequest, AnswerOddly, Reply, ServeWithout, Waiting
<1>2. Keeps(c) /\ Others(c)
  BY AnswerKeeps DEF Keeps
<1>3. \A d \in Callers, p \in Pairs : Holds(d, p)' => Holds(d, p)
  BY <1>2, OthersHold DEF Keeps
<1>4. Owned'
  BY <1>1, <1>3, NothingVanishes DEF Owned
<1>5. ASSUME NEW d \in Callers, NEW p \in made[d], pc[d] # "idle",
             object'[Private(p)] = "Active"
      PROVE  ActivationAnswered(d)'
  <2>1. CASE object[Private(p)] = "Active"
    <3>1. ActivationAnswered(d)
      BY <1>5, <2>1 DEF ActiveWhenAnswered
    <3>2. d # c
      BY <1>1, <3>1 DEF ActivationAnswered, Pending
    <3> QED
      BY <1>2, <3>1, <3>2 DEF ActivationAnswered, Others
  <2>2. CASE object[Private(p)] # "Active"
    <3>1. p \in Pairs
      OBVIOUS
    <3>2. Holds(c, p) /\ ActivationAnswered(c)'
      BY <1>5, <2>2, <3>1, ActivatedForHolder
    <3> QED
      BY <3>1, <3>2 DEF Owned
  <2> QED
    BY <2>1, <2>2
<1> QED
  BY <1>1, <1>4, <1>5 DEF ActiveWhenAnswered

LEMMA CreateOwns ==
  ASSUME FInv, NEW c \in Callers, ServeCreate(c)
  PROVE  Owned' /\ \A d \in Callers : ActiveWhenAnswered(d)'
<1> USE DEF FInv, HInv, IInv, TypeOK
<1>1. PICK p \in Pairs : /\ CreateKeyPair(p, Template(c))
                         /\ Reply(c, p)
                         /\ made' = [made EXCEPT ![c] = @ \cup {p}]
  BY DEF ServeCreate
<1>2. /\ resp'[c].status = "Ok" => resp'[c].pair = p
      /\ \A d \in Callers \ {c} : resp'[d] = resp[d]
      /\ UNCHANGED <<pc, conn, local, ret, appVars, calls>>
  BY <1>1, ReplyEffect
<1>3. pc[c] \in {"create", "recreate"} /\ object[Private(p)] = "Absent"
  BY <1>1 DEF ServeCreate, Waiting, CreateKeyPair
<1>4. /\ object'[Private(p)] = "PreActive"
      /\ \A q \in Pairs \ {p} : object'[Private(q)] = object[Private(q)]
  BY <1>1, PairIds DEF CreateKeyPair, Private
<1>5. made'[c] = made[c] \cup {p} /\ \A d \in Callers \ {c} : made'[d] = made[d]
  BY <1>1
<1>6. \A d \in Callers : made[d] \subseteq Pairs /\ p \notin made[d]
  BY <1>3 DEF Owned
<1>7. \A q \in Pairs : Holds(c, q)' => q = p
  BY <1>2, <1>3 DEF Holds, ReadingKey, Activating
<1>8. \A d \in Callers \ {c}, q \in Pairs : Holds(d, q)' => Holds(d, q)
  BY <1>2 DEF Holds
<1>9. Owned'
  BY <1>4, <1>5, <1>6, <1>7, <1>8 DEF Owned
<1>10. \A d \in Callers : ActiveWhenAnswered(d)'
  BY <1>2, <1>3, <1>4, <1>5, <1>6 DEF ActiveWhenAnswered, ActivationAnswered
<1> QED
  BY <1>9, <1>10

-----------------------------------------------------------------------------
LEMMA FailureInit == Init => FInv
<1> SUFFICES ASSUME Init
             PROVE  FInv
  OBVIOUS
<1>1. \A c \in Callers : pc[c] = "idle" /\ made[c] = {}
  BY DEF Init
<1>2. \A c \in Callers, p \in Pairs : ~Holds(c, p)
  BY <1>1 DEF Holds, ReadingKey, Activating
<1> QED
  BY <1>1, <1>2, HoldersInit DEF FInv, Owned, ActiveWhenAnswered

LEMMA FailureNext == FInv /\ [Next \/ Finished]_vars => FInv'
<1> SUFFICES ASSUME FInv, [Next \/ Finished]_vars
             PROVE  FInv'
  OBVIOUS
<1>1. HInv'
  BY HoldersNext DEF FInv
<1>2. CASE Next
  <2>1. PICK c \in Callers : Start(c) \/ Continue(c) \/ Serve(c)
    BY <1>2 DEF Next
  <2> QED
    BY <1>1, <2>1, CallerOwns, AnswerOwns, CreateOwns DEF FInv
<1>3. CASE UNCHANGED vars
  BY <1>1, <1>3 DEF vars, clientVars, hsmVars, FInv, Owned, Holds, ActiveWhenAnswered,
                    ActivationAnswered
<1> QED
  BY <1>2, <1>3 DEF Finished

\* A call that fails and leaves an active key at the server could not read the
\* answer to its activation: it was lost, or held a payload of another type
\* (src/lib.rs, lines 321-343).  This is so whatever else fails and whatever
\* other callers do.
THEOREM FailureIsInactive == Spec => FailureLeavesNothingActive
<1> DEFINE Leaves(c) == /\ pc[c] # "idle" /\ pc'[c] = "idle" /\ ret'[c] # "Ok"
                        /\ \E p \in made[c] : object[Private(p)] = "Active"
           Lost(c) == pc[c] = "activate" /\ resp[c].status \in {"NetError", "Odd"}
           Step == \A c \in Callers : Leaves(c) => Lost(c)
<1>1. FInv /\ [Next \/ Finished]_vars => [Step]_vars
  <2> SUFFICES ASSUME FInv, Next \/ Finished, NEW c \in Callers, Leaves(c)
               PROVE  Lost(c)
    OBVIOUS
  <2> USE DEF FInv
  <2>1. PICK d \in Callers : Start(d) \/ Continue(d) \/ Serve(d)
    BY DEF Next, Finished, vars, clientVars
  <2>2. ASSUME Serve(d)
        PROVE  UNCHANGED pc
    BY <2>2 DEF Serve, ServeQuery, ServeCreate, ServeGet, ServeActivate, ServeRevoke,
                ServeDestroy, ServeSign, Refuse, LoseRequest, AnswerOddly, Reply, ServeWithout
  <2>3. (Start(d) \/ Continue(d)) /\ Others(d)
    BY <2>1, <2>2, CallerKeeps DEF Keeps
  <2>4. c = d /\ Continue(c)
    BY <2>3, StartMakesNothing DEF Others
  <2>5. ActivationAnswered(c)
    BY DEF ActiveWhenAnswered
  <2> QED
    BY <2>4, <2>5, ContinueMakesNothing DEF ActivationAnswered
<1>2. FInv /\ [Next \/ Finished]_vars => FInv'
  BY FailureNext
<1>3. Spec => [][Step]_vars
  <2> HIDE DEF Step
  <2> QED
    BY <1>1, <1>2, FailureInit, PTL DEF Spec
<1> QED
  BY <1>3 DEF FailureLeavesNothingActive

-----------------------------------------------------------------------------
(* What a call that does not generate starts from, if the application has  *)
(* no ids but those of KeyPairs it was given.                              *)

\* A KeyPair that is returned without being generated is what the call asked for.
LEMMA FetchedFrom ==
  ASSUME HInv, NEW c \in Callers, KeyFetched(c), NEW k \in keypairs' \ keypairs
  PROVE  /\ pc[c] = "get_key" /\ local[c].via # "generate"
         /\ k.pub = local[c].pub /\ k.priv = local[c].priv /\ k.alg = local[c].alg
<1> USE DEF HInv, IInv, TypeOK
<1>1. pc[c] = "get_key" /\ local[c].via # "generate" /\ k = KeyPairOf(Located(c))
  BY DEF KeyFetched, Granted, Release, appVars
<1>2. local[c] \in Locals /\ resp[c].pair \in Pairs \cup {NoPair}
  BY DEF Replies
<1>3. /\ Located(c).pub = local[c].pub /\ Located(c).priv = local[c].priv
      /\ Located(c).alg = local[c].alg
  BY <1>2, LocalWithKey DEF Located
<1>4. k.pub = local[c].pub /\ k.priv = local[c].priv /\ k.alg = local[c].alg
  BY <1>1, <1>3 DEF KeyPairOf
<1> QED
  BY <1>1, <1>4

\* A call that is about to read a public key, and was not before, was made by
\* from_urls() or is that of a generate().
LEMMA RestoredFrom ==
  ASSUME HInv, "from_metadata" \notin Operations, NEW c \in Callers,
         Start(c) \/ Continue(c), pc'[c] \in ReadingKey, local'[c].via # "generate"
  PROVE  \/ pc[c] \in ReadingKey /\ local'[c] = local[c]
         \/ \E j, k \in keypairs : /\ j.alg = k.alg /\ local'[c].alg = j.alg
                                   /\ local'[c].priv = j.priv /\ local'[c].pub = k.pub
<1> USE DEF HInv, IInv, TypeOK, ReadingKey
<1>1. CASE FromUrls(c)
  <2> DEFINE l(j, k) == Import("from_urls", j.alg, j.flags, j.priv, k.pub)
  <2>1. CASE UNCHANGED <<pc, local>>
    BY <2>1
  <2>2. CASE ~UNCHANGED <<pc, local>>
    <3>1. PICK j, k \in keypairs : j.alg = k.alg /\ Enter(c, "meta_connect", l(j, k))
      BY <1>1, <2>2 DEF FromUrls
    <3>2. /\ j.alg \in SecurityAlgorithms /\ j.flags \in Nat /\ j.priv \in Ids
          /\ k.pub \in Ids /\ "from_urls" \in Vias
      BY DEF KeyPairs, Vias
    <3>3. l(j, k).alg = j.alg /\ l(j, k).priv = j.priv /\ l(j, k).pub = k.pub
      BY <3>2, ImportType
    <3> HIDE DEF l
    <3>4. local'[c] = l(j, k)
      BY <3>1 DEF Enter
    <3> QED
      BY <3>1, <3>3, <3>4
  <2> QED
    BY <2>1, <2>2
<1>2. CASE Start(c) /\ ~FromUrls(c)
  <2>1. CASE SignUnsupported(c)
    BY <2>1 DEF SignUnsupported
  <2>2. CASE Generate(c) \/ DestroyKey(c) \/ SignRaw(c)
    BY <2>2 DEF Generate, DestroyKey, SignRaw, Enter
  <2> QED
    BY <1>2, <2>1, <2>2 DEF Start, FromMetadata
<1>3. CASE Created(c)
  <2>1. /\ resp[c].pair \in Pairs /\ local[c].via = "generate" /\ local[c] \in Locals
        /\ Private(resp[c].pair) \in Ids /\ Public(resp[c].pair) \in Ids
    BY <1>3, PairIds DEF Created, Granted, CallerInv, Generates, Asking, Ids
  <2>2. WithIds(local[c], Private(resp[c].pair), Public(resp[c].pair)).via = "generate"
    BY <2>1, LocalWithIds
  <2>3. local'[c] = WithIds(local[c], Private(resp[c].pair), Public(resp[c].pair))
    BY <1>3 DEF Created, Release
  <2> QED
    BY <2>2, <2>3
<1>4. CASE Connect(c, "meta_connect", "get_key")
  <2>1. pc[c] \in ReadingKey /\ UNCHANGED local
    BY <1>4 DEF Connect
  <2> QED
    BY <2>1
<1>5. CASE /\ Continue(c)
           /\ ~Created(c) /\ ~Connect(c, "meta_connect", "get_key")
  <2> USE DEF Return
  <2>1. CASE \/ ConnectFails(c) \/ GenerateRejectsLength(c) \/ SignFails(c) \/ SignPanics(c)
             \/ Bails(c, "query") \/ Bails(c, "get_key") \/ Bails(c, "activate")
             \/ Bails(c, "revoke") \/ Bails(c, "destroy")
             \/ Activated(c) \/ KeyDestroyed(c) \/ Signed(c)
    BY <2>1 DEF ConnectFails, GenerateRejectsLength, SignFails, SignPanics, Bails,
                Activated, KeyDestroyed, Signed
  <2>2. CASE \/ GenerateQueries(c) \/ GenerateCreates(c) \/ Connect(c, "act_connect", "activate")
             \/ Connect(c, "des_connect", "revoke") \/ Connect(c, "sign_connect", "sign")
    BY <2>2 DEF GenerateQueries, GenerateCreates, Connect
  <2>3. CASE Queried(c) \/ CreateFails(c) \/ Revoked(c) \/ KeyFetched(c)
    BY <2>3 DEF Queried, CreateFails, Revoked, KeyFetched, Proceed, Release
  <2> QED
    BY <1>5, <2>1, <2>2, <2>3 DEF Continue
<1> QED
  BY <1>1, <1>2, <1>3, <1>4, <1>5
-----------------------------------------------------------------------------
(* A server that works: it grants what it can grant and has room for the   *)
(* pairs that are asked for, nothing gets lost, nobody destroys the keys   *)
(* of others, and keys on P-256 come in the one format that is read.       *)

WorkingServer ==
  /\ Faults = {}
  /\ "from_metadata" \notin Operations
  /\ \A r \in Params : r.alg = "ECDSAP256SHA256" => \A s \in Servers : s.ecFormat = "X509"
  /\ IsFiniteSet(Pairs) => Cardinality(Pairs) >= MaxCalls

\* Only the ids of returned KeyPairs are used for anything but generate().
KnownId(id) == id \in KeyIds /\ Given(PairOf(id))
KnownIds ==
  /\ \A k \in keypairs : KnownId(k.priv) /\ KnownId(k.pub)
  /\ \A c \in Callers :
       /\ pc[c] \in Destroying => KnownId(local[c].priv)
       /\ pc[c] \in ReadingKey /\ local[c].via # "generate" =>
            KnownId(local[c].priv) /\ KnownId(local[c].pub)

\* A pair that is held is as it was created, or activated for its holder.
FreshHeld ==
  \A c \in Callers, p \in Pairs : Holds(c, p) =>
    /\ object[Public(p)] = "PreActive"
    /\ object[Private(p)] = "PreActive" \/ (pc[c] = "activate" /\ resp[c].status = "Ok")

\* The only refusal a call of generate() meets is that of a template, and one
\* of the two templates is accepted.
Unhindered(c) ==
  /\ resp[c].status \in {"Pending", "Ok", "ServerError"}
  /\ pc[c] \in Generating /\ local[c].via = "generate" /\ resp[c].status = "ServerError" =>
       pc[c] = "create" /\ ~AcceptsTemplate(Template(c), FALSE)
  /\ pc[c] \in {"create", "recreate"} /\ local[c].alg \in EdAlgorithms => server.edExtension
  /\ pc[c] = "recreate" => AcceptsTemplate(Template(c), TRUE)

\* Every pair that exists or is still to be created is that of one call.
Used == {p \in Pairs : object[Private(p)] # "Absent"}
Wanting == {c \in Callers : pc[c] \in Asking /\ made[c] = {}}
RoomLeft ==
  /\ IsFiniteSet(Used) /\ IsFiniteSet(Wanting)
  /\ Cardinality(Used) + Cardinality(Wanting) <= calls

\* Only a supported request gets as far as a template.
Attempting == {"create", "recreate"} \cup ReadingKey \cup Activating
Permitted(c) ==
  /\ pc[c] = "query" => local[c].alg \in EdAlgorithms
  /\ pc[c] \in Attempting /\ local[c].via = "generate" => SupportedRequest(local[c])

WInv ==
  /\ HInv
  /\ KnownIds
  /\ FreshHeld
  /\ \A c \in Callers : Unhindered(c) /\ Permitted(c)
  /\ RoomLeft

LEMMA KindOfAlgorithm ==
  ASSUME NEW a \in SupportedAlgorithms
  PROVE  /\ a \in RsaAlgorithms => AlgInfo(a).kind = "RSA"
         /\ a = "ECDSAP256SHA256" => /\ AlgInfo(a).kind = "P-256" /\ AlgInfo(a).curve = "P-256"
                                     /\ AlgInfo(a).fixedLen = 256
         /\ a = "ECDSAP384SHA384" => /\ AlgInfo(a).kind = "P-384" /\ AlgInfo(a).curve = "P-384"
                                     /\ AlgInfo(a).fixedLen = 384
         /\ a = "ED25519" => AlgInfo(a).kind = "Ed25519"
         /\ a = "ED448" => AlgInfo(a).kind = "Ed448"
<1> DEFINE item == CHOOSE item \in ALG_MAPPINGS : item[1] = a
<1>1. \E i \in ALG_MAPPINGS : i[1] = a
  BY DEF SupportedAlgorithms
<1>2. item \in ALG_MAPPINGS /\ item[1] = a
  BY <1>1
<1> HIDE DEF item
<1>3. \A i \in ALG_MAPPINGS :
        /\ i[1] \in RsaAlgorithms => i[2].kind = "RSA"
        /\ i[1] = "ECDSAP256SHA256" =>
             i[2].kind = "P-256" /\ i[2].curve = "P-256" /\ i[2].fixedLen = 256
        /\ i[1] = "ECDSAP384SHA384" =>
             i[2].kind = "P-384" /\ i[2].curve = "P-384" /\ i[2].fixedLen = 384
        /\ i[1] = "ED25519" => i[2].kind = "Ed25519"
        /\ i[1] = "ED448" => i[2].kind = "Ed448"
  BY DEF ALG_MAPPINGS, RsaInfo, EcdsaInfo, EdInfo, RsaAlgorithms
<1>4. AlgInfo(a) = item[2]
  BY DEF AlgInfo, item
<1> QED
  BY <1>2, <1>3, <1>4

\* The table holds the lengths that RFC 5702 permits.
LEMMA LengthLimits ==
  ASSUME NEW a \in SupportedAlgorithms, NEW bits \in Nat, IsGenerateParams(a, bits)
  PROVE  LengthPermitted(a, bits) <=> SupportedLength(a, bits)
<1> DEFINE item == CHOOSE item \in ALG_MAPPINGS : item[1] = a
<1>1. \E i \in ALG_MAPPINGS : i[1] = a
  BY DEF SupportedAlgorithms
<1>2. item \in ALG_MAPPINGS /\ item[1] = a
  BY <1>1
<1> HIDE DEF item
<1>3. \A i \in ALG_MAPPINGS :
        /\ i[1] = "RSASHA256" =>
             i[2].minLen = 512 /\ i[2].maxLen = 4096 /\ i[2].fixedLen = 0
        /\ i[1] = "RSASHA512" =>
             i[2].minLen = 1024 /\ i[2].maxLen = 4096 /\ i[2].fixedLen = 0
        /\ i[1] \notin {"RSASHA256", "RSASHA512"} => i[2].maxLen = 0
  BY DEF ALG_MAPPINGS, RsaInfo, EcdsaInfo, EdInfo, NoLength
<1>4. AlgInfo(a) = item[2]
  BY DEF AlgInfo, item
<1>5. /\ a = "RSASHA256" =>
           AlgInfo(a).minLen = 512 /\ AlgInfo(a).maxLen = 4096 /\ AlgInfo(a).fixedLen = 0
      /\ a = "RSASHA512" =>
           AlgInfo(a).minLen = 1024 /\ AlgInfo(a).maxLen = 4096 /\ AlgInfo(a).fixedLen = 0
      /\ a \notin {"RSASHA256", "RSASHA512"} => AlgInfo(a).maxLen = 0
  BY <1>2, <1>3, <1>4
<1>6. KeyLength(a, bits) = IF bits # 0 THEN bits ELSE AlgInfo(a).fixedLen
  BY DEF KeyLength, NoLength
<1>7. LengthPermitted(a, bits) <=>
        (AlgInfo(a).maxLen # 0 => KeyLength(a, bits) \in AlgInfo(a).minLen .. AlgInfo(a).maxLen)
  BY DEF LengthPermitted, NoLength
<1>8. CASE a = "RSASHA256"
  <2> DEFINE right == bits \in 512 .. 4096
             min == AlgInfo(a).minLen
             max == AlgInfo(a).maxLen
             len == KeyLength(a, bits)
  <2>1. AlgInfo(a).minLen = 512 /\ AlgInfo(a).maxLen = 4096 /\ AlgInfo(a).maxLen # 0
    BY <1>5, <1>8
  <2>2. KeyLength(a, bits) = bits
    BY <1>5, <1>6, <1>8
  <2>3. SupportedLength(a, bits) <=> right
    BY <1>8 DEF SupportedLength
  <2>4. min = 512 /\ max = 4096 /\ max # 0 /\ len = bits
    BY <2>1, <2>2
  <2>5. LengthPermitted(a, bits) <=> (max # 0 => len \in min .. max)
    BY <1>7
  <2> HIDE DEF min, max, len
  <2>6. (max # 0 => len \in min .. max) <=> right
    BY <2>4, SMT
  <2> HIDE DEF right
  <2>7. QED
    BY <2>3, <2>5, <2>6, Zenon
<1>9. CASE a = "RSASHA512"
  <2> DEFINE right == bits \in 1024 .. 4096
             min == AlgInfo(a).minLen
             max == AlgInfo(a).maxLen
             len == KeyLength(a, bits)
  <2>1. AlgInfo(a).minLen = 1024 /\ AlgInfo(a).maxLen = 4096 /\ AlgInfo(a).maxLen # 0
    BY <1>5, <1>9
  <2>2. KeyLength(a, bits) = bits
    BY <1>5, <1>6, <1>9
  <2>3. SupportedLength(a, bits) <=> right
    BY <1>9 DEF SupportedLength
  <2>4. min = 1024 /\ max = 4096 /\ max # 0 /\ len = bits
    BY <2>1, <2>2
  <2>5. LengthPermitted(a, bits) <=> (max # 0 => len \in min .. max)
    BY <1>7
  <2> HIDE DEF min, max, len
  <2>6. (max # 0 => len \in min .. max) <=> right
    BY <2>4, SMT
  <2> HIDE DEF right
  <2>7. QED
    BY <2>3, <2>5, <2>6, Zenon
<1>10. CASE a \notin {"RSASHA256", "RSASHA512"}
  <2>1. SupportedLength(a, bits)
    BY <1>10 DEF SupportedLength
  <2>2. AlgInfo(a).maxLen = 0
    BY <1>5, <1>10
  <2>3. LengthPermitted(a, bits)
    BY <1>7, <2>2
  <2>4. QED
    BY <2>1, <2>3
<1> QED
  BY <1>8, <1>9, <1>10

LEMMA EdLength ==
  ASSUME NEW a \in EdAlgorithms, NEW bits
  PROVE  SupportedLength(a, bits)
<1>1. ~(a = "RSASHA256") /\ ~(a = "RSASHA512")
  BY DEF EdAlgorithms
<1> QED
  BY <1>1, SMT DEF SupportedLength

LEMMA Templates ==
  ASSUME NEW k, NEW named
  PROVE  /\ k \in {"P-256", "P-384"} /\ server.curve = "required" =>
              (AcceptsTemplate(k, named) <=> named)
         /\ k \in {"P-256", "P-384"} /\ server.curve = "refused" =>
              (AcceptsTemplate(k, named) <=> ~named)
         /\ server.curve \notin {"required", "refused"} /\ k \notin {"Ed25519", "Ed448"} =>
              AcceptsTemplate(k, named)
         /\ k \in {"Ed25519", "Ed448"} => (AcceptsTemplate(k, named) <=> server.edExtension)
         /\ k = "RSA" => AcceptsTemplate(k, named)
<1> DEFINE ec == k \in {"P-256", "P-384"}
           ed == k \in {"Ed25519", "Ed448"}
<1>1. ~(ec /\ ed) /\ (k = "RSA" => ~ec /\ ~ed)
  OBVIOUS
<1>2. ~(server.curve = "required" /\ server.curve = "refused")
  OBVIOUS
<1>3. AcceptsTemplate(k, named) <=>
        CASE ec /\ server.curve = "required" -> named
          [] ec /\ server.curve = "refused" -> ~named
          [] ed -> server.edExtension
          [] OTHER -> TRUE
  BY DEF AcceptsTemplate
<1> HIDE DEF ec, ed
<1>4. ec /\ server.curve = "required" => (AcceptsTemplate(k, named) <=> named)
  BY <1>1, <1>2, <1>3, Zenon
<1>5. ec /\ server.curve = "refused" => (AcceptsTemplate(k, named) <=> ~named)
  BY <1>1, <1>2, <1>3, Zenon
<1>6. ed => (AcceptsTemplate(k, named) <=> server.edExtension)
  BY <1>1, <1>3, Zenon
<1>7. /\ ~ed
      /\ ~(ec /\ server.curve = "required") /\ ~(ec /\ server.curve = "refused")
      => AcceptsTemplate(k, named)
  BY <1>3, Zenon
<1> QED
  BY <1>1, <1>4, <1>5, <1>6, <1>7 DEF ec, ed

LEMMA NamingTheCurveHelps ==
  ASSUME NEW a \in SupportedAlgorithms, a \in EdAlgorithms => server.edExtension,
         ~AcceptsTemplate(AlgInfo(a).kind, FALSE)
  PROVE  AlgInfo(a).curve # None /\ AcceptsTemplate(AlgInfo(a).kind, TRUE)
<1> DEFINE k == AlgInfo(a).kind
<1>0. a \in RsaAlgorithms \cup EcdsaAlgorithms \cup EdAlgorithms
  BY DEF SupportedAlgorithms, ALG_MAPPINGS, RsaAlgorithms, EcdsaAlgorithms, EdAlgorithms
<1>1. k \notin {"Ed25519", "Ed448", "RSA"}
  <2>1. a \notin EdAlgorithms /\ a \notin RsaAlgorithms
    <3>1. /\ k = "RSA" => AcceptsTemplate(k, FALSE)
          /\ k \in {"Ed25519", "Ed448"} => (AcceptsTemplate(k, FALSE) <=> server.edExtension)
      BY Templates, Zenon
    <3>2. a \in RsaAlgorithms => k = "RSA"
      BY KindOfAlgorithm
    <3>3. a \in EdAlgorithms => k \in {"Ed25519", "Ed448"}
      BY KindOfAlgorithm DEF EdAlgorithms
    <3> HIDE DEF k
    <3>4. QED
      BY <3>1, <3>2, <3>3, Zenon DEF k
  <2> QED
    BY <1>0, <2>1, KindOfAlgorithm DEF EcdsaAlgorithms
<1>2. k \in {"P-256", "P-384"} /\ AlgInfo(a).curve = k
  BY <1>0, <1>1, KindOfAlgorithm DEF EdAlgorithms, EcdsaAlgorithms
<1>3. server.curve = "required"
  BY <1>1, <1>2, Templates
<1> QED
  BY <1>2, <1>3, Templates DEF None

\* The object of the public half of a pair, for each kind of pair.
LEMMA PublicObject ==
  ASSUME NEW p \in Pairs, server.rsa \in {"PKCS1", "X509", "Transparent"}
  PROVE  LET o == KeyObject(Public(p))
         IN /\ kind[p] = "RSA" /\ server.rsa = "Transparent" =>
                 /\ o.object = "PublicKey" /\ o.material = "TransparentRSAPublicKey"
                 /\ o.len = 259
            /\ kind[p] = "RSA" /\ server.rsa = "PKCS1" =>
                 /\ o.object = "PublicKey" /\ o.material = "Bytes" /\ o.format = "PKCS1"
                 /\ o.syntax = "RSAPublicKey" /\ o.len = 259
            /\ kind[p] = "RSA" /\ server.rsa = "X509" =>
                 /\ o.object = "PublicKey" /\ o.material = "Bytes" /\ o.format = "X509"
                 /\ o.syntax = "SubjectPublicKeyInfo" /\ o.kind = "RSA" /\ o.whole = TRUE
                 /\ o.len = 259
            /\ kind[p] \in {"P-256", "P-384"} =>
                 /\ o.object = "PublicKey" /\ o.material = "Bytes"
                 /\ o.format = server.ecFormat
                 /\ o.syntax = "SubjectPublicKeyInfo" /\ o.kind = kind[p] /\ o.whole = TRUE
                 /\ o.flag = Uncompressed /\ o.len = PointLength(kind[p])
            /\ kind[p] \in {"Ed25519", "Ed448"} =>
                 /\ o.object = "PublicKey" /\ o.material = "Bytes" /\ o.format = "Raw"
                 /\ o.len \in {32, 57}
<1> DEFINE bytes == [object |-> "PublicKey", material |-> "Bytes", kind |-> kind[p],
                     format |-> "Raw", syntax |-> "Octets", whole |-> TRUE, flag |-> 0,
                     len |-> 0]
           spki(format, flag, len) ==
             [bytes EXCEPT !.format = format, !.syntax = "SubjectPublicKeyInfo",
                           !.flag = flag, !.len = len]
           transparent == [bytes EXCEPT !.material = "TransparentRSAPublicKey",
                                        !.format = "OtherFormat", !.len = 259]
           pkcs1 == [bytes EXCEPT !.format = "PKCS1", !.syntax = "RSAPublicKey", !.len = 259]
           ed(len) == [bytes EXCEPT !.len = len]
           other == [bytes EXCEPT !.object = "PrivateKey"]
           o == KeyObject(Public(p))
<1>1. Public(p)[1] = "public" /\ Public(p)[2] = p
  BY DEF Public
<1>2. o = CASE Public(p)[1] = "private" -> other
            [] Public(p)[1] = "public" /\ kind[p] = "RSA" /\ server.rsa = "Transparent" -> transparent
            [] Public(p)[1] = "public" /\ kind[p] = "RSA" /\ server.rsa = "PKCS1" -> pkcs1
            [] Public(p)[1] = "public" /\ kind[p] = "RSA" /\ server.rsa = "X509" -> spki("X509", 0, 259)
            [] Public(p)[1] = "public" /\ kind[p] \in {"P-256", "P-384"} ->
                 spki(server.ecFormat, Uncompressed, PointLength(kind[p]))
            [] Public(p)[1] = "public" /\ kind[p] = "Ed25519" -> ed(32)
            [] Public(p)[1] = "public" /\ kind[p] = "Ed448" -> ed(57)
  BY <1>1, ZenonT(40) DEF KeyObject
<1>4. \A f, g, l : /\ spki(f, g, l).object = "PublicKey" /\ spki(f, g, l).material = "Bytes"
                   /\ spki(f, g, l).format = f /\ spki(f, g, l).syntax = "SubjectPublicKeyInfo"
                   /\ spki(f, g, l).kind = kind[p] /\ spki(f, g, l).whole = TRUE
                   /\ spki(f, g, l).flag = g /\ spki(f, g, l).len = l
  BY ZenonT(40)
<1>5. /\ transparent.object = "PublicKey" /\ transparent.material = "TransparentRSAPublicKey"
      /\ transparent.len = 259
  BY Zenon
<1>6. /\ pkcs1.object = "PublicKey" /\ pkcs1.material = "Bytes" /\ pkcs1.format = "PKCS1"
      /\ pkcs1.syntax = "RSAPublicKey" /\ pkcs1.len = 259
  BY Zenon
<1>7. \A l : /\ ed(l).object = "PublicKey" /\ ed(l).material = "Bytes" /\ ed(l).format = "Raw"
             /\ ed(l).len = l
  BY Zenon
<1> HIDE DEF o, bytes, spki, transparent, pkcs1, ed, other
<1>8. /\ kind[p] = "RSA" /\ server.rsa = "Transparent" => o = transparent
      /\ kind[p] = "RSA" /\ server.rsa = "PKCS1" => o = pkcs1
      /\ kind[p] = "RSA" /\ server.rsa = "X509" => o = spki("X509", 0, 259)
      /\ kind[p] \in {"P-256", "P-384"} =>
           o = spki(server.ecFormat, Uncompressed, PointLength(kind[p]))
      /\ kind[p] = "Ed25519" => o = ed(32)
      /\ kind[p] = "Ed448" => o = ed(57)
  BY <1>1, <1>2
<1> QED
  BY <1>4, <1>5, <1>6, <1>7, <1>8 DEF o

\* What the server returns for a key of the kind an algorithm needs is read as
\* a key of that algorithm, P-256 in other formats than X.509 apart.
LEMMA Readable ==
  ASSUME HsmTypeOK, NEW p \in Pairs, NEW a \in SupportedAlgorithms, kind[p] = AlgInfo(a).kind,
         a = "ECDSAP256SHA256" => server.ecFormat = "X509"
  PROVE  WithDnskey(FromObject(a, KeyObject(Public(p)))).res = "Ok"
<1> DEFINE o == KeyObject(Public(p))
           from == FromObject(a, o)
<1>1. server.rsa \in {"PKCS1", "X509", "Transparent"} /\ server.ecFormat \in {"X509", "Raw"}
  BY ServersAssumption DEF HsmTypeOK, Profiles
<1>2. \A n \in 0 .. MaxKeyOctets : from = Key(n) => WithDnskey(from).res = "Ok"
  <2>1. \A n \in 0 .. MaxKeyOctets : ~(n > MaxKeyOctets)
    <3>1. MaxKeyOctets \in Nat
      BY DEF MaxKeyOctets
    <3>2. QED
      BY <3>1
  <2>2. \A n : Key(n).res = "Ok" /\ Key(n).len = n
    BY DEF Key
  <2> HIDE DEF from
  <2> QED
    BY <2>1, <2>2 DEF WithDnskey
<1>3. CASE a \in RsaAlgorithms
  <2>1. kind[p] = "RSA"
    BY <1>3, KindOfAlgorithm
  <2>0. a \notin EdAlgorithms /\ a # "ECDSAP256SHA256" /\ a # "ECDSAP384SHA384"
    BY <1>3 DEF RsaAlgorithms, EdAlgorithms
  <2>2. RsaEncodedLength(o) = 260 /\ 260 \in 0 .. MaxKeyOctets
    <3>1. o.len = 259
      BY <1>1, <2>1, PublicObject, ZenonT(30)
    <3> HIDE DEF o, from
    <3>2. 260 \in 0 .. MaxKeyOctets
      BY SMT DEF MaxKeyOctets
    <3> QED
      BY <3>1, <3>2 DEF RsaEncodedLength
  <2>3. from = Key(RsaEncodedLength(o))
    <3>1. CASE server.rsa = "Transparent"
      <4>1. o.object = "PublicKey" /\ o.material = "TransparentRSAPublicKey"
        BY <1>1, <2>1, <3>1, PublicObject
      <4> HIDE DEF o
      <4> QED
        BY <4>1, Zenon DEF FromObject
    <3>2. CASE server.rsa = "PKCS1"
      <4>1. /\ o.object = "PublicKey" /\ o.material = "Bytes" /\ o.format = "PKCS1"
            /\ o.syntax = "RSAPublicKey"
        BY <1>1, <2>1, <3>2, PublicObject
      <4> HIDE DEF o
      <4>2. from = FromBytes(a, o)
        BY <4>1, Zenon DEF FromObject
      <4>3. FromBytes(a, o) = RsaParsePkcs1(a, o)
        BY <1>3, <4>1, Zenon DEF FromBytes
      <4> QED
        BY <1>3, <4>1, <4>2, <4>3 DEF RsaParsePkcs1
    <3>3. CASE server.rsa = "X509"
      <4>1. /\ o.object = "PublicKey" /\ o.material = "Bytes" /\ o.format = "X509"
            /\ o.syntax = "SubjectPublicKeyInfo" /\ o.kind = "RSA" /\ o.whole = TRUE
        BY <1>1, <2>1, <3>3, PublicObject
      <4> HIDE DEF o
      <4>2. from = FromBytes(a, o)
        BY <4>1, Zenon DEF FromObject
      <4>3. o.format # "PKCS1" /\ o.format # "Raw"
        BY <4>1
      <4>4. FromBytes(a, o) = RsaParseX509(a, o)
        BY <1>3, <2>0, <4>1, <4>3, Zenon DEF FromBytes
      <4> QED
        BY <1>3, <4>1, <4>2, <4>4 DEF RsaParseX509, AlgorithmOid
    <3> QED
      BY <1>1, <3>1, <3>2, <3>3
  <2> QED
    BY <1>2, <2>2, <2>3
<1>4. CASE a \in EcdsaAlgorithms
  <2>1. /\ kind[p] \in {"P-256", "P-384"} /\ AlgInfo(a).curve = kind[p]
        /\ PointLength(kind[p]) = 1 + ValueByteLen(a) + ValueByteLen(a)
        /\ PointLength(kind[p]) - 1 \in 0 .. MaxKeyOctets /\ PointLength(kind[p]) # 0
    BY <1>4, KindOfAlgorithm DEF EcdsaAlgorithms, PointLength, ValueByteLen, MaxKeyOctets
  <2>2. /\ o.object = "PublicKey" /\ o.material = "Bytes" /\ o.format = server.ecFormat
        /\ o.syntax = "SubjectPublicKeyInfo" /\ o.kind = kind[p] /\ o.whole = TRUE
        /\ o.flag = Uncompressed /\ o.len = PointLength(kind[p])
    BY <1>1, <2>1, PublicObject
  <2> HIDE DEF o
  <2>3. from = FromBytes(a, o)
    BY <2>2, Zenon DEF FromObject
  <2>4. /\ a \notin RsaAlgorithms /\ a \notin EdAlgorithms
        /\ a # "ECDSAP256SHA256" => a = "ECDSAP384SHA384"
        /\ a = "ECDSAP256SHA256" => o.format = "X509"
        /\ o.format \in {"Raw", "X509"}
    BY <1>1, <1>4, <2>2 DEF EcdsaAlgorithms, RsaAlgorithms, EdAlgorithms
  <2>5. FromBytes(a, o) = EcdsaParseX509(a, o)
    <3>1. CASE a = "ECDSAP256SHA256"
      <4>1. a # "ECDSAP384SHA384"
        BY <3>1
      <4> QED
        BY <2>4, <3>1, <4>1, Zenon DEF FromBytes
    <3>2. CASE a # "ECDSAP256SHA256"
      BY <2>4, <3>2, Zenon DEF FromBytes
    <3> QED
      BY <3>1, <3>2
  <2>6. AlgorithmOid(o.kind) = "id-ecPublicKey"
    BY <2>1, <2>2 DEF AlgorithmOid
  <2>7. EcdsaParseX509(a, o) = Key(PointLength(kind[p]) - 1)
    BY <1>4, <2>1, <2>2, <2>6 DEF EcdsaParseX509
  <2> QED
    BY <1>2, <2>1, <2>3, <2>5, <2>7 DEF o
<1>5. CASE a \in EdAlgorithms
  <2>1. kind[p] \in {"Ed25519", "Ed448"}
    BY <1>5, KindOfAlgorithm DEF EdAlgorithms
  <2>2. /\ o.object = "PublicKey" /\ o.material = "Bytes" /\ o.format = "Raw"
        /\ o.len \in {32, 57}
    BY <1>1, <2>1, PublicObject
  <2> HIDE DEF o
  <2>3. from = FromBytes(a, o)
    BY <2>2, Zenon DEF FromObject
  <2>4. a \notin RsaAlgorithms /\ a # "ECDSAP256SHA256" /\ a # "ECDSAP384SHA384"
    BY <1>5 DEF EdAlgorithms, RsaAlgorithms
  <2>5. FromBytes(a, o) = Key(o.len)
    BY <1>5, <2>2, <2>4, Zenon DEF FromBytes
  <2>6. \A n \in {32, 57} : n \in 0 .. MaxKeyOctets
    <3>1. MaxKeyOctets = 65531
      BY DEF MaxKeyOctets
    <3>2. 32 \in 0 .. MaxKeyOctets /\ 57 \in 0 .. MaxKeyOctets
      BY <3>1
    <3>3. QED
      BY <3>2, Zenon
  <2> QED
    BY <1>2, <2>2, <2>3, <2>5, <2>6 DEF o
<1>6. a \in RsaAlgorithms \cup EcdsaAlgorithms \cup EdAlgorithms
  BY DEF SupportedAlgorithms, ALG_MAPPINGS, RsaAlgorithms, EcdsaAlgorithms, EdAlgorithms
<1> QED
  BY <1>3, <1>4, <1>5, <1>6

-----------------------------------------------------------------------------
(* The steps of a caller of a server that works.                           *)

LEMMA KeyPairsGrow ==
  ASSUME NEW c \in Callers, Start(c) \/ Continue(c)
  PROVE  /\ keypairs \subseteq keypairs'
         /\ ~Activated(c) /\ ~KeyFetched(c) => UNCHANGED keypairs
<1>1. ~Activated(c) /\ ~KeyFetched(c) => UNCHANGED keypairs
  BY DEF Start, Generate, FromMetadata, FromUrls, DestroyKey, SignRaw, SignUnsupported,
         Enter, appVars, Continue, ConnectFails, GenerateQueries, GenerateCreates,
         GenerateRejectsLength, Bails, Queried, CreateFails, Created, Revoked, SignFails,
         SignPanics, Connect, Proceed, Release, KeyDestroyed, Signed
<1>2. Activated(c) \/ KeyFetched(c) => keypairs \subseteq keypairs'
  BY DEF Activated, KeyFetched, Release, appVars
<1> QED
  BY <1>1, <1>2

\* A call that is about to destroy a key, and was not before, was given one of
\* the ids of a KeyPair.
LEMMA DestroysFrom ==
  ASSUME HInv, "strangers" \notin Faults, NEW c \in Callers, Start(c) \/ Continue(c),
         pc'[c] \in Destroying
  PROVE  \/ pc[c] \in Destroying /\ local'[c] = local[c]
         \/ \E k \in keypairs : local'[c].priv \in {k.priv, k.pub}
<1> USE DEF HInv, IInv, TypeOK, Destroying, Return
<1>1. CASE DestroyKey(c)
  <2>1. PICK id \in Destroyable : Enter(c, "des_connect", WithIds(NoLocal, id, NoId))
    BY <1>1 DEF DestroyKey
  <2>2. id \in Ids /\ NoId \in Ids /\ \E k \in keypairs : id \in {k.priv, k.pub}
    BY <2>1 DEF Destroyable, Ids
  <2>3. WithIds(NoLocal, id, NoId).priv = id
    BY <2>2, NoLocalType, LocalWithIds
  <2>4. local'[c] = WithIds(NoLocal, id, NoId)
    BY <2>1 DEF Enter
  <2> QED
    BY <2>2, <2>3, <2>4
<1>2. CASE SignUnsupported(c)
  BY <1>2 DEF SignUnsupported
<1>3. CASE FromUrls(c)
  BY <1>3 DEF FromUrls, Enter
<1>4. CASE Generate(c) \/ FromMetadata(c) \/ SignRaw(c)
  BY <1>4 DEF Generate, FromMetadata, SignRaw, Enter
<1>5. CASE Continue(c)
  <2>1. CASE \/ ConnectFails(c) \/ GenerateRejectsLength(c) \/ SignFails(c) \/ SignPanics(c)
             \/ Bails(c, "query") \/ Bails(c, "get_key") \/ Bails(c, "activate")
             \/ Bails(c, "revoke") \/ Bails(c, "destroy")
             \/ Activated(c) \/ KeyDestroyed(c) \/ Signed(c)
    BY <2>1 DEF ConnectFails, GenerateRejectsLength, SignFails, SignPanics, Bails,
                Activated, KeyDestroyed, Signed
  <2>2. CASE \/ GenerateQueries(c) \/ GenerateCreates(c)
             \/ Connect(c, "meta_connect", "get_key") \/ Connect(c, "act_connect", "activate")
             \/ Connect(c, "des_connect", "revoke") \/ Connect(c, "sign_connect", "sign")
    BY <2>2 DEF GenerateQueries, GenerateCreates, Connect
  <2>3. CASE Queried(c) \/ CreateFails(c) \/ Created(c) \/ KeyFetched(c)
    BY <2>3 DEF Queried, CreateFails, Created, KeyFetched, Proceed, Release
  <2>4. CASE Revoked(c)
    BY <2>4 DEF Revoked, Granted, Proceed
  <2> QED
    BY <1>5, <2>1, <2>2, <2>3, <2>4 DEF Continue
<1> QED
  BY <1>1, <1>2, <1>3, <1>4, <1>5 DEF Start

LEMMA CallerKnows ==
  ASSUME WorkingServer, HInv, KnownIds, NEW c \in Callers, Start(c) \/ Continue(c)
  PROVE  KnownIds'
<1> USE DEF WorkingServer
<1>1. \A id : KnownId(id) => KnownId(id)'
  BY KeyPairsGrow DEF KnownId, Given, OfGenerate
<1>2. Others(c)
  BY CallerKeeps DEF Keeps
<1>3. ASSUME NEW k \in keypairs'
      PROVE  KnownId(k.priv)' /\ KnownId(k.pub)'
  <2>1. CASE k \in keypairs
    BY <1>1, <2>1 DEF KnownIds
  <2>2. CASE k \notin keypairs /\ Activated(c)
    <3>1. k = KeyPairOf(local[c]) /\ k \in OfGenerate'
      BY <2>2, ActivatedHolders DEF Activated
    <3>2. /\ local[c].key \in Pairs
          /\ local[c].priv = Private(local[c].key) /\ local[c].pub = Public(local[c].key)
      BY <2>2 DEF HInv, IInv, CallerInv, Activated, Granted, Generates, Activating
    <3>3. /\ k.key \in Pairs /\ k.priv = Private(k.key) /\ k.pub = Public(k.key)
      BY <3>1, <3>2 DEF KeyPairOf
    <3> QED
      BY <3>1, <3>3, PairIds DEF KnownId, Given
  <2>3. CASE k \notin keypairs /\ KeyFetched(c)
    BY <1>1, <2>3, FetchedFrom DEF KnownIds, ReadingKey
  <2> QED
    BY <2>1, <2>2, <2>3, KeyPairsGrow
<1>4. ASSUME NEW d \in Callers, pc'[d] \in Destroying
      PROVE  KnownId(local[d].priv)'
  BY <1>1, <1>2, <1>4, DestroysFrom DEF KnownIds, Others
<1>5. ASSUME NEW d \in Callers, pc'[d] \in ReadingKey, local'[d].via # "generate"
      PROVE  KnownId(local[d].priv)' /\ KnownId(local[d].pub)'
  BY <1>1, <1>2, <1>5, RestoredFrom DEF KnownIds, Others
<1> QED
  BY <1>3, <1>4, <1>5 DEF KnownIds, KnownId, Given, OfGenerate

LEMMA CallerKeepsFresh ==
  ASSUME HInv, FreshHeld, NEW c \in Callers, Start(c) \/ Continue(c)
  PROVE  FreshHeld'
<1>1. Keeps(c) /\ Others(c) /\ UNCHANGED object
  BY CallerKeeps DEF Keeps, hsmVars
<1>2. ASSUME NEW d \in Callers, NEW p \in Pairs, Holds(d, p)'
      PROVE  /\ object[Public(p)] = "PreActive"
             /\ \/ object[Private(p)] = "PreActive"
                \/ pc'[d] = "activate" /\ resp'[d].status = "Ok"
  <2>1. Holds(d, p)
    BY <1>1, <1>2, OthersHold DEF Keeps
  <2>2. CASE d # c
    BY <1>1, <2>1, <2>2 DEF FreshHeld, Others
  <2>3. CASE d = c
    <3>1. pc[c] # "idle" /\ pc'[c] # "idle"
      BY <1>2, <2>1, <2>3 DEF Holds, ReadingKey, Activating
    <3>2. pc[c] # "activate"
      BY <3>1, StartMakesNothing, ContinueMakesNothing
    <3> QED
      BY <2>1, <2>3, <3>2 DEF FreshHeld
  <2> QED
    BY <2>2, <2>3
<1> QED
  BY <1>1, <1>2 DEF FreshHeld

LEMMA CallerUnhindered ==
  ASSUME HInv, NEW c \in Callers, Unhindered(c), Start(c) \/ Continue(c)
  PROVE  Unhindered(c)'
<1> USE DEF HInv, IInv, TypeOK, Pending
<1>1. UNCHANGED server
  BY CallersLeaveServer DEF hsmVars
<1>2. resp[c].status = "Pending" \/ pc[c] \in RequestStates
  BY DEF CallerInv, HoldsOnlyForRequest
<1>3. ASSUME resp'[c].status = "Pending", pc'[c] \notin {"create", "recreate"}
      PROVE  Unhindered(c)'
  BY <1>3 DEF Unhindered
<1>4. CASE Start(c)
  <2>1. pc[c] = "idle" /\ resp'[c] = resp[c] /\ pc'[c] \notin {"create", "recreate"}
    BY <1>4 DEF Start, Generate, FromMetadata, FromUrls, DestroyKey, SignRaw,
                SignUnsupported, Enter
  <2> QED
    BY <1>2, <1>3, <2>1 DEF RequestStates
<1>5. CASE \/ ConnectFails(c) \/ GenerateRejectsLength(c) \/ SignFails(c) \/ SignPanics(c)
           \/ Bails(c, "query") \/ Bails(c, "get_key") \/ Bails(c, "activate")
           \/ Bails(c, "revoke") \/ Bails(c, "destroy")
           \/ Activated(c) \/ KeyDestroyed(c) \/ Signed(c)
  BY <1>3, <1>5 DEF ConnectFails, GenerateRejectsLength, SignFails, SignPanics, Bails,
                    Activated, KeyDestroyed, Signed, Return
<1>6. CASE Created(c) \/ KeyFetched(c) \/ Revoked(c)
  BY <1>3, <1>6 DEF Created, KeyFetched, Revoked, Return, Release, Proceed
<1>7. CASE \/ GenerateQueries(c)
           \/ Connect(c, "meta_connect", "get_key") \/ Connect(c, "act_connect", "activate")
           \/ Connect(c, "des_connect", "revoke") \/ Connect(c, "sign_connect", "sign")
  <2>1. /\ pc[c] \notin RequestStates /\ resp'[c] = resp[c]
        /\ pc'[c] \notin {"create", "recreate"}
    BY <1>7 DEF GenerateQueries, Connect, RequestStates
  <2> QED
    BY <1>2, <1>3, <2>1
<1>8. CASE GenerateCreates(c)
  <2>1. /\ pc[c] \notin RequestStates /\ resp'[c] = resp[c] /\ local'[c] = local[c]
        /\ pc'[c] = "create" /\ local[c].alg \notin EdAlgorithms
    BY <1>8 DEF GenerateCreates, Connect, RequestStates
  <2> QED
    BY <1>2, <2>1 DEF Unhindered
<1>9. CASE Queried(c)
  <2>1. \/ resp'[c] = Pending /\ pc'[c] = "create" /\ server.edExtension
        \/ resp'[c] = Pending /\ pc'[c] = "idle"
    BY <1>9 DEF Queried, Proceed, Return
  <2>2. resp'[c].status = "Pending"
    BY <2>1
  <2> QED
    BY <1>1, <2>1, <2>2 DEF Unhindered
<1>10. CASE CreateFails(c)
  <2>1. CASE ~RetriesWithCurve(c)
    BY <1>3, <1>10, <2>1 DEF CreateFails, Return
  <2>2. CASE RetriesWithCurve(c)
    <3>1. /\ pc[c] = "create" /\ resp[c].status = "ServerError"
          /\ resp'[c] = Pending /\ pc'[c] = "recreate" /\ local'[c] = local[c]
      BY <1>10, <2>2 DEF CreateFails, RetriesWithCurve, Proceed
    <3>2. local[c].via = "generate" /\ local[c].alg \in SupportedAlgorithms
      BY <3>1 DEF CallerInv, Generates, Asking
    <3>3. /\ ~AcceptsTemplate(AlgInfo(local[c].alg).kind, FALSE)
          /\ local[c].alg \in EdAlgorithms => server.edExtension
      BY <3>1, <3>2 DEF Unhindered, Template, Generating, Asking
    <3>4. AcceptsTemplate(AlgInfo(local[c].alg).kind, TRUE)
      BY <3>2, <3>3, NamingTheCurveHelps
    <3>5. AcceptsTemplate(Template(c), TRUE)'
      BY <1>1, <3>1, <3>4 DEF AcceptsTemplate, Template
    <3>6. resp'[c].status = "Pending"
      BY <3>1
    <3>7. pc'[c] \in {"create", "recreate"} /\ local'[c].alg \in EdAlgorithms => server'.edExtension
      BY <1>1, <3>1, <3>3
    <3> QED
      BY <3>5, <3>6, <3>7 DEF Unhindered
  <2> QED
    BY <2>1, <2>2
<1> QED
  BY <1>4, <1>5, <1>6, <1>7, <1>8, <1>9, <1>10 DEF Continue

LEMMA RequestLimits ==
  ASSUME HInv, NEW c \in Callers, pc[c] = "gen_connect"
  PROVE  /\ local[c].via = "generate"
         /\ local[c].alg \notin EdAlgorithms =>
              (SupportedRequest(local[c]) <=> LengthPermitted(local[c].alg, local[c].bits))
<1>1. local[c].via = "generate"
  BY DEF HInv, IInv, CallerInv, Generates, Asking
<1>2. AsksFor(local[c])
  BY <1>1 DEF HInv, Asked, Generating, Asking
<1>3. PICK r \in Params : local[c].alg = r.alg /\ local[c].bits = r.bits
  BY <1>2 DEF AsksFor
<1>4. /\ r.alg \in SupportedAlgorithms /\ r.bits \in Nat
      /\ IsGenerateParams(r.alg, r.bits)
  BY ParamsAssumption
<1> QED
  BY <1>1, <1>3, <1>4, LengthLimits DEF SupportedRequest

LEMMA CallerPermitted ==
  ASSUME HInv, NEW c \in Callers, Permitted(c), Start(c) \/ Continue(c)
  PROVE  Permitted(c)'
<1> USE DEF HInv, IInv, TypeOK
<1>1. UNCHANGED server
  BY CallersLeaveServer DEF hsmVars
<1>2. ASSUME pc'[c] # "query", \/ pc'[c] \notin Attempting
                               \/ local'[c].via # "generate"
      PROVE  Permitted(c)'
  BY <1>2 DEF Permitted, Attempting, ReadingKey, Activating
<1>3. ASSUME pc[c] \in Attempting, pc'[c] # "query",
             local'[c].via = local[c].via, local'[c].alg = local[c].alg,
             local'[c].bits = local[c].bits
      PROVE  Permitted(c)'
  BY <1>1, <1>3 DEF Permitted, SupportedRequest, Attempting, ReadingKey, Activating
<1>4. CASE Start(c)
  <2>1. CASE FromMetadata(c) \/ FromUrls(c)
    <3>1. CASE UNCHANGED <<pc, local>>
      BY <1>1, <3>1 DEF Permitted, SupportedRequest
    <3>2. CASE ~UNCHANGED <<pc, local>>
      <4>1. ASSUME NEW l, Enter(c, "meta_connect", l), l.via # "generate"
            PROVE  Permitted(c)'
        BY <1>2, <4>1 DEF Enter
      <4>2. CASE FromMetadata(c)
        <5>1. PICK a \in ImportAlgs, priv \in KeyIds, pub \in KeyIds :
                Enter(c, "meta_connect", Import("from_metadata", a, 0, priv, pub))
          BY <4>2 DEF FromMetadata
        <5>2. a \in SecurityAlgorithms /\ priv \in Ids /\ pub \in Ids /\ "from_metadata" \in Vias
          BY ImportAlgsAssumption DEF Ids, Vias
        <5> QED
          BY <4>1, <5>1, <5>2, ImportType
      <4>3. CASE FromUrls(c)
        <5> DEFINE L(k, l) == Import("from_urls", k.alg, k.flags, k.priv, l.pub)
        <5>1. PICK k, l \in keypairs : Enter(c, "meta_connect", L(k, l))
          BY <3>2, <4>3 DEF FromUrls
        <5>2. /\ k.alg \in SecurityAlgorithms /\ k.flags \in Nat /\ k.priv \in Ids
              /\ l.pub \in Ids /\ "from_urls" \in Vias
          BY DEF KeyPairs, Vias
        <5>3. L(k, l).via = "from_urls"
          BY <5>2, ImportType
        <5> HIDE DEF L
        <5> QED
          BY <4>1, <5>1, <5>3
      <4> QED
        BY <2>1, <4>2, <4>3
    <3> QED
      BY <3>1, <3>2
  <2>2. CASE Generate(c) \/ DestroyKey(c) \/ SignRaw(c)
    BY <1>2, <2>2 DEF Generate, DestroyKey, SignRaw, Enter, Attempting, ReadingKey, Activating
  <2>3. CASE SignUnsupported(c)
    BY <1>1, <2>3 DEF SignUnsupported, Permitted, SupportedRequest
  <2> QED
    BY <1>4, <2>1, <2>2, <2>3 DEF Start
<1>5. CASE \/ ConnectFails(c) \/ GenerateRejectsLength(c) \/ SignFails(c) \/ SignPanics(c)
           \/ Bails(c, "query") \/ Bails(c, "get_key") \/ Bails(c, "activate")
           \/ Bails(c, "revoke") \/ Bails(c, "destroy")
           \/ Activated(c) \/ KeyDestroyed(c) \/ Signed(c)
  <2>1. pc'[c] = "idle"
    BY <1>5 DEF ConnectFails, GenerateRejectsLength, SignFails, SignPanics, Bails,
                Activated, KeyDestroyed, Signed, Return
  <2> QED
    BY <1>2, <2>1 DEF Attempting, ReadingKey, Activating
<1>6. CASE GenerateQueries(c)
  BY <1>6 DEF GenerateQueries, Connect, Permitted, Attempting, ReadingKey, Activating
<1>7. CASE GenerateCreates(c)
  <2>1. /\ pc[c] = "gen_connect" /\ pc'[c] = "create" /\ UNCHANGED local
        /\ local[c].alg \notin EdAlgorithms /\ LengthPermitted(local[c].alg, local[c].bits)
    BY <1>7 DEF GenerateCreates, Connect
  <2>2. SupportedRequest(local[c])
    BY <2>1, RequestLimits
  <2>3. SupportedRequest(local[c])'
    BY <1>1, <2>1, <2>2 DEF SupportedRequest
  <2> QED
    BY <2>1, <2>3 DEF Permitted
<1>8. CASE Queried(c)
  <2>1. \/ pc'[c] = "idle"
        \/ /\ pc[c] = "query" /\ pc'[c] = "create" /\ UNCHANGED local
           /\ server.edExtension
    BY <1>8 DEF Queried, Granted, Proceed, Return
  <2>2. CASE pc'[c] = "idle"
    BY <1>2, <2>2 DEF Attempting, ReadingKey, Activating
  <2>3. CASE pc'[c] # "idle"
    <3>1. local[c].alg \in EdAlgorithms
      BY <2>1, <2>3 DEF Permitted
    <3>2. SupportedRequest(local[c])'
      <4>1. SupportedLength(local[c].alg, local[c].bits)
        BY <3>1, EdLength
      <4> QED
        BY <1>1, <2>1, <2>3, <4>1 DEF SupportedRequest
    <3> QED
      BY <2>1, <2>3, <3>2 DEF Permitted
  <2> QED
    BY <2>2, <2>3
<1>9. CASE CreateFails(c)
  <2>1. \/ pc'[c] = "idle"
        \/ pc[c] = "create" /\ pc'[c] = "recreate" /\ UNCHANGED local
    BY <1>9 DEF CreateFails, RetriesWithCurve, Proceed, Return
  <2> QED
    BY <1>2, <1>3, <2>1 DEF Attempting, ReadingKey, Activating
<1>10. CASE Created(c)
  <2>1. /\ pc[c] \in {"create", "recreate"} /\ pc'[c] = "meta_connect"
        /\ local'[c] = WithIds(local[c], Private(resp[c].pair), Public(resp[c].pair))
        /\ resp[c].pair \in Pairs
    BY <1>10 DEF Created, Granted, Release, CallerInv, Generates
  <2>2. Private(resp[c].pair) \in Ids /\ Public(resp[c].pair) \in Ids /\ local[c] \in Locals
    BY <2>1, PairIds DEF Ids
  <2> QED
    BY <1>3, <2>1, <2>2, LocalWithIds DEF Attempting
<1>11. CASE KeyFetched(c)
  <2>1. CASE pc'[c] = "idle"
    BY <1>2, <2>1 DEF Attempting, ReadingKey, Activating
  <2>2. CASE pc'[c] # "idle"
    <3>1. pc[c] = "get_key" /\ pc'[c] = "act_connect" /\ local'[c] = Located(c)
      BY <1>11, <2>2 DEF KeyFetched, Granted, Return, Release
    <3>2. local[c] \in Locals /\ resp[c].pair \in Pairs \cup {NoPair}
      BY DEF Replies
    <3> QED
      BY <1>3, <3>1, <3>2, LocalWithKey DEF Located, Attempting, ReadingKey
  <2> QED
    BY <2>1, <2>2
<1>12. CASE \/ Connect(c, "meta_connect", "get_key") \/ Connect(c, "act_connect", "activate")
  BY <1>3, <1>12 DEF Connect, Attempting, ReadingKey, Activating
<1>13. CASE \/ Connect(c, "des_connect", "revoke") \/ Connect(c, "sign_connect", "sign")
            \/ Revoked(c)
  <2>1. pc'[c] \in {"revoke", "sign", "destroy"}
    BY <1>13 DEF Connect, Revoked, Proceed
  <2> QED
    BY <1>2, <2>1 DEF Attempting, ReadingKey, Activating
<1> QED
  BY <1>4, <1>5, <1>6, <1>7, <1>8, <1>9, <1>10, <1>11, <1>12, <1>13 DEF Continue

\* A call takes its place among those that want a pair when it is made, and
\* gives it up when it has a pair or returns.
LEMMA CallerLeavesRoom ==
  ASSUME HInv, RoomLeft, NEW c \in Callers, Start(c) \/ Continue(c)
  PROVE  RoomLeft'
<1> USE DEF HInv, IInv, TypeOK
<1>1. Others(c) /\ Used' = Used
  BY CallerKeeps DEF Keeps, hsmVars, Used
<1>2. \A d \in Callers \ {c} : d \in Wanting' <=> d \in Wanting
  BY <1>1 DEF Wanting, Others
<1>3. Cardinality(Used) \in Nat /\ Cardinality(Wanting) \in Nat /\ calls \in Nat
  BY FS_CardinalityType, MaxCallsAssumption DEF RoomLeft
<1>4. CASE Start(c)
  <2>1. c \notin Wanting
    BY <1>4, StartMakesNothing DEF Wanting, Asking
  <2>2. calls' = calls + 1
    BY <1>4 DEF Start, Generate, FromMetadata, FromUrls, DestroyKey, SignRaw,
                SignUnsupported, Enter
  <2>3. Wanting' = Wanting \/ Wanting' = Wanting \cup {c}
    BY <1>2, <2>1 DEF Wanting
  <2>4. /\ IsFiniteSet(Wanting \cup {c})
        /\ Cardinality(Wanting \cup {c}) = Cardinality(Wanting) + 1
    BY <2>1, FS_AddElement DEF RoomLeft
  <2>5. /\ IsFiniteSet(Wanting')
        /\ Cardinality(Wanting') <= Cardinality(Wanting) + 1
    <3>1. CASE Wanting' = Wanting
      BY <1>3, <3>1 DEF RoomLeft
    <3>2. CASE Wanting' = Wanting \cup {c}
      <4>1. Cardinality(Wanting') = Cardinality(Wanting) + 1
        BY <2>4, <3>2
      <4> QED
        BY <1>3, <2>4, <3>2, <4>1
    <3> QED
      BY <2>3, <3>1, <3>2
  <2>6. Cardinality(Wanting') \in Nat
    BY <2>5, FS_CardinalityType
  <2>7. Cardinality(Used) + Cardinality(Wanting') <= calls + 1
    BY <1>3, <2>5, <2>6 DEF RoomLeft
  <2> QED
    BY <1>1, <2>2, <2>5, <2>7 DEF RoomLeft
<1>5. CASE Continue(c)
  <2>1. UNCHANGED calls /\ (pc'[c] \in Asking => pc[c] \in Asking)
    <3>1. CASE \/ ConnectFails(c) \/ GenerateRejectsLength(c) \/ SignFails(c) \/ SignPanics(c)
               \/ Bails(c, "query") \/ Bails(c, "get_key") \/ Bails(c, "activate")
               \/ Bails(c, "revoke") \/ Bails(c, "destroy")
               \/ Activated(c) \/ KeyDestroyed(c) \/ Signed(c)
      BY <3>1 DEF ConnectFails, GenerateRejectsLength, SignFails, SignPanics, Bails,
                  Activated, KeyDestroyed, Signed, Return, Asking
    <3>2. CASE \/ GenerateQueries(c) \/ GenerateCreates(c)
               \/ Connect(c, "meta_connect", "get_key") \/ Connect(c, "act_connect", "activate")
               \/ Connect(c, "des_connect", "revoke") \/ Connect(c, "sign_connect", "sign")
      BY <3>2 DEF GenerateQueries, GenerateCreates, Connect, Asking
    <3>3. CASE Queried(c) \/ CreateFails(c) \/ Created(c) \/ KeyFetched(c) \/ Revoked(c)
      BY <3>3 DEF Queried, CreateFails, Created, KeyFetched, Revoked, Answered, Granted,
                  Proceed, Release, Return, Asking
    <3> QED
      BY <1>5, <3>1, <3>2, <3>3 DEF Continue
  <2>2. Wanting' \in SUBSET Wanting
    BY <1>2, <1>5, <2>1, ContinueMakesNothing DEF Wanting
  <2>3. IsFiniteSet(Wanting') /\ Cardinality(Wanting') <= Cardinality(Wanting)
    BY <2>2, FS_Subset DEF RoomLeft
  <2>4. Cardinality(Wanting') \in Nat
    BY <2>3, FS_CardinalityType
  <2>5. Cardinality(Used) + Cardinality(Wanting') <= calls
    BY <1>3, <2>3, <2>4 DEF RoomLeft
  <2> QED
    BY <1>1, <2>1, <2>3, <2>5 DEF RoomLeft
<1> QED
  BY <1>4, <1>5

-----------------------------------------------------------------------------
(* The steps of a server that works.                                       *)

LEMMA ServerSteps ==
  ASSUME HInv, NEW c \in Callers, Serve(c)
  PROVE  /\ UNCHANGED <<server, pc, conn, local, ret, appVars, calls>>
         /\ pc[c] \in RequestStates /\ resp[c] = Pending
         /\ \A d \in Callers \ {c} : resp'[d] = resp[d]
  BY DEF Serve, ServeQuery, ServeCreate, ServeGet, ServeActivate, ServeRevoke,
         ServeDestroy, ServeSign, Refuse, LoseRequest, AnswerOddly, Reply, ServeWithout,
         Waiting, RequestStates, CreateKeyPair, SetObject, hsmVars, HInv, IInv, TypeOK

\* A request to revoke or destroy is for a key that has been given, one to
\* activate for the pair that the caller holds.
LEMMA HeldKept ==
  ASSUME WorkingServer, HInv, KnownIds, FreshHeld, NEW c \in Callers, Serve(c), ~ServeCreate(c),
         NEW d \in Callers, NEW p \in Pairs, Holds(d, p)
  PROVE  /\ object'[Public(p)] = "PreActive"
         /\ \/ object'[Private(p)] = "PreActive"
            \/ pc'[d] = "activate" /\ resp'[d].status = "Ok"
<1> USE PairIds DEF HInv, IInv, TypeOK, HsmTypeOK
<1>1. /\ object[Public(p)] = "PreActive"
      /\ object[Private(p)] = "PreActive" \/ (pc[d] = "activate" /\ resp[d].status = "Ok")
  BY DEF FreshHeld
<1>2. d = c => resp[d].status # "Ok"
  BY ServerSteps DEF Pending
<1>3. UNCHANGED pc /\ (d # c => resp'[d] = resp[d])
  BY ServerSteps
<1>4. CASE \/ ServeQuery(c) \/ ServeGet(c) \/ ServeSign(c)
           \/ Refuse(c) \/ LoseRequest(c) \/ AnswerOddly(c)
  BY <1>1, <1>2, <1>3, <1>4 DEF ServeQuery, ServeGet, ServeSign, Refuse, LoseRequest,
     AnswerOddly, ServeWithout, hsmVars
<1>5. CASE ServeRevoke(c) \/ ServeDestroy(c)
  <2>1. pc[c] \in Destroying
    BY <1>5 DEF ServeRevoke, ServeDestroy, Waiting, Destroying
  <2>2. local[c].priv \in KeyIds /\ PairOf(local[c].priv) # p
    BY <2>1 DEF KnownIds, KnownId, SoleHolder
  <2>3. object'[Public(p)] = object[Public(p)] /\ object'[Private(p)] = object[Private(p)]
    BY <1>5, <2>2 DEF ServeRevoke, ServeDestroy, SetObject
  <2> QED
    BY <1>1, <1>2, <1>3, <2>3
<1>6. CASE ServeActivate(c)
  <2>1. pc[c] = "activate" /\ Reply(c, NoPair)
    BY <1>6 DEF ServeActivate, Waiting
  <2> DEFINE q == PairOf(local[c].pub)
  <2>2. q \in Pairs /\ local[c].via = "generate" /\ local[c].priv = Private(q)
    BY <2>1 DEF CallerInv, Generates, Activating
  <2>3. Holds(c, q)
    BY <2>1, <2>2 DEF Holds, Activating
  <2>4. object'[Public(p)] = object[Public(p)]
    BY <1>6, <2>2 DEF ServeActivate, SetObject, Public, Private
  <2> HIDE DEF q
  <2>5. q # p => object'[Private(p)] = object[Private(p)]
    BY <1>6, <2>2 DEF ServeActivate, SetObject, Private
  <2>6. q = p => d = c
    BY <2>2, <2>3 DEF SoleHolder
  <2>7. resp'[c].status = "Ok"
    BY <2>1 DEF Reply, ReplyStatuses, WorkingServer
  <2> QED
    BY <1>1, <1>2, <1>3, <2>1, <2>4, <2>5, <2>6, <2>7
<1> QED
  BY <1>4, <1>5, <1>6 DEF Serve

\* A pair that has been created is whole, and nobody else's changes.
LEMMA HeldAfterCreation ==
  ASSUME WorkingServer, HInv, FreshHeld, NEW c \in Callers, ServeCreate(c),
         NEW d \in Callers, NEW p \in Pairs, Holds(d, p)'
  PROVE  /\ object'[Public(p)] = "PreActive"
         /\ \/ object'[Private(p)] = "PreActive"
            \/ pc'[d] = "activate" /\ resp'[d].status = "Ok"
<1> USE PairIds DEF HInv, IInv, TypeOK, HsmTypeOK
<1>1. PICK q \in Pairs : CreateKeyPair(q, Template(c)) /\ Reply(c, q)
  BY DEF ServeCreate
<1>2. /\ resp'[c].status = "Ok" => resp'[c].pair = q
      /\ \A e \in Callers \ {c} : resp'[e] = resp[e]
      /\ UNCHANGED <<pc, conn, local, ret, appVars, calls>>
  BY <1>1, ReplyEffect
<1>3. pc[c] \in {"create", "recreate"}
  BY DEF ServeCreate, Waiting
<1>4. object'[Public(q)] = "PreActive" /\ object'[Private(q)] = "PreActive"
  BY <1>1 DEF CreateKeyPair, Public, Private
<1>5. p # q => /\ object'[Public(p)] = object[Public(p)]
               /\ object'[Private(p)] = object[Private(p)]
  BY <1>1 DEF CreateKeyPair, Public, Private
<1>6. d = c => p = q
  BY <1>2, <1>3 DEF Holds, ReadingKey, Activating
<1>7. d # c => Holds(d, p)
  BY <1>2 DEF Holds
<1> QED
  BY <1>2, <1>4, <1>5, <1>6, <1>7 DEF FreshHeld

LEMMA ServerKeepsFresh ==
  ASSUME WorkingServer, HInv, KnownIds, FreshHeld, NEW c \in Callers, Serve(c)
  PROVE  FreshHeld'
<1> SUFFICES ASSUME NEW d \in Callers, NEW p \in Pairs, Holds(d, p)'
             PROVE  /\ object'[Public(p)] = "PreActive"
                    /\ \/ object'[Private(p)] = "PreActive"
                       \/ pc'[d] = "activate" /\ resp'[d].status = "Ok"
  BY DEF FreshHeld
<1>1. CASE ServeCreate(c)
  BY <1>1, HeldAfterCreation
<1>2. CASE ~ServeCreate(c)
  <2>1. Holds(d, p)
    BY <1>2, AnswerKeeps, OthersHold DEF Keeps
  <2> QED
    BY <1>2, <2>1, HeldKept
<1> QED
  BY <1>1, <1>2

\* A caller that is waiting for its pair finds room for it.
LEMMA RoomForWanting ==
  ASSUME WorkingServer, HInv, RoomLeft, NEW c \in Wanting
  PROVE  HasRoom
<1>1. Cardinality(Used) \in Nat /\ Cardinality(Wanting) \in Nat /\ calls \in 0 .. MaxCalls
  BY FS_CardinalityType DEF RoomLeft, HInv, IInv, TypeOK
<1>2. Cardinality(Wanting) # 0
  BY FS_EmptySet DEF RoomLeft
<1>3. Cardinality(Used) < MaxCalls
  BY <1>1, <1>2, MaxCallsAssumption DEF RoomLeft
<1>4. Used # Pairs
  BY <1>1, <1>3, MaxCallsAssumption DEF WorkingServer, RoomLeft
<1> QED
  BY <1>4 DEF Used, HasRoom

LEMMA ServerUnhindered ==
  ASSUME WorkingServer, HInv, FreshHeld, RoomLeft, NEW c \in Callers, Unhindered(c), Serve(c)
  PROVE  Unhindered(c)'
<1> USE PairIds DEF HInv, IInv, TypeOK
<1>1. /\ UNCHANGED <<server, pc, local>> /\ pc[c] \in RequestStates /\ resp[c] = Pending
  BY ServerSteps
<1>2. resp[c].status = "Pending"
  BY <1>1 DEF Pending
<1>3. /\ pc[c] \in {"create", "recreate"} /\ local[c].alg \in EdAlgorithms => server.edExtension
      /\ pc[c] = "recreate" => AcceptsTemplate(Template(c), TRUE)
  BY DEF Unhindered
<1>4. /\ pc'[c] \in {"create", "recreate"} /\ local'[c].alg \in EdAlgorithms =>
           server'.edExtension
      /\ \A named : AcceptsTemplate(Template(c), named)' <=> AcceptsTemplate(Template(c), named)
  BY <1>1, <1>3 DEF Template, AcceptsTemplate
<1>5. CASE resp'[c].status = "Ok"
  BY <1>1, <1>3, <1>4, <1>5 DEF Unhindered
<1>6. CASE Refuse(c)
  <2>1. resp'[c].status = "ServerError" /\ ~CouldGrant(c)
    BY <1>6 DEF Refuse, ServeWithout, WorkingServer
  <2>2. ASSUME pc[c] \in Generating, local[c].via = "generate"
        PROVE  pc[c] = "create" /\ ~AcceptsTemplate(Template(c), FALSE)
    <3>1. pc[c] # "query"
      BY <2>1 DEF CouldGrant
    <3>2. CASE pc[c] \in {"create", "recreate"}
      <4>1. c \in Wanting
        BY <1>2, <3>2 DEF Wanting, Asking, CallerInv, MadeByCall
      <4>2. ~AcceptsTemplate(Template(c), pc[c] = "recreate")
        BY <2>1, <3>2, <4>1, RoomForWanting DEF CouldGrant
      <4>3. CASE pc[c] = "recreate"
        <5>1. (pc[c] = "recreate") = TRUE
          BY <4>3
        <5> QED
          BY <1>3, <4>2, <4>3, <5>1
      <4>4. CASE pc[c] = "create"
        <5>1. (pc[c] = "recreate") = FALSE
          BY <4>4
        <5> QED
          BY <4>2, <4>4, <5>1
      <4> QED
        BY <3>2, <4>3, <4>4
    <3>3. CASE pc[c] \in {"get_key", "activate"}
      <4> DEFINE q == PairOf(local[c].pub)
      <4>1. /\ q \in Pairs /\ local[c].pub = Public(q) /\ local[c].priv = Private(q)
        BY <2>2, <3>3 DEF CallerInv, Generates, ReadingKey, Activating
      <4>2. Holds(c, q)
        BY <2>2, <3>3, <4>1 DEF Holds, ReadingKey, Activating
      <4>3. object[Public(q)] = "PreActive" /\ object[Private(q)] = "PreActive"
        BY <1>2, <4>1, <4>2 DEF FreshHeld
      <4>4. Exists(local[c].pub) /\ CanActivate(local[c].priv)
        BY <4>1, <4>3 DEF Exists, CanActivate
      <4> QED
        BY <2>1, <3>3, <4>4 DEF CouldGrant
    <3> QED
      BY <1>1, <2>2, <3>1, <3>2, <3>3 DEF Generating, Asking, ReadingKey, Activating, RequestStates
  <2> QED
    BY <1>1, <1>3, <1>4, <2>1, <2>2 DEF Unhindered
<1>7. CASE ~Refuse(c)
  <2>1. \E p : Reply(c, p)
    BY <1>7 DEF Serve, ServeQuery, ServeCreate, ServeGet, ServeActivate, ServeRevoke,
       ServeDestroy, ServeSign, LoseRequest, AnswerOddly, WorkingServer
  <2> QED
    BY <1>5, <2>1 DEF Reply, ReplyStatuses, WorkingServer
<1> QED
  BY <1>6, <1>7

\* A pair that is created is that of a caller that wanted it.
LEMMA ServerLeavesRoom ==
  ASSUME HInv, RoomLeft, NEW c \in Callers, Serve(c)
  PROVE  RoomLeft'
<1> USE PairIds DEF HInv, IInv, TypeOK, HsmTypeOK
<1>1. UNCHANGED <<pc, calls>> /\ resp[c].status = "Pending"
  BY ServerSteps DEF Pending
<1>2. CASE ServeCreate(c)
  <2>1. PICK p \in Pairs : /\ CreateKeyPair(p, Template(c))
                           /\ made' = [made EXCEPT ![c] = @ \cup {p}]
    BY <1>2 DEF ServeCreate
  <2>2. Used' = Used \cup {p} /\ p \notin Used
    BY <2>1 DEF CreateKeyPair, Used, Private
  <2>3. c \in Wanting
    BY <1>1, <1>2 DEF ServeCreate, Waiting, Wanting, Asking, CallerInv, MadeByCall
  <2>4. Wanting' = Wanting \ {c}
    BY <1>1, <2>1 DEF Wanting
  <2>5. IsFiniteSet(Used \cup {p}) /\ Cardinality(Used \cup {p}) = Cardinality(Used) + 1
    BY <2>2, FS_AddElement DEF RoomLeft
  <2>6. IsFiniteSet(Wanting \ {c}) /\ Cardinality(Wanting \ {c}) = Cardinality(Wanting) - 1
    BY <2>3, FS_RemoveElement DEF RoomLeft
  <2>7. /\ IsFiniteSet(Used') /\ IsFiniteSet(Wanting')
        /\ Cardinality(Used') = Cardinality(Used) + 1
        /\ Cardinality(Wanting') = Cardinality(Wanting) - 1
    BY <2>2, <2>4, <2>5, <2>6
  <2>8. Cardinality(Used) \in Nat /\ Cardinality(Wanting) \in Nat /\ calls \in Nat
    BY FS_CardinalityType DEF RoomLeft
  <2> QED
    BY <1>1, <2>7, <2>8 DEF RoomLeft
<1>3. CASE ~ServeCreate(c)
  <2>1. UNCHANGED made
    BY <1>3 DEF Serve, ServeQuery, ServeGet, ServeActivate, ServeRevoke, ServeDestroy,
       ServeSign, Refuse, LoseRequest, AnswerOddly, ServeWithout
  <2>2. \A p \in Pairs : object[Private(p)] = "Absent" => object'[Private(p)] = "Absent"
    <3>1. CASE \/ ServeQuery(c) \/ ServeGet(c) \/ ServeSign(c)
               \/ Refuse(c) \/ LoseRequest(c) \/ AnswerOddly(c)
      BY <3>1 DEF ServeQuery, ServeGet, ServeSign, Refuse, LoseRequest, AnswerOddly,
                  ServeWithout, hsmVars
    <3>2. CASE ServeActivate(c) \/ ServeRevoke(c) \/ ServeDestroy(c)
      <4>1. "Absent" \notin server.revokes
        BY ServersAssumption DEF Profiles
      <4>2. PICK s : SetObject(local[c].priv, s) /\ object[local[c].priv] # "Absent"
        BY <3>2, <4>1 DEF ServeActivate, ServeRevoke, ServeDestroy, CanActivate, CanRevoke,
                          CanDestroy, Exists
      <4> QED
        BY <4>2 DEF SetObject
    <3> QED
      BY <1>3, <3>1, <3>2 DEF Serve
  <2>3. Used' = Used
    BY <1>3, <2>2, NothingVanishes DEF Used
  <2>4. Wanting' = Wanting
    BY <1>1, <2>1 DEF Wanting
  <2> QED
    BY <1>1, <2>3, <2>4 DEF RoomLeft
<1> QED
  BY <1>2, <1>3

-----------------------------------------------------------------------------
LEMMA WorkingInit == Init => WInv
<1> SUFFICES ASSUME Init
             PROVE  WInv
  OBVIOUS
<1>1. \A c \in Callers : pc[c] = "idle" /\ resp[c].status = "Pending"
  BY DEF Init, Pending
<1>2. \A c \in Callers : Unhindered(c)
  BY <1>1 DEF Unhindered, Generating, Asking, ReadingKey, Activating
<1>7. \A c \in Callers : Permitted(c)
  BY <1>1 DEF Permitted, Attempting, ReadingKey, Activating
<1>3. KnownIds
  BY <1>1 DEF Init, KnownIds, Destroying, ReadingKey
<1>4. FreshHeld
  BY <1>1 DEF FreshHeld, Holds, ReadingKey, Activating
<1>5. Used = {} /\ Wanting = {}
  BY <1>1, PairIds DEF Init, HsmInit, Used, Wanting, Asking
<1>6. RoomLeft
  BY <1>5, FS_EmptySet DEF Init, RoomLeft
<1> QED
  BY <1>2, <1>3, <1>4, <1>6, <1>7, HoldersInit DEF WInv

LEMMA WorkingNext ==
  ASSUME WorkingServer, WInv, [Next \/ Finished]_vars
  PROVE  WInv'
<1> USE DEF WInv
<1>1. HInv'
  BY HoldersNext
<1>2. ASSUME NEW c \in Callers, Start(c) \/ Continue(c)
      PROVE  WInv'
  <2>1. Others(c) /\ UNCHANGED server
    BY <1>2, CallerKeeps DEF Keeps, hsmVars
  <2>2. \A d \in Callers \ {c} : Unhindered(d)' /\ Permitted(d)'
    BY <2>1 DEF Unhindered, Permitted, SupportedRequest, Others, Template, AcceptsTemplate
  <2> QED
    BY <1>1, <1>2, <2>2, CallerKnows, CallerKeepsFresh, CallerUnhindered, CallerPermitted,
       CallerLeavesRoom
<1>3. ASSUME NEW c \in Callers, Serve(c)
      PROVE  WInv'
  <2>1. /\ UNCHANGED <<server, pc, local, appVars>>
        /\ \A d \in Callers \ {c} : resp'[d] = resp[d]
    BY <1>3, ServerSteps
  <2>2. \A d \in Callers \ {c} : Unhindered(d)'
    BY <2>1 DEF Unhindered, Template, AcceptsTemplate
  <2>4. \A d \in Callers : Permitted(d)'
    BY <2>1 DEF Permitted, SupportedRequest
  <2>3. KnownIds'
    BY <2>1 DEF KnownIds, KnownId, Given, OfGenerate, appVars
  <2> QED
    BY <1>1, <1>3, <2>2, <2>3, <2>4, ServerKeepsFresh, ServerUnhindered, ServerLeavesRoom
<1>4. CASE UNCHANGED vars
  <2>1. KnownIds' /\ FreshHeld' /\ RoomLeft'
    BY <1>4 DEF vars, clientVars, appVars, hsmVars, KnownIds, KnownId, Given, OfGenerate,
       FreshHeld, Holds, RoomLeft, Used, Wanting
  <2>2. \A c \in Callers : Unhindered(c)' /\ Permitted(c)'
    BY <1>4 DEF vars, clientVars, hsmVars, Unhindered, Permitted, SupportedRequest, Template,
                AcceptsTemplate
  <2> QED
    BY <1>1, <2>1, <2>2
<1> QED
  BY <1>2, <1>3, <1>4 DEF Next, Finished

\* How a call of generate() that ends on such a server ends.
LEMMA EndsWell ==
  ASSUME WorkingServer, WInv, NEW c \in Callers, Continue(c),
         pc[c] \in GenerateStates, local[c].via = "generate", pc'[c] = "idle"
  PROVE  ret'[c] = IF SupportedRequest(local[c]) THEN "Ok" ELSE "Unsupported"
<1> USE DEF WInv, HInv, IInv, TypeOK
<1>1. /\ Unhindered(c) /\ Permitted(c) /\ CallerInv(c) /\ pc[c] \in Generating
  BY DEF GenerateStates, Generating, Asking, ReadingKey, Activating
<1>2. \A r : Return(c, r) => ret'[c] = r
  BY DEF Return
<1>3. ~ConnectFails(c)
  BY DEF ConnectFails, WorkingServer
<1>4. CASE GenerateRejectsLength(c)
  <2>1. /\ pc[c] = "gen_connect" /\ Return(c, "Unsupported")
        /\ local[c].alg \notin EdAlgorithms
        /\ ~LengthPermitted(local[c].alg, local[c].bits)
    BY <1>4 DEF GenerateRejectsLength
  <2> QED
    BY <1>2, <2>1, RequestLimits
<1>5. ~(Bails(c, "query") \/ Bails(c, "get_key") \/ Bails(c, "activate"))
  BY <1>1 DEF Bails, Answered, Unhindered
<1>6. CASE Queried(c)
  <2>1. ~Proceed(c, "create")
    BY DEF Proceed
  <2>2. pc[c] = "query" /\ ~server.edExtension /\ Return(c, "Unsupported")
    BY <1>6, <2>1 DEF Queried, Granted
  <2>3. ~SupportedRequest(local[c])
    BY <1>1, <2>2 DEF Permitted, SupportedRequest
  <2> QED
    BY <1>2, <2>2, <2>3
<1>7. ~CreateFails(c)
  <2> SUFFICES ASSUME CreateFails(c)
               PROVE  FALSE
    OBVIOUS
  <2>1. pc[c] = "create" /\ resp[c].status = "ServerError"
    BY <1>1 DEF CreateFails, Answered, Unhindered
  <2>2. ~AcceptsTemplate(Template(c), FALSE) /\ local[c].alg \in SupportedAlgorithms
    BY <1>1, <2>1 DEF Unhindered, CallerInv, Generates, Asking
  <2>3. local[c].alg \in EdAlgorithms => server.edExtension
    BY <1>1, <2>1 DEF Unhindered
  <2>4. AlgInfo(local[c].alg).curve # None
    BY <2>2, <2>3, NamingTheCurveHelps DEF Template
  <2>5. Proceed(c, "recreate")
    BY <2>1, <2>4 DEF CreateFails, RetriesWithCurve
  <2> QED
    BY <2>5 DEF Proceed
<1>8. ~KeyFetched(c)
  <2> SUFFICES ASSUME KeyFetched(c)
               PROVE  FALSE
    OBVIOUS
  <2>1. pc[c] = "get_key"
    BY DEF KeyFetched, Granted
  <2> DEFINE p == PairOf(local[c].pub)
  <2>2. /\ p \in Pairs /\ local[c].pub = Public(p) /\ kind[p] = AlgInfo(local[c].alg).kind
    BY <1>1, <2>1 DEF CallerInv, Generates, ReadingKey
  <2>3. PICK r \in Params : local[c].alg = r.alg
    BY <1>1 DEF Asked, AsksFor
  <2>4. /\ local[c].alg \in SupportedAlgorithms
        /\ local[c].alg = "ECDSAP256SHA256" => server.ecFormat = "X509"
    BY <2>3, ParamsAssumption DEF WorkingServer, HsmTypeOK
  <2>5. Fetched(c) = "Ok"
    BY <2>2, <2>4, Readable DEF Fetched
  <2>6. Release(c, "act_connect", Located(c))
    BY <2>5 DEF KeyFetched
  <2> QED
    BY <2>6 DEF Release
<1>9. CASE Activated(c)
  <2>1. pc[c] = "activate" /\ Return(c, "Ok")
    BY <1>9 DEF Activated, Granted
  <2>2. SupportedRequest(local[c])
    BY <1>1, <2>1 DEF Permitted, Attempting, Activating
  <2> QED
    BY <1>2, <2>1, <2>2
<1>10. CASE \/ GenerateQueries(c) \/ GenerateCreates(c)
            \/ Connect(c, "meta_connect", "get_key") \/ Connect(c, "act_connect", "activate")
            \/ Connect(c, "des_connect", "revoke") \/ Connect(c, "sign_connect", "sign")
            \/ Created(c) \/ Revoked(c)
  BY <1>10 DEF GenerateQueries, GenerateCreates, Connect, Created, Revoked, Release, Proceed
<1>11. CASE \/ Bails(c, "revoke") \/ Bails(c, "destroy") \/ KeyDestroyed(c)
            \/ SignFails(c) \/ SignPanics(c) \/ Signed(c)
  BY <1>11 DEF Bails, KeyDestroyed, SignFails, SignPanics, Signed, Answered, Granted,
               GenerateStates
<1> QED
  BY <1>3, <1>4, <1>5, <1>6, <1>7, <1>8, <1>9, <1>10, <1>11 DEF Continue

\* On a server that works generate() returns a key pair for every request that
\* is supported, and UnsupportedAlgorithm for every other (src/lib.rs, lines
\* 206-343): whichever of the two templates the server accepts, however many
\* callers there are, and whatever they do with the keys they were given.
THEOREM GeneratesOnWorkingServer ==
  ASSUME WorkingServer
  PROVE  Spec => GenerateSucceeds
<1> DEFINE Ends(c) == pc[c] \in GenerateStates /\ local[c].via = "generate" /\ pc'[c] = "idle"
           Step == \A c \in Callers : Ends(c) =>
                     ret'[c] = IF SupportedRequest(local[c]) THEN "Ok" ELSE "Unsupported"
<1>1. WInv /\ [Next \/ Finished]_vars => [Step]_vars
  <2> SUFFICES ASSUME WInv, Next \/ Finished, NEW c \in Callers, Ends(c)
               PROVE  ret'[c] = IF SupportedRequest(local[c]) THEN "Ok" ELSE "Unsupported"
    OBVIOUS
  <2>1. pc[c] # "idle"
    BY DEF GenerateStates
  <2>2. PICK d \in Callers : Start(d) \/ Continue(d) \/ Serve(d)
    BY <2>1 DEF Next, Finished
  <2>3. ~Serve(d)
    BY <2>1, ServerSteps DEF WInv
  <2>4. c = d /\ Continue(c)
    BY <2>1, <2>2, <2>3, CallerKeeps, StartMakesNothing DEF Keeps, Others, WInv
  <2> QED
    BY <2>4, EndsWell
<1>2. WInv /\ [Next \/ Finished]_vars => WInv'
  BY WorkingNext
<1>3. Spec => [][Step]_vars
  <2> HIDE DEF Step
  <2> QED
    BY <1>1, <1>2, WorkingInit, PTL DEF Spec
<1> QED
  BY <1>3 DEF GenerateSucceeds
=============================================================================
