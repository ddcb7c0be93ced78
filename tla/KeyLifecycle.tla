---------------------------- MODULE KeyLifecycle ----------------------------
(***************************************************************************)
(* Threads of an application that share one connection pool and call       *)
(* generate() and destroy() (src/lib.rs), KeyPair::from_metadata(),        *)
(* KeyPair::from_urls() and KeyPair::sign_raw() (src/key_pair.rs).         *)
(*                                                                         *)
(* Each of these calls is a sequence of blocking steps: taking a           *)
(* connection from the pool, and exchanging one request for one response   *)
(* with the server.  pc[c] says which of them caller c is blocked in; what *)
(* the code does between two of them touches nothing shared and is one     *)
(* action with the step that ends the wait.                                *)
(***************************************************************************)
EXTENDS Hsm, FiniteSets

CONSTANTS Callers,     \* the threads
          PoolSize,    \* connections the pool may have open
          MaxCalls,    \* bound: calls made in a behaviour
          Operations,  \* the calls the application makes
          Params,      \* what it generates: [alg, bits, flags]
          ImportAlgs,  \* the algorithms it gives to from_metadata()
          Faults       \* what may go wrong

ASSUME PoolSizeAssumption == PoolSize \in Nat \ {0}
ASSUME MaxCallsAssumption == MaxCalls \in Nat
ASSUME ParamsAssumption ==
  /\ Params \subseteq [alg : SupportedAlgorithms, bits : Nat, flags : Nat]
  /\ \A r \in Params : IsGenerateParams(r.alg, r.bits)
ASSUME ImportAlgsAssumption == ImportAlgs \subseteq SecurityAlgorithms

\* connect: get() on the pool fails; network: a request or a response is lost;
\* server: the server refuses what it could grant; odd: the response is not of
\* the type asked for; strangers: keys are destroyed that no KeyPair refers to.
FaultKinds == {"connect", "network", "server", "odd", "strangers"}
ASSUME FaultsAssumption == Faults \subseteq FaultKinds

VARIABLES pc,          \* where each caller is
          conn,        \* whether it holds a pooled connection
          resp,        \* the response to the request it has sent
          local,       \* the parameters and variables of its call
          ret,         \* what its last call returned
          keypairs,    \* the KeyPair values returned to the application
          signatures,  \* the signatures returned, with the KeyPair used
          destroyed,   \* the ids for which destroy() returned Ok
          made,        \* the pairs the server created for the current call
          calls        \* the number of calls made so far

clientVars == <<pc, conn, resp, local, ret>>
appVars == <<keypairs, signatures, destroyed>>
vars == <<hsmVars, clientVars, appVars, made, calls>>

ConnectStates ==
  {"gen_connect", "meta_connect", "act_connect", "des_connect", "sign_connect"}
RequestStates ==
  {"query", "create", "recreate", "get_key", "activate", "revoke", "destroy", "sign"}
PcValues == {"idle"} \cup ConnectStates \cup RequestStates

Pending == [status |-> "Pending", pair |-> NoPair]
Replies ==
  [status : {"Pending", "Ok", "ServerError", "NetError", "Odd"},
   pair : Pairs \cup {NoPair}]

Vias == {"generate", "from_metadata", "from_urls"}
Ids == KeyIds \cup {NoId}
\* key: the pair whose public key the cached DNSKEY holds.
Locals ==
  [via : Vias, alg : SecurityAlgorithms, bits : Nat, flags : Nat,
   priv : Ids, pub : Ids, key : Pairs \cup {NoPair}]
NoLocal ==
  [via |-> "generate", alg |-> "OTHER", bits |-> NoLength, flags |-> 0,
   priv |-> NoId, pub |-> NoId, key |-> NoPair]
KeyPairs ==
  [via : Vias, alg : SecurityAlgorithms, flags : Nat, priv : Ids, pub : Ids,
   key : Pairs \cup {NoPair}]
KeyPairOf(l) ==
  [via |-> l.via, alg |-> l.alg, flags |-> l.flags, priv |-> l.priv,
   pub |-> l.pub, key |-> l.key]
WithIds(l, priv, pub) == [l EXCEPT !.priv = priv, !.pub = pub]
WithKey(l, k) == [l EXCEPT !.key = k]

\* How a call ends: "Unsupported" is GenerateError::UnsupportedAlgorithm, which an
\* application may tell apart, "Failed" any other error.
Outcomes == {"None", "Ok", "Unsupported", "Failed", "Panic"}

TypeOK ==
  /\ HsmTypeOK
  /\ pc \in [Callers -> PcValues]
  /\ conn \in [Callers -> BOOLEAN]
  /\ resp \in [Callers -> Replies]
  /\ local \in [Callers -> Locals]
  /\ ret \in [Callers -> Outcomes]
  /\ keypairs \subseteq KeyPairs
  /\ signatures \subseteq [keypair : KeyPairs, pair : Pairs]
  /\ destroyed \subseteq KeyIds
  /\ made \in [Callers -> SUBSET Pairs]
  /\ calls \in 0 .. MaxCalls

Init ==
  /\ HsmInit
  /\ pc = [c \in Callers |-> "idle"]
  /\ conn = [c \in Callers |-> FALSE]
  /\ resp = [c \in Callers |-> Pending]
  /\ local = [c \in Callers |-> NoLocal]
  /\ ret = [c \in Callers |-> "None"]
  /\ keypairs = {}
  /\ signatures = {}
  /\ destroyed = {}
  /\ made = [c \in Callers |-> {}]
  /\ calls = 0

-----------------------------------------------------------------------------
(* Steps the calls are made of.                                            *)

\* The pool's get() returns while fewer than PoolSize connections are lent.
Lent == {c \in Callers : conn[c]}
CanConnect == Cardinality(Lent) < PoolSize

\* Returning drops the connection, if any, and it goes back to the pool.
Return(c, r) ==
  /\ pc' = [pc EXCEPT ![c] = "idle"]
  /\ conn' = [conn EXCEPT ![c] = FALSE]
  /\ resp' = [resp EXCEPT ![c] = Pending]
  /\ local' = [local EXCEPT ![c] = NoLocal]
  /\ ret' = [ret EXCEPT ![c] = r]
  /\ UNCHANGED <<hsmVars, made, calls>>

Enter(c, label, l) ==
  /\ pc[c] = "idle"
  /\ calls < MaxCalls
  /\ calls' = calls + 1
  /\ pc' = [pc EXCEPT ![c] = label]
  /\ local' = [local EXCEPT ![c] = l]
  /\ ret' = [ret EXCEPT ![c] = "None"]
  /\ made' = [made EXCEPT ![c] = {}]
  /\ UNCHANGED <<hsmVars, conn, resp, appVars>>

\* get() succeeds and the first request on the connection goes out.
Connect(c, from, to) ==
  /\ pc[c] = from
  /\ CanConnect
  /\ conn' = [conn EXCEPT ![c] = TRUE]
  /\ pc' = [pc EXCEPT ![c] = to]
  /\ UNCHANGED <<hsmVars, resp, local, ret, appVars, made, calls>>

\* get() fails: the server cannot be reached or no connection came free.
ConnectFails(c) ==
  /\ "connect" \in Faults
  /\ pc[c] \in ConnectStates
  /\ Return(c, "Failed")
  /\ UNCHANGED appVars

Answered(c, label) == pc[c] = label /\ resp[c].status # "Pending"
Granted(c, label) == pc[c] = label /\ resp[c].status = "Ok"

\* The response has been read and the next request follows on the same
\* connection.
Proceed(c, to) ==
  /\ pc' = [pc EXCEPT ![c] = to]
  /\ resp' = [resp EXCEPT ![c] = Pending]
  /\ UNCHANGED <<hsmVars, conn, local, ret, appVars, made, calls>>

\* Bug: the connection is not dropped.
ReleaseKeepingConnection(c, to, l) ==
  /\ pc' = [pc EXCEPT ![c] = to]
  /\ resp' = [resp EXCEPT ![c] = Pending]
  /\ local' = [local EXCEPT ![c] = l]
  /\ UNCHANGED <<hsmVars, conn, ret, appVars, made, calls>>

\* The response has been read and the connection is dropped before the next
\* one is taken from the pool.
Release(c, to, l) ==
  /\ pc' = [pc EXCEPT ![c] = to]
  /\ resp' = [resp EXCEPT ![c] = Pending]
  /\ conn' = [conn EXCEPT ![c] = FALSE]
  /\ local' = [local EXCEPT ![c] = l]
  /\ UNCHANGED <<hsmVars, ret, appVars, made, calls>>

\* An error answer that the caller passes on with "?".
Bails(c, label) ==
  /\ Answered(c, label)
  /\ resp[c].status # "Ok"
  /\ Return(c, "Failed")
  /\ UNCHANGED appVars

-----------------------------------------------------------------------------
(* generate()                                                              *)

ForGenerate(r) ==
  [via |-> "generate", alg |-> r.alg, bits |-> r.bits, flags |-> r.flags,
   priv |-> NoId, pub |-> NoId, key |-> NoPair]

Generate(c) ==
  /\ "generate" \in Operations
  /\ \E r \in Params :
       Enter(c, "gen_connect", ForGenerate(r))

\* The connection is there: an Edwards curve needs a query first, and the
\* length is checked before anything is created.
GenerateQueries(c) ==
  /\ pc[c] = "gen_connect"
  /\ local[c].alg \in EdAlgorithms
  /\ Connect(c, "gen_connect", "query")

GenerateCreates(c) ==
  /\ pc[c] = "gen_connect"
  /\ local[c].alg \notin EdAlgorithms
  /\ LengthPermitted(local[c].alg, local[c].bits)
  /\ Connect(c, "gen_connect", "create")

GenerateRejectsLength(c) ==
  /\ pc[c] = "gen_connect"
  /\ CanConnect
  /\ local[c].alg \notin EdAlgorithms
  /\ ~LengthPermitted(local[c].alg, local[c].bits)
  /\ Return(c, "Unsupported")
  /\ UNCHANGED appVars

\* The answer to the query: does the server have the Ed448/25519 extension?
Queried(c) ==
  /\ Granted(c, "query")
  /\ IF server.edExtension
     THEN Proceed(c, "create")
     ELSE Return(c, "Unsupported") /\ UNCHANGED appVars

\* Bugs: the second attempt follows a lost answer too, follows only that, or
\* follows the second attempt as well.
RetriesAfterAnyFailure(c) ==
  pc[c] = "create" /\ resp[c].status # "Ok" /\ AlgInfo(local[c].alg).curve # None
RetriesAfterLossOnly(c) ==
  pc[c] = "create" /\ resp[c].status = "NetError" /\ AlgInfo(local[c].alg).curve # None
RetriesForever(c) ==
  resp[c].status = "ServerError" /\ AlgInfo(local[c].alg).curve # None

\* A refusal of the first attempt is answered, for an elliptic curve, by a
\* second one that names the curve.
RetriesWithCurve(c) ==
  /\ pc[c] = "create"
  /\ resp[c].status = "ServerError"
  /\ AlgInfo(local[c].alg).curve # None

CreateFails(c) ==
  /\ Answered(c, "create") \/ Answered(c, "recreate")
  /\ resp[c].status # "Ok"
  /\ IF RetriesWithCurve(c)
     THEN Proceed(c, "recreate")
     ELSE Return(c, "Failed") /\ UNCHANGED appVars

\* Bugs: the public half is looked up instead of taken from the response; the
\* key is activated before its public half has been read.
CreatedLooksUpPublic(c) ==
  /\ Granted(c, "create") \/ Granted(c, "recreate")
  /\ \E q \in Pairs :
       /\ Exists(Public(q))
       /\ Release(c, "meta_connect",
                  WithIds(local[c], Private(resp[c].pair), Public(q)))
CreatedActivatesFirst(c) ==
  /\ Granted(c, "create") \/ Granted(c, "recreate")
  /\ Release(c, "act_connect",
             WithIds(local[c], Private(resp[c].pair), Public(resp[c].pair)))

\* Bug: the ids are taken out of a response of any type.
CreatedOfAnyType(c) ==
  /\ Answered(c, "create") \/ Answered(c, "recreate")
  /\ resp[c].status \in {"Ok", "Odd"}
  /\ Release(c, "meta_connect",
             WithIds(local[c], Private(resp[c].pair), Public(resp[c].pair)))

\* The client is dropped before from_metadata() asks the pool for another.
Created(c) ==
  /\ Granted(c, "create") \/ Granted(c, "recreate")
  /\ Release(c, "meta_connect",
             WithIds(local[c], Private(resp[c].pair), Public(resp[c].pair)))

\* Bug: the response is taken for one of another type.
ActivatedMisread(c) ==
  /\ Granted(c, "activate")
  /\ Return(c, "Failed")
  /\ UNCHANGED appVars

\* Bug: a refusal is taken to mean that the key is active already.
ActivatedTolerantly(c) ==
  /\ Answered(c, "activate")
  /\ resp[c].status \in {"Ok", "ServerError"}
  /\ keypairs' = keypairs \cup {KeyPairOf(local[c])}
  /\ UNCHANGED <<signatures, destroyed>>
  /\ Return(c, "Ok")

\* The last step: the private key is active and the key pair is returned.
Activated(c) ==
  /\ Granted(c, "activate")
  /\ keypairs' = keypairs \cup {KeyPairOf(local[c])}
  /\ UNCHANGED <<signatures, destroyed>>
  /\ Return(c, "Ok")

-----------------------------------------------------------------------------
(* KeyPair::from_metadata(), called by generate() and by the application.  *)

Import(via, alg, flags, priv, pub) ==
  [NoLocal EXCEPT !.via = via, !.alg = alg, !.flags = flags, !.priv = priv, !.pub = pub]

FromMetadata(c) ==
  /\ "from_metadata" \in Operations
  /\ \E a \in ImportAlgs, priv, pub \in {id \in KeyIds : Exists(id)} :
       Enter(c, "meta_connect", Import("from_metadata", a, 0, priv, pub))

\* Bug: the algorithms and flags of the URLs are not compared.
FromUrlsUnchecked(c) ==
  /\ "from_urls" \in Operations
  /\ \E k, l \in keypairs :
       Enter(c, "meta_connect",
             Import("from_urls", k.alg, k.flags, k.priv, l.pub))

\* from_urls(): URLs of key pairs the application has had before, of the same
\* pool.  URLs of different algorithms or flags are refused.
FromUrls(c) ==
  /\ "from_urls" \in Operations
  /\ \E k, l \in keypairs :
       IF k.alg = l.alg /\ k.flags = l.flags
       THEN Enter(c, "meta_connect",
                  Import("from_urls", k.alg, k.flags, k.priv, l.pub))
       ELSE /\ pc[c] = "idle"
            /\ calls < MaxCalls
            /\ calls' = calls + 1
            /\ ret' = [ret EXCEPT ![c] = "Failed"]
            /\ made' = [made EXCEPT ![c] = {}]
            /\ UNCHANGED <<hsmVars, pc, conn, resp, local, appVars>>

\* The public key has arrived: the connection is dropped on return from
\* for_key_id_and_dnssec_algorithm(), whatever came of the key.
Fetched(c) == WithDnskey(FromObject(local[c].alg, KeyObject(local[c].pub))).res
Located(c) == WithKey(local[c], resp[c].pair)

\* Bug: generate() returns as soon as the key pair has been located.
KeyFetchedReturns(c) ==
  /\ Granted(c, "get_key")
  /\ Fetched(c) = "Ok"
  /\ keypairs' = keypairs \cup {KeyPairOf(Located(c))}
  /\ UNCHANGED <<signatures, destroyed>>
  /\ Return(c, "Ok")

KeyFetched(c) ==
  /\ Granted(c, "get_key")
  /\ \/ /\ Fetched(c) = "Ok"
        /\ local[c].via = "generate"
        /\ Release(c, "act_connect", Located(c))
     \/ /\ Fetched(c) = "Ok"
        /\ local[c].via # "generate"
        /\ keypairs' = keypairs \cup {KeyPairOf(Located(c))}
        /\ UNCHANGED <<signatures, destroyed>>
        /\ Return(c, "Ok")
     \/ /\ Fetched(c) # "Ok"
        /\ Return(c, IF Fetched(c) = "Panic" THEN "Panic" ELSE "Failed")
        /\ UNCHANGED appVars

-----------------------------------------------------------------------------
(* destroy()                                                               *)

Destroyable ==
  {id \in KeyIds : \/ "strangers" \in Faults /\ Exists(id)
                   \/ \E k \in keypairs : id \in {k.priv, k.pub}}

DestroyKey(c) ==
  /\ "destroy" \in Operations
  /\ \E id \in Destroyable :
       Enter(c, "des_connect", WithIds(NoLocal, id, NoId))

Revoked(c) == Granted(c, "revoke") /\ Proceed(c, "destroy")

\* Bug: errors of the request are ignored.
KeyDestroyedUnchecked(c) ==
  /\ Answered(c, "destroy")
  /\ destroyed' = destroyed \cup {local[c].priv}
  /\ UNCHANGED <<keypairs, signatures>>
  /\ Return(c, "Ok")

KeyDestroyed(c) ==
  /\ Granted(c, "destroy")
  /\ destroyed' = destroyed \cup {local[c].priv}
  /\ UNCHANGED <<keypairs, signatures>>
  /\ Return(c, "Ok")

-----------------------------------------------------------------------------
(* KeyPair::sign_raw()                                                     *)

SignRaw(c) ==
  /\ "sign_raw" \in Operations
  /\ \E k \in keypairs :
       /\ HasAlgInfo(k.alg)
       /\ Enter(c, "sign_connect",
                WithKey(Import(k.via, k.alg, k.flags, k.priv, k.pub), k.key))

\* sign_pre() fails before the pool is asked.
SignUnsupported(c) ==
  /\ "sign_raw" \in Operations
  /\ pc[c] = "idle"
  /\ calls < MaxCalls
  /\ \E k \in keypairs : ~HasAlgInfo(k.alg)
  /\ calls' = calls + 1
  /\ ret' = [ret EXCEPT ![c] = "Failed"]
  /\ made' = [made EXCEPT ![c] = {}]
  /\ UNCHANGED <<hsmVars, pc, conn, resp, local, appVars>>

\* sign_post() parses the signature as one of the algorithm of the KeyPair.
Signed(c) ==
  /\ Granted(c, "sign")
  /\ UNCHANGED <<keypairs, destroyed>>
  /\ \/ /\ SignatureParses(local[c].alg, kind[resp[c].pair])
        /\ signatures' = signatures \cup
             {[keypair |-> KeyPairOf(local[c]), pair |-> resp[c].pair]}
        /\ Return(c, "Ok")
     \/ /\ ~SignatureParses(local[c].alg, kind[resp[c].pair])
        /\ UNCHANGED signatures
        /\ Return(c, "Failed")

\* A payload that is not a signature reaches unreachable!() in sign_post().
SignPanics(c) ==
  /\ pc[c] = "sign"
  /\ resp[c].status = "Odd"
  /\ Return(c, "Panic")
  /\ UNCHANGED appVars

SignFails(c) ==
  /\ resp[c].status # "Odd"
  /\ Bails(c, "sign")

-----------------------------------------------------------------------------
(* The server's side of each exchange.  A response that is lost, or that   *)
(* holds a payload of another type, leaves the effect of the request       *)
(* behind.                                                                 *)

Waiting(c, label) == pc[c] = label /\ resp[c] = Pending

ReplyStatuses ==
  {"Ok"} \cup {s \in {"NetError"} : "network" \in Faults}
         \cup {s \in {"Odd"} : "odd" \in Faults}

Reply(c, p) ==
  /\ \E s \in ReplyStatuses :
       resp' = [resp EXCEPT ![c] =
                  [status |-> s, pair |-> IF s = "Ok" THEN p ELSE NoPair]]
  /\ UNCHANGED <<pc, conn, local, ret, appVars, calls>>

ServeQuery(c) ==
  /\ Waiting(c, "query")
  /\ Reply(c, NoPair)
  /\ UNCHANGED <<hsmVars, made>>

Template(c) == AlgInfo(local[c].alg).kind

ServeCreate(c) ==
  /\ Waiting(c, "create") \/ Waiting(c, "recreate")
  /\ AcceptsTemplate(Template(c), pc[c] = "recreate")
  /\ \E p \in Pairs :
       /\ CreateKeyPair(p, Template(c))
       /\ Reply(c, p)
       /\ made' = [made EXCEPT ![c] = @ \cup {p}]

ServeGet(c) ==
  /\ Waiting(c, "get_key")
  /\ Exists(local[c].pub)
  /\ Reply(c, PairOf(local[c].pub))
  /\ UNCHANGED <<hsmVars, made>>

ServeActivate(c) ==
  /\ Waiting(c, "activate")
  /\ CanActivate(local[c].priv)
  /\ SetObject(local[c].priv, "Active")
  /\ Reply(c, NoPair)
  /\ UNCHANGED made

ServeRevoke(c) ==
  /\ Waiting(c, "revoke")
  /\ CanRevoke(local[c].priv)
  /\ SetObject(local[c].priv, "Deactivated")
  /\ Reply(c, NoPair)
  /\ UNCHANGED made

ServeDestroy(c) ==
  /\ Waiting(c, "destroy")
  /\ CanDestroy(local[c].priv)
  /\ SetObject(local[c].priv, "Destroyed")
  /\ Reply(c, NoPair)
  /\ UNCHANGED made

ServeSign(c) ==
  /\ Waiting(c, "sign")
  /\ CanSign(local[c].priv, Template(c))
  /\ Reply(c, PairOf(local[c].priv))
  /\ UNCHANGED <<hsmVars, made>>

CouldGrant(c) ==
  \/ pc[c] = "query"
  \/ /\ pc[c] \in {"create", "recreate"}
     /\ HasRoom
     /\ AcceptsTemplate(Template(c), pc[c] = "recreate")
  \/ pc[c] = "get_key" /\ Exists(local[c].pub)
  \/ pc[c] = "activate" /\ CanActivate(local[c].priv)
  \/ pc[c] = "revoke" /\ CanRevoke(local[c].priv)
  \/ pc[c] = "destroy" /\ CanDestroy(local[c].priv)
  \/ pc[c] = "sign" /\ CanSign(local[c].priv, Template(c))

\* A request refused, lost, or answered with a payload of another type, without
\* having had its effect.
ServeWithout(c, status) ==
  /\ pc[c] \in RequestStates
  /\ resp[c] = Pending
  /\ resp' = [resp EXCEPT ![c] = [status |-> status, pair |-> NoPair]]
  /\ UNCHANGED <<hsmVars, pc, conn, local, ret, appVars, made, calls>>

Refuse(c) ==
  /\ ~CouldGrant(c) \/ "server" \in Faults
  /\ ServeWithout(c, "ServerError")
LoseRequest(c) == "network" \in Faults /\ ServeWithout(c, "NetError")
AnswerOddly(c) == "odd" \in Faults /\ ServeWithout(c, "Odd")

-----------------------------------------------------------------------------
Start(c) ==
  Generate(c) \/ FromMetadata(c) \/ FromUrls(c) \/ DestroyKey(c)
    \/ SignRaw(c) \/ SignUnsupported(c)

Continue(c) ==
  \/ ConnectFails(c)
  \/ GenerateQueries(c) \/ GenerateCreates(c) \/ GenerateRejectsLength(c)
  \/ Bails(c, "query") \/ Queried(c)
  \/ CreateFails(c) \/ Created(c)
  \/ Connect(c, "meta_connect", "get_key")
  \/ Bails(c, "get_key") \/ KeyFetched(c)
  \/ Connect(c, "act_connect", "activate")
  \/ Bails(c, "activate") \/ Activated(c)
  \/ Connect(c, "des_connect", "revoke")
  \/ Bails(c, "revoke") \/ Revoked(c)
  \/ Bails(c, "destroy") \/ KeyDestroyed(c)
  \/ Connect(c, "sign_connect", "sign")
  \/ SignFails(c) \/ SignPanics(c) \/ Signed(c)

Serve(c) ==
  \/ ServeQuery(c) \/ ServeCreate(c) \/ ServeGet(c) \/ ServeActivate(c)
  \/ ServeRevoke(c) \/ ServeDestroy(c) \/ ServeSign(c)
  \/ Refuse(c) \/ LoseRequest(c) \/ AnswerOddly(c)

\* All the calls have been made and have returned.
Finished ==
  /\ calls = MaxCalls
  /\ \A c \in Callers : pc[c] = "idle"
  /\ UNCHANGED vars

Next == \E c \in Callers : Start(c) \/ Continue(c) \/ Serve(c)
Spec == Init /\ [][Next \/ Finished]_vars

\* A thread keeps running, and the pool and the server answer: get() gives up
\* after the pool's timeout, a request after the connection's read timeout.
Fairness == \A c \in Callers : WF_vars(Continue(c)) /\ WF_vars(Serve(c))
FairSpec == Spec /\ Fairness
-----------------------------------------------------------------------------
(* Properties.                                                             *)

\* One call of generate() leaves at most one key pair at the server, whatever
\* is refused or lost, although it may ask twice; and none at all when it says
\* that the algorithm is not supported (src/lib.rs, lines 206-286).
OnePairPerCall ==
  \A c \in Callers :
    /\ \A p, q \in made[c] : p = q
    /\ ret[c] = "Unsupported" => made[c] = {}

\* The private key of a KeyPair that generate() returned has been activated:
\* it may have been revoked or destroyed since, it was never left inactive
\* (src/lib.rs, lines 321-343).
DeliveredAreUsable ==
  \A k \in keypairs : k.via = "generate" =>
    object[k.priv] \in {"Active", "Deactivated", "Destroyed"}

\* The ids and the DNSKEY of a KeyPair that generate() returned are those of
\* the two halves of one pair of the kind asked for, with callers creating
\* keys at the same time and attempts repeated (src/lib.rs, lines 302-319).
KeyPairsMatch ==
  \A k \in keypairs : k.via = "generate" =>
    /\ k.priv = Private(k.key)
    /\ k.pub = Public(k.key)
    /\ kind[k.key] = AlgInfo(k.alg).kind

\* A signature returned by sign_raw() on a generated KeyPair verifies under the
\* DNSKEY that KeyPair has cached (src/key_pair.rs, lines 339-370).
SignaturesVerify ==
  \A s \in signatures : s.keypair.via = "generate" => s.pair = s.keypair.key

\* A KeyPair built from two URLs of generated KeyPairs, even of different ones,
\* refers to keys of the kind its algorithm needs (src/key_pair.rs, lines
\* 105-137).  The halves may still belong to different pairs.
UrlsKeepTheAlgorithm ==
  \A k \in keypairs : k.via = "from_urls" =>
    /\ kind[k.key] = AlgInfo(k.alg).kind
    /\ kind[PairOf(k.priv)] = AlgInfo(k.alg).kind

\* The DNSKEY of a KeyPair holds the public half that its public key id names:
\* ids given in the wrong order never publish a private key, be it in a format
\* whose octets are taken as they are (src/public_key.rs, lines 114-121 and
\* 182-188).
OnlyPublicHalvesArePublished == \A k \in keypairs : k.pub = Public(k.key)

\* A signature returned for a curve was not made with a wider one, even if the
\* private key of the KeyPair is not that of its public key: the parser does
\* not cut integers to the size (src/algorithms/ecdsa.rs, lines 29-83).
SignaturesAreNotCut ==
  \A s \in signatures : s.keypair.alg = "ECDSAP256SHA256" => kind[s.pair] = "P-256"

\* No caller keeps a connection while it waits for one, so that callers cannot
\* exhaust the pool waiting for each other (src/lib.rs, lines 290-293).
NoHoldAndWait == \A c \in Callers : pc[c] \in ConnectStates => ~conn[c]

\* When destroy() has returned Ok the key is gone, and stays gone whatever the
\* other callers do (src/lib.rs, lines 352-357).
DestroyedIsFinal == \A id \in destroyed : object[id] = "Destroyed"

\* A key becomes active only for a caller that holds the DNSKEY of its pair
\* already: a pair whose public key cannot be read is never activated
\* (src/lib.rs, lines 307-333).
ActivationAfterLocation ==
  [][\A p \in Pairs :
       object[Private(p)] = "PreActive" /\ object'[Private(p)] = "Active" =>
         \E c \in Callers : /\ pc[c] = "activate"
                            /\ local[c].priv = Private(p)
                            /\ local[c].key = p]_vars

\* generate() fails and leaves an active key behind only when the activation was
\* carried out and its answer could not be read: it got lost, or held a payload
\* of another type.  A refusal, at any step, leaves nothing active (src/lib.rs,
\* lines 321-343).
FailureLeavesNothingActive ==
  [][\A c \in Callers :
       /\ pc[c] # "idle" /\ pc'[c] = "idle" /\ ret'[c] # "Ok"
       /\ \E p \in made[c] : object[Private(p)] = "Active"
       => pc[c] = "activate" /\ resp[c].status \in {"NetError", "Odd"}]_vars

\* What generate() should manage: RSA keys of the lengths RFC 5702 permits
\* (sections 2.1 and 2.2, quoted in src/algorithms/mod.rs, lines 51 and 62), the
\* two curves of ECDSA, and Edwards curves where the server has the extension.
SupportedLength(alg, bits) ==
  /\ alg = "RSASHA256" => bits \in 512 .. 4096
  /\ alg = "RSASHA512" => bits \in 1024 .. 4096
SupportedRequest(l) ==
  /\ SupportedLength(l.alg, l.bits)
  /\ l.alg \in EdAlgorithms => server.edExtension

\* Nothing but the caller's request stands between generate() and Ok on a
\* server that works, be it one that needs the curve named or one that refuses
\* it, while other callers restore, use and destroy what they were given; and a
\* request is called unsupported exactly when it is (src/lib.rs, lines 206-240
\* and 257-263).
GenerateStates ==
  {"gen_connect", "query", "create", "recreate", "meta_connect", "get_key",
   "act_connect", "activate"}
GenerateSucceeds ==
  [][\A c \in Callers :
       pc[c] \in GenerateStates /\ local[c].via = "generate" /\ pc'[c] = "idle" =>
         ret'[c] = IF SupportedRequest(local[c]) THEN "Ok" ELSE "Unsupported"]_vars

\* Every call returns (src/lib.rs, lines 290-293, and the timeouts of the pool
\* and of its connections).
EveryCallReturns == \A c \in Callers : pc[c] # "idle" ~> pc[c] = "idle"

-----------------------------------------------------------------------------
(* The abstract specification: of the server the private halves, of the    *)
(* application what came of generated KeyPairs, and no thread, connection  *)
(* or message.                                                             *)

Stage == [p \in Pairs |-> object[Private(p)]]
OfGenerate == {k \in keypairs : k.via = "generate"}
SignedByGenerated == {s \in signatures : s.keypair.via = "generate"}
Gone == {p \in Pairs : Private(p) \in destroyed}

Custody == INSTANCE KeyCustody WITH
  stage <- Stage, delivered <- OfGenerate, signed <- SignedByGenerated, gone <- Gone

\* Calls of generate(), sign_raw() and destroy() that interleave, retry and fail
\* amount to what KeyCustody promises: a pair is handed over once, activated and
\* whole, after which only signing, revocation and destruction happen to it
\* (src/lib.rs, lines 128-357; src/key_pair.rs, lines 339-370).
CustodyKept == Custody!Spec

-----------------------------------------------------------------------------
(* What comments in the source say and the code does not do.               *)

\* "Both Securosys and Fortanix DSM return a DER-encoded ASN.1 X.509 object but
\* Fortanix sets Key Format Type to Raw" (src/public_key.rs, line 169): the
\* key of a pair just generated can be read back.
GeneratedKeyIsLocated ==
  [][\A c \in Callers :
       pc[c] = "get_key" /\ Granted(c, "get_key") /\ local[c].via = "generate" =>
         pc'[c] \in {"get_key", "act_connect"}]_vars
=============================================================================
