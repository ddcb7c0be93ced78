----------------------------- MODULE SignQueue ------------------------------
(***************************************************************************)
(* A SignQueue, filled by KeyPair::sign_raw_enqueue() and emptied by       *)
(* KeyPair::sign_raw_submit_queue() (src/key_pair.rs).  Any KeyPair may be *)
(* used for either, and the queue does not remember which one an item came *)
(* from: the request in the item names a private key and an algorithm, the *)
(* KeyPair that submits decides on the server and on how signatures are    *)
(* read.  The queue is borrowed mutably by both, so that they never        *)
(* overlap; other users of the servers revoke keys at any time.            *)
(***************************************************************************)
EXTENDS Algorithms, Sequences, FiniteSets

CONSTANTS KeyPairs,    \* [id, server, kind, alg]: kind is that of the key itself
          MaxItems,    \* bound: items enqueued in a behaviour
          MaxSubmits,  \* bound: submissions in a behaviour
          Faults       \* "connect", "network", "odd" and "revoked" may happen

ASSUME KeyPairsAssumption ==
  /\ \A k \in KeyPairs : k.kind \in KeyKinds /\ k.alg \in SecurityAlgorithms
  /\ \A k, l \in KeyPairs : k.id = l.id /\ k.server = l.server => k.kind = l.kind
ASSUME BoundsAssumption == MaxItems \in Nat /\ MaxSubmits \in Nat
ASSUME FaultsAssumption == Faults \subseteq {"connect", "network", "odd", "revoked"}

VARIABLES pc,        \* "idle", "connect" or "batch"
          queue,     \* the items waiting: [id, by]
          via,       \* the KeyPair that submits
          batch,     \* the items sent in the request
          reply,     \* the results received for them
          ret,       \* what the last call returned
          enqueued,  \* items enqueued so far
          submits,   \* submissions so far
          active,    \* the keys that servers sign with: <<server, id>>
          signed     \* how often the data of each item has been signed
vars == <<pc, queue, via, batch, reply, ret, enqueued, submits, active, signed>>

Keys == {<<k.server, k.id>> : k \in KeyPairs}
KindOf(key) == (CHOOSE k \in KeyPairs : <<k.server, k.id>> = key).kind
ItemIds == 1 .. MaxItems

\* Only requests that sign_pre() could make are queued.
CanAsk(k) == HasAlgInfo(k.alg)
Items == [id : ItemIds, by : {k \in KeyPairs : CanAsk(k)}]

\* The result of an item: a signature, or why there is none.
Signatures == [res : {"Ok"}, key : Keys, alg : SecurityAlgorithms, data : ItemIds]
NoSignature(res) == [res |-> res]
Results == Signatures \cup {NoSignature(r) : r \in {"Failed", "Odd"}}
Pending == [status |-> "Pending", results |-> <<>>]

\* What sign_raw() returns for the data of an item: the label, by which a
\* signature is read, is the algorithm of the KeyPair.
Returned(label, key, data) == [label |-> label, key |-> key, data |-> data]
NoReturn(status) == [status |-> status, sigs |-> <<>>]

TypeOK ==
  /\ pc \in {"idle", "connect", "batch"}
  /\ queue \in Seq(Items) /\ batch \in Seq(Items)
  /\ via \in KeyPairs
  /\ reply.status \in {"Pending", "Ok", "NetError"} /\ reply.results \in Seq(Results)
  /\ ret.status \in {"None", "Queued", "Ok", "Err", "Panic"}
  /\ ret.sigs \in Seq([label : SecurityAlgorithms, key : Keys, data : ItemIds])
  /\ enqueued \in 0 .. MaxItems /\ submits \in 0 .. MaxSubmits
  /\ active \subseteq Keys
  /\ signed \in [ItemIds -> 0 .. MaxSubmits]

Init ==
  /\ pc = "idle" /\ queue = <<>> /\ batch = <<>>
  /\ via \in KeyPairs
  /\ reply = Pending
  /\ ret = NoReturn("None")
  /\ enqueued = 0 /\ submits = 0
  /\ active = Keys
  /\ signed = [i \in ItemIds |-> 0]
-----------------------------------------------------------------------------
\* Bug: whether the library can sign with the algorithm is not checked.
EnqueueUnchecked(k) ==
  /\ pc = "idle"
  /\ enqueued < MaxItems
  /\ enqueued' = enqueued + 1
  /\ queue' = Append(queue, [id |-> enqueued + 1, by |-> k])
  /\ ret' = NoReturn("Queued")
  /\ UNCHANGED <<pc, via, batch, reply, submits, active, signed>>

\* sign_pre() refuses an algorithm the library cannot sign with.
Enqueue(k) ==
  /\ pc = "idle"
  /\ enqueued < MaxItems
  /\ \/ /\ CanAsk(k)
        /\ enqueued' = enqueued + 1
        /\ queue' = Append(queue, [id |-> enqueued + 1, by |-> k])
        /\ ret' = NoReturn("Queued")
     \/ /\ ~CanAsk(k)
        /\ ret' = NoReturn("Err")
        /\ UNCHANGED <<enqueued, queue>>
  /\ UNCHANGED <<pc, via, batch, reply, submits, active, signed>>

Submit(k) ==
  /\ pc = "idle"
  /\ submits < MaxSubmits
  /\ submits' = submits + 1
  /\ pc' = "connect"
  /\ via' = k
  /\ ret' = NoReturn("None")
  /\ UNCHANGED <<queue, batch, reply, enqueued, active, signed>>

Return(r) ==
  /\ pc' = "idle"
  /\ ret' = r
  /\ batch' = <<>>
  /\ reply' = Pending
  /\ UNCHANGED <<via, enqueued, submits, active, signed>>

\* Bugs: the queue is emptied before there is a connection, or kept until the
\* answer is there.
ConnectFailsDrained ==
  /\ "connect" \in Faults
  /\ pc = "connect"
  /\ queue' = <<>>
  /\ Return(NoReturn("Err"))
ConnectKeeping ==
  /\ pc = "connect"
  /\ pc' = "batch"
  /\ batch' = queue
  /\ UNCHANGED <<queue, via, reply, ret, enqueued, submits, active, signed>>

\* The pool is asked before the queue is touched.
ConnectFails ==
  /\ "connect" \in Faults
  /\ pc = "connect"
  /\ Return(NoReturn("Err"))
  /\ UNCHANGED queue

\* The queue is emptied before the request goes out.
Connect ==
  /\ pc = "connect"
  /\ pc' = "batch"
  /\ batch' = queue
  /\ queue' = <<>>
  /\ UNCHANGED <<via, reply, ret, enqueued, submits, active, signed>>

-----------------------------------------------------------------------------
(* The server of the pool of the submitting KeyPair, and the network.      *)

KeyAsked(item) == <<via.server, item.by.id>>
CanSign(item) ==
  /\ KeyAsked(item) \in active
  /\ CryptoAlg(KindOf(KeyAsked(item))) = CryptoAlg(AlgInfo(item.by.alg).kind)
Executed(item) ==
  IF CanSign(item)
  THEN [res |-> "Ok", key |-> KeyAsked(item), alg |-> item.by.alg, data |-> item.id]
  ELSE NoSignature("Failed")

\* Items are executed in order.  By the Batch Error Continuation Option, a
\* server stops at the first one that fails, or goes on.
Stops(b, n) ==
  \/ n = Len(b)
  \/ n \in 1 .. Len(b) /\ ~CanSign(b[n]) /\ \A i \in 1 .. n - 1 : CanSign(b[i])

Execute(n) ==
  signed' = [d \in ItemIds |->
    signed[d] + Cardinality({i \in 1 .. n : batch[i].id = d /\ CanSign(batch[i])})]

\* odd: the result of one item has another payload, or none.
OddOnes(n) == {0} \cup {i \in 1 .. n : "odd" \in Faults}
Serve ==
  /\ pc = "batch"
  /\ reply = Pending
  /\ \E n \in 0 .. Len(batch) :
       /\ Stops(batch, n)
       /\ Execute(n)
       /\ \E odd \in OddOnes(n) :
            reply' = [status |-> "Ok",
                      results |-> [i \in 1 .. n |-> IF i = odd THEN NoSignature("Odd")
                                                    ELSE Executed(batch[i])]]
  /\ UNCHANGED <<pc, queue, via, batch, ret, enqueued, submits, active>>

\* The request or the answer is lost, before or after the server executes it.
Lose ==
  /\ "network" \in Faults
  /\ pc = "batch"
  /\ reply = Pending
  /\ reply' = [status |-> "NetError", results |-> <<>>]
  /\ \/ UNCHANGED signed
     \/ \E n \in 0 .. Len(batch) : Stops(batch, n) /\ Execute(n)
  /\ UNCHANGED <<pc, queue, via, batch, ret, enqueued, submits, active>>

Revoke ==
  /\ "revoked" \in Faults
  /\ \E key \in active : active' = active \ {key}
  /\ UNCHANGED <<pc, queue, via, batch, reply, ret, enqueued, submits, signed>>

-----------------------------------------------------------------------------
\* The results are read in order: the first that is an error, or whose
\* signature the algorithm of the submitting KeyPair cannot read, ends the
\* call, and one without the payload of a signature panics.
Reads(r) ==
  r.res = "Ok" /\ HasAlgInfo(via.alg) /\ SignatureParses(via.alg, KindOf(r.key))
Panics(i) ==
  reply.results[i].res = "Odd" /\ \A j \in 1 .. i - 1 : Reads(reply.results[j])

\* Bug: results that cannot be read are skipped.
SubmittedSkipping ==
  /\ pc = "batch"
  /\ reply.status = "Ok"
  /\ LET good == SelectSeq(reply.results, LAMBDA r : Reads(r))
     IN Return([status |-> "Ok",
                sigs |-> [i \in 1 .. Len(good) |->
                            Returned(via.alg, good[i].key, good[i].data)]])
  /\ UNCHANGED queue

Submitted ==
  /\ pc = "batch"
  /\ reply.status = "Ok"
  /\ LET rs == reply.results
         sig(i) == Returned(via.alg, rs[i].key, rs[i].data)
     IN \/ /\ \A i \in DOMAIN rs : Reads(rs[i])
           /\ Return([status |-> "Ok", sigs |-> [i \in DOMAIN rs |-> sig(i)]])
        \/ (\E i \in DOMAIN rs : Panics(i)) /\ Return(NoReturn("Panic"))
        \/ /\ \E i \in DOMAIN rs : ~Reads(rs[i])
           /\ ~\E i \in DOMAIN rs : Panics(i)
           /\ Return(NoReturn("Err"))
  /\ UNCHANGED queue

SubmitFails ==
  /\ pc = "batch"
  /\ reply.status = "NetError"
  /\ Return(NoReturn("Err"))
  /\ UNCHANGED queue

Finished == pc = "idle" /\ submits = MaxSubmits /\ enqueued = MaxItems /\ UNCHANGED vars

Next ==
  \/ \E k \in KeyPairs : Enqueue(k) \/ Submit(k)
  \/ ConnectFails \/ Connect \/ Serve \/ Lose \/ Revoke
  \/ Submitted \/ SubmitFails
Spec == Init /\ [][Next \/ Finished]_vars
-----------------------------------------------------------------------------
(* Properties.                                                             *)

\* The data of an item is signed at most once, although submissions are tried
\* again when a connection cannot be had or an answer is lost
\* (src/key_pair.rs, lines 204-223).
SignedAtMostOnce == \A d \in ItemIds : signed[d] <= 1

\* An item stays in the queue, in its place, until a request takes all of the
\* queue to a server: a failure to connect loses nothing (src/key_pair.rs,
\* lines 205-214).
ItemsLeaveInRequests ==
  [][\/ queue' = queue
     \/ batch' = queue /\ queue' = <<>>
     \/ Len(queue') > Len(queue) /\ SubSeq(queue', 1, Len(queue)) = queue]_vars

\* What sign_raw() of the KeyPair that enqueued an item returns for it.
Direct(item) == Returned(item.by.alg, <<item.by.server, item.by.id>>, item.id)
InPlaceOf(items) == [i \in 1 .. Len(items) |-> Direct(items[i])]

\* A submission that succeeds returns, for the items of KeyPairs that share the
\* server and the algorithm of the one that submits, what sign_raw() would have,
\* one signature for each item and in the order of the queue, even when some
\* items failed or keys were revoked meanwhile (src/key_pair.rs, lines 225-236).
Alike(item) == item.by.server = via.server /\ item.by.alg = via.alg
LikeSignRawIfAlike ==
  [][/\ pc = "batch" /\ ret'.status = "Ok"
     /\ \A i \in 1 .. Len(batch) : Alike(batch[i])
     => ret'.sigs = InPlaceOf(batch)]_vars

\* Whatever KeyPairs fill a queue and submit it, what is returned as a signature
\* for ECDSAP256SHA256 was made by a key on that curve: integers too long for
\* its halves fail the submission and are never cut (src/key_pair.rs, lines
\* 225-236; src/algorithms/ecdsa.rs, lines 63-80).
QueuedSignaturesAreNotCut ==
  \A i \in DOMAIN ret.sigs :
    ret.sigs[i].label = "ECDSAP256SHA256" => KindOf(ret.sigs[i].key) = "P-256"

-----------------------------------------------------------------------------
(* What the documentation says and the code does not do.                   *)

\* "Like SignRaw::sign_raw() but deferred" (src/key_pair.rs, line 177): the same
\* for the items of any KeyPairs.
LikeSignRaw ==
  [][pc = "batch" /\ ret'.status = "Ok" => ret'.sigs = InPlaceOf(batch)]_vars
=============================================================================
