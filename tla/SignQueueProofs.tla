-------------------------- MODULE SignQueueProofs ---------------------------
(***************************************************************************)
(* Proofs of the properties of SignQueue, for any KeyPairs, any bounds and *)
(* any faults.                                                             *)
(*                                                                         *)
(* Of the invariant, Unsent is what makes signatures unique: an item is    *)
(* in one place, the queue or the request, and nothing has signed its data *)
(* before the server executes that request; Answers is what makes          *)
(* positions meaningful: a result is that of the item in its place, and    *)
(* fewer results than items end in one that is no signature.               *)
(***************************************************************************)
EXTENDS SignQueue, FiniteSetTheorems, TLAPS

\* Each item at one place only, and put there by a call.
Single(items) ==
  \A i, j \in 1 .. Len(items) : items[i].id = items[j].id => i = j
Known(items) == \A i \in 1 .. Len(items) : items[i].id <= enqueued
Unsigned(items) == \A i \in 1 .. Len(items) : signed[items[i].id] = 0

Unsent ==
  /\ Single(queue) /\ Known(queue) /\ Unsigned(queue)
  /\ Single(batch) /\ Known(batch)
  /\ reply.status = "Pending" => Unsigned(batch)
  /\ \A d \in ItemIds : d > enqueued => signed[d] = 0

Places ==
  /\ pc = "batch" => queue = <<>>
  /\ pc # "batch" => batch = <<>> /\ reply.status = "Pending"
  /\ pc # "idle" => submits > 0 /\ ret.status = "None"
  /\ \A d \in ItemIds : signed[d] > 0 => submits > 0

SignatureOf(item) ==
  [res |-> "Ok", key |-> KeyAsked(item), alg |-> item.by.alg, data |-> item.id]
Answers ==
  reply.status = "Ok" =>
    LET rs == reply.results
    IN /\ Len(rs) <= Len(batch)
       /\ \A i \in 1 .. Len(rs) : rs[i].res = "Ok" => rs[i] = SignatureOf(batch[i])
       /\ Len(rs) < Len(batch) => rs # <<>> /\ rs[Len(rs)].res # "Ok"

IInv == TypeOK /\ SignedAtMostOnce /\ Unsent /\ Places /\ Answers

-----------------------------------------------------------------------------
LEMMA ItemTypes ==
  ASSUME NEW item \in Items
  PROVE  /\ item.id \in ItemIds /\ item.by \in KeyPairs
         /\ item.by.alg \in SecurityAlgorithms
  BY KeyPairsAssumption DEF Items

LEMMA NewItem ==
  ASSUME NEW k \in KeyPairs, CanAsk(k), NEW d \in ItemIds
  PROVE  [id |-> d, by |-> k] \in Items
  BY DEF Items

LEMMA EmptyTypes == <<>> \in Seq(Items) /\ <<>> \in Seq(Results)
  OBVIOUS

\* The items of a request, of which any has data of its own, that the server
\* executes up to the n-th.
Of(d, n) == {i \in 1 .. n : batch[i].id = d /\ CanSign(batch[i])}

LEMMA AtMostOne ==
  ASSUME Single(batch), NEW d, NEW n \in 0 .. Len(batch), batch \in Seq(Items)
  PROVE  /\ Cardinality(Of(d, n)) \in {0, 1}
         /\ (\A i \in 1 .. Len(batch) : batch[i].id # d) => Cardinality(Of(d, n)) = 0
<1>1. CASE Of(d, n) = {}
  BY <1>1, FS_EmptySet
<1>2. CASE Of(d, n) # {}
  <2>1. PICK i \in Of(d, n) : TRUE
    BY <1>2
  <2>2. i \in 1 .. Len(batch) /\ batch[i].id = d
    BY <2>1 DEF Of
  <2>3. Of(d, n) = {i}
    BY <2>1, <2>2 DEF Of, Single
  <2>4. Cardinality({i}) = 1
    BY FS_Singleton
  <2> QED
    BY <2>2, <2>3, <2>4
<1> QED
  BY <1>1, <1>2

\* The server signs, of what it has been asked to, what it has not signed before.
LEMMA ExecuteOnce ==
  ASSUME IInv, pc = "batch", reply.status = "Pending", NEW n \in 0 .. Len(batch),
         Execute(n)
  PROVE  /\ signed' \in [ItemIds -> 0 .. MaxSubmits]
         /\ \A d \in ItemIds : signed'[d] <= 1
         /\ \A d \in ItemIds : d > enqueued => signed'[d] = signed[d]
<1>1. Single(batch) /\ Known(batch) /\ Unsigned(batch) /\ batch \in Seq(Items)
  BY DEF IInv, TypeOK, Unsent
<1>2. \A d \in ItemIds : signed'[d] = signed[d] + Cardinality(Of(d, n))
  BY DEF Execute, Of
<1>3. signed' = [d \in ItemIds |-> signed'[d]]
  BY DEF Execute
<1>4. ASSUME NEW d \in ItemIds
      PROVE  signed'[d] \in {0, 1} /\ (d > enqueued => signed'[d] = signed[d])
  <2>1. signed[d] \in {0, 1}
    BY BoundsAssumption DEF IInv, TypeOK, SignedAtMostOnce
  <2>2. Cardinality(Of(d, n)) \in {0, 1}
    BY <1>1, AtMostOne
  <2>3. CASE \E i \in 1 .. Len(batch) : batch[i].id = d
    <3>1. PICK i \in 1 .. Len(batch) : batch[i].id = d
      BY <2>3
    <3>2. signed[d] = 0
      BY <1>1, <3>1, Zenon DEF Unsigned
    <3>3. batch[i].id <= enqueued
      BY <1>1, <3>1, Zenon DEF Known
    <3>4. ~(d > enqueued)
      <4>1. enqueued \in Nat /\ d \in Nat
        BY DEF IInv, TypeOK, ItemIds
      <4>2. QED
        BY <3>1, <3>3, <4>1
    <3> QED
      BY <1>2, <2>2, <3>2, <3>4
  <2>4. CASE ~\E i \in 1 .. Len(batch) : batch[i].id = d
    <3>1. Cardinality(Of(d, n)) = 0
      BY <1>1, <2>4, AtMostOne
    <3> QED
      BY <1>2, <2>1, <3>1
  <2> QED
    BY <2>3, <2>4
<1>5. {0, 1} \subseteq 0 .. MaxSubmits
  BY BoundsAssumption DEF IInv, TypeOK, Places
<1>6. signed' \in [ItemIds -> 0 .. MaxSubmits]
  BY <1>3, <1>4, <1>5
<1>7. \A d \in ItemIds : signed'[d] <= 1
  BY <1>4
<1> QED
  BY <1>4, <1>6, <1>7

-----------------------------------------------------------------------------
(* Every step keeps the invariant.                                         *)

LEMMA EnqueueStep ==
  ASSUME IInv, NEW k \in KeyPairs, Enqueue(k)
  PROVE  IInv'
<1> DEFINE item == [id |-> enqueued + 1, by |-> k]
<1>1. /\ pc = "idle" /\ pc' = "idle" /\ batch = <<>> /\ reply.status = "Pending"
      /\ UNCHANGED <<via, batch, reply, submits, active, signed>>
  BY DEF Enqueue, IInv, Places
<1>2. CASE ~CanAsk(k)
  <2>1. UNCHANGED <<queue, enqueued>> /\ ret' = NoReturn("Err")
    BY <1>2 DEF Enqueue
  <2>2. TypeOK'
    BY <1>1, <2>1, EmptyTypes DEF IInv, TypeOK, NoReturn
  <2>3. SignedAtMostOnce' /\ Unsent'
    BY <1>1, <2>1 DEF IInv, SignedAtMostOnce, Unsent, Single, Known, Unsigned
  <2>4. Places' /\ Answers'
    BY <1>1, <2>1 DEF IInv, Places, Answers
  <2> QED
    BY <2>2, <2>3, <2>4 DEF IInv
<1>3. CASE CanAsk(k)
  <2>1. /\ queue' = Append(queue, item) /\ enqueued' = enqueued + 1
        /\ ret' = NoReturn("Queued") /\ enqueued < MaxItems
    BY <1>3 DEF Enqueue
  <2>2. enqueued + 1 \in ItemIds /\ enqueued' \in 0 .. MaxItems /\ enqueued \in Nat
    BY <2>1, BoundsAssumption DEF IInv, TypeOK, ItemIds
  <2>3. item \in Items /\ queue \in Seq(Items)
    BY <1>3, <2>2, NewItem DEF IInv, TypeOK
  <2>4. TypeOK'
    BY <1>1, <2>1, <2>2, <2>3 DEF IInv, TypeOK, NoReturn
  <2>5. /\ Len(queue') = Len(queue) + 1
        /\ queue'[Len(queue) + 1] = item
        /\ \A i \in 1 .. Len(queue) : queue'[i] = queue[i]
    BY <2>1, <2>3
  <2> HIDE DEF item
  <2>6. \A i \in 1 .. Len(queue) : queue[i] \in Items /\ queue[i].id \in ItemIds
    BY <2>3, ItemTypes
  <2>7. item.id = enqueued + 1
    BY DEF item
  <2>8. Single(queue)' /\ Known(queue)'
    BY <2>1, <2>2, <2>3, <2>5, <2>6, <2>7 DEF IInv, Unsent, Single, Known, ItemIds
  <2>9. signed[enqueued + 1] = 0
    BY <2>2 DEF IInv, Unsent
  <2>10. Unsigned(queue)'
    BY <1>1, <2>3, <2>5, <2>7, <2>9 DEF IInv, Unsent, Unsigned
  <2>11. \A d \in ItemIds : d > enqueued' => signed'[d] = 0
    BY <1>1, <2>1, <2>2 DEF IInv, Unsent, ItemIds
  <2>12. Single(batch)' /\ Known(batch)' /\ Unsigned(batch)'
    BY <1>1 DEF Single, Known, Unsigned
  <2>13. Unsent'
    BY <2>8, <2>10, <2>11, <2>12 DEF Unsent
  <2>14. SignedAtMostOnce' /\ Places' /\ Answers'
    BY <1>1 DEF IInv, SignedAtMostOnce, Places, Answers
  <2> QED
    BY <2>4, <2>13, <2>14 DEF IInv
<1> QED
  BY <1>2, <1>3

LEMMA SubmitStep ==
  ASSUME IInv, NEW k \in KeyPairs, Submit(k)
  PROVE  IInv'
<1>1. /\ pc = "idle" /\ pc' = "connect" /\ via' = k /\ ret' = NoReturn("None")
      /\ submits < MaxSubmits /\ submits' = submits + 1
      /\ batch = <<>> /\ reply.status = "Pending"
      /\ UNCHANGED <<queue, batch, reply, enqueued, active, signed>>
  BY DEF Submit, IInv, Places
<1>2. submits' \in 0 .. MaxSubmits /\ submits' > 0
  BY <1>1, BoundsAssumption DEF IInv, TypeOK
<1>3. TypeOK'
  BY <1>1, <1>2 DEF IInv, TypeOK, NoReturn
<1>4. Unsent' /\ SignedAtMostOnce'
  BY <1>1 DEF IInv, Unsent, Single, Known, Unsigned, SignedAtMostOnce
<1>5. Places' /\ Answers'
  BY <1>1, <1>2 DEF Places, Answers, NoReturn
<1> QED
  BY <1>3, <1>4, <1>5 DEF IInv

\* The end of a submission, with the queue as it is.
LEMMA ReturnStep ==
  ASSUME IInv, pc # "idle", NEW r, Return(r), UNCHANGED queue,
         r.status \in {"Ok", "Err", "Panic"},
         r.sigs \in Seq([label : SecurityAlgorithms, key : Keys, data : ItemIds])
  PROVE  IInv'
<1>1. /\ pc' = "idle" /\ ret' = r /\ batch' = <<>> /\ reply' = Pending
      /\ UNCHANGED <<queue, via, enqueued, submits, active, signed>>
  BY DEF Return
<1>2. TypeOK'
  BY <1>1 DEF IInv, TypeOK, Pending
<1>3. Unsent' /\ SignedAtMostOnce'
  BY <1>1 DEF IInv, Unsent, Single, Known, Unsigned, SignedAtMostOnce
<1>4. Places' /\ Answers'
  BY <1>1 DEF IInv, Places, Answers, Pending
<1> QED
  BY <1>2, <1>3, <1>4 DEF IInv

LEMMA FailureStep ==
  ASSUME IInv, pc # "idle", NEW status \in {"Err", "Panic"}, Return(NoReturn(status)),
         UNCHANGED queue
  PROVE  IInv'
<1> DEFINE r == NoReturn(status)
<1>1. /\ r.status \in {"Ok", "Err", "Panic"}
      /\ r.sigs \in Seq([label : SecurityAlgorithms, key : Keys, data : ItemIds])
  BY DEF NoReturn
<1> HIDE DEF r
<1> QED
  BY <1>1, ReturnStep DEF r

LEMMA ConnectStep == ASSUME IInv, Connect PROVE IInv'
<1>1. /\ pc = "connect" /\ pc' = "batch" /\ batch' = queue /\ queue' = <<>>
      /\ reply.status = "Pending" /\ submits > 0 /\ ret.status = "None"
      /\ UNCHANGED <<via, reply, ret, enqueued, submits, active, signed>>
  BY DEF Connect, IInv, Places
<1>2. TypeOK'
  BY <1>1 DEF IInv, TypeOK
<1>3. Unsent' /\ SignedAtMostOnce'
  BY <1>1 DEF IInv, Unsent, Single, Known, Unsigned, SignedAtMostOnce
<1>4. Places' /\ Answers'
  BY <1>1 DEF Places, Answers
<1> QED
  BY <1>2, <1>3, <1>4 DEF IInv

LEMMA RevokeStep == ASSUME IInv, Revoke PROVE IInv'
<1>1. /\ active' \subseteq active
      /\ UNCHANGED <<pc, queue, via, batch, reply, ret, enqueued, submits, signed>>
  BY DEF Revoke
<1>2. TypeOK'
  BY <1>1 DEF IInv, TypeOK
<1>3. Unsent' /\ SignedAtMostOnce'
  BY <1>1 DEF IInv, Unsent, Single, Known, Unsigned, SignedAtMostOnce
<1>4. Places' /\ Answers'
  BY <1>1 DEF IInv, Places, Answers, SignatureOf, KeyAsked
<1> QED
  BY <1>2, <1>3, <1>4 DEF IInv

\* Whatever the server executes of the request, it answers with results that
\* keep Answers, or not at all.
LEMMA ServedStep ==
  ASSUME IInv, pc = "batch", reply.status = "Pending",
         UNCHANGED <<pc, queue, via, batch, ret, enqueued, submits, active>>,
         \/ UNCHANGED signed
         \/ \E n \in 0 .. Len(batch) : Execute(n),
         reply'.status \in {"Ok", "NetError"}, reply'.results \in Seq(Results), Answers'
  PROVE  IInv'
<1>1. /\ signed' \in [ItemIds -> 0 .. MaxSubmits]
      /\ \A d \in ItemIds : signed'[d] <= 1
      /\ \A d \in ItemIds : d > enqueued => signed'[d] = signed[d]
  BY ExecuteOnce DEF IInv, TypeOK, SignedAtMostOnce
<1>2. TypeOK'
  BY <1>1 DEF IInv, TypeOK
<1>3. queue = <<>> /\ submits > 0 /\ ret.status = "None"
  BY DEF IInv, Places
<1>4. Unsent'
  BY <1>1, <1>3 DEF IInv, Unsent, Single, Known, Unsigned
<1>5. Places' /\ SignedAtMostOnce'
  BY <1>1, <1>3 DEF Places, SignedAtMostOnce
<1> QED
  BY <1>2, <1>4, <1>5 DEF IInv

LEMMA LoseStep == ASSUME IInv, Lose PROVE IInv'
<1>1. reply'.status = "NetError" /\ reply'.results = <<>>
  BY DEF Lose
<1>2. Answers'
  BY <1>1 DEF Answers
<1>3. reply.status = "Pending"
  BY DEF Lose, Pending
<1> QED
  BY <1>1, <1>2, <1>3, ServedStep DEF Lose

LEMMA ExecutedResult ==
  ASSUME TypeOK, NEW item \in Items
  PROVE  /\ Executed(item) \in Results
         /\ Executed(item).res = "Ok" => Executed(item) = SignatureOf(item)
         /\ ~CanSign(item) => Executed(item).res # "Ok"
<1>1. CASE CanSign(item)
  <2>1. KeyAsked(item) \in Keys
    BY <1>1 DEF CanSign, TypeOK
  <2>2. Executed(item) = SignatureOf(item)
    BY <1>1 DEF Executed, SignatureOf
  <2>3. SignatureOf(item) \in Signatures
    BY <2>1, ItemTypes DEF SignatureOf, Signatures
  <2> QED
    BY <1>1, <2>2, <2>3 DEF Results
<1>2. CASE ~CanSign(item)
  BY <1>2 DEF Executed, NoSignature, Results
<1> QED
  BY <1>1, <1>2

LEMMA ServeStep == ASSUME IInv, Serve PROVE IInv'
<1>0. PICK n \in 0 .. Len(batch) :
        /\ Stops(batch, n) /\ Execute(n)
        /\ \E odd \in OddOnes(n) :
             reply' = [status |-> "Ok",
                       results |-> [i \in 1 .. n |-> IF i = odd THEN NoSignature("Odd")
                                                     ELSE Executed(batch[i])]]
  BY DEF Serve
<1>1. PICK odd :
        reply' = [status |-> "Ok",
                  results |-> [i \in 1 .. n |-> IF i = odd THEN NoSignature("Odd")
                                                ELSE Executed(batch[i])]]
  BY <1>0
<1> DEFINE rs == reply'.results
<1>2. /\ pc = "batch" /\ reply.status = "Pending" /\ reply'.status = "Ok"
      /\ UNCHANGED <<pc, queue, via, batch, ret, enqueued, submits, active>>
      /\ n \in Nat /\ n <= Len(batch) /\ batch \in Seq(Items)
  BY <1>1 DEF Serve, Pending, IInv, TypeOK
<1>3. rs = [i \in 1 .. n |-> IF i = odd THEN NoSignature("Odd") ELSE Executed(batch[i])]
  BY <1>1
<1>4. \A i \in 1 .. n : /\ batch[i] \in Items
                        /\ rs[i] = NoSignature("Odd") \/ rs[i] = Executed(batch[i])
  BY <1>2, <1>3
<1>5. NoSignature("Odd") \in Results /\ NoSignature("Odd").res = "Odd"
  BY DEF NoSignature, Results
<1>6. ASSUME NEW i \in 1 .. n
      PROVE  /\ rs[i] \in Results
             /\ rs[i].res = "Ok" => rs[i] = SignatureOf(batch[i])
             /\ ~CanSign(batch[i]) => rs[i].res # "Ok"
  <2>1. /\ Executed(batch[i]) \in Results
        /\ Executed(batch[i]).res = "Ok" => Executed(batch[i]) = SignatureOf(batch[i])
        /\ ~CanSign(batch[i]) => Executed(batch[i]).res # "Ok"
    BY <1>4, ExecutedResult DEF IInv
  <2> QED
    BY <1>4, <1>5, <2>1
<1>7. rs \in Seq(Results) /\ Len(rs) = n
  BY <1>2, <1>3, <1>6
<1> HIDE DEF rs
<1>9. n < Len(batch) => n \in 1 .. Len(batch) /\ ~CanSign(batch[n])
  BY <1>0, <1>2 DEF Stops
<1>10. n < Len(batch) => rs # <<>> /\ rs[n].res # "Ok"
  BY <1>2, <1>6, <1>7, <1>9
<1>11. \A i \in 1 .. n : SignatureOf(batch[i])' = SignatureOf(batch[i])
  BY <1>2 DEF SignatureOf, KeyAsked
<1>12. Answers'
  BY <1>2, <1>6, <1>7, <1>10, <1>11 DEF Answers, rs
<1> QED
  BY <1>0, <1>2, <1>7, <1>12, ServedStep DEF rs

\* A submission that succeeds returns what the results say, in their order.
LEMMA Successful ==
  ASSUME IInv, Submitted, ret'.status = "Ok"
  PROVE  LET rs == reply.results
         IN /\ \A i \in DOMAIN rs : Reads(rs[i])
            /\ ret' = [status |-> "Ok",
                       sigs |-> [i \in DOMAIN rs |->
                                   Returned(via.alg, rs[i].key, rs[i].data)]]
  BY DEF Submitted, Return, NoReturn

LEMMA SubmittedStep == ASSUME IInv, Submitted PROVE IInv'
<1> DEFINE rs == reply.results
           sigs == [i \in DOMAIN rs |-> Returned(via.alg, rs[i].key, rs[i].data)]
<1>1. pc = "batch" /\ UNCHANGED queue
  BY DEF Submitted
<1>2. CASE Return(NoReturn("Panic")) \/ Return(NoReturn("Err"))
  BY <1>1, <1>2, FailureStep
<1>3. CASE (\A i \in DOMAIN rs : Reads(rs[i])) /\ Return([status |-> "Ok", sigs |-> sigs])
  <2>1. rs \in Seq(Results) /\ via.alg \in SecurityAlgorithms
    BY KeyPairsAssumption DEF IInv, TypeOK
  <2>2. ASSUME NEW i \in DOMAIN rs
        PROVE  Returned(via.alg, rs[i].key, rs[i].data)
                 \in [label : SecurityAlgorithms, key : Keys, data : ItemIds]
    <3>1. rs[i] \in Signatures
      BY <1>3, <2>1 DEF Reads, Results, NoSignature
    <3> QED
      BY <2>1, <3>1 DEF Returned, Signatures
  <2>3. sigs \in Seq([label : SecurityAlgorithms, key : Keys, data : ItemIds])
    <3>1. Len(rs) \in Nat /\ DOMAIN rs = 1 .. Len(rs)
      BY <2>1
    <3> HIDE DEF rs
    <3> QED
      BY <2>2, <3>1
  <2> HIDE DEF sigs
  <2> DEFINE r == [status |-> "Ok", sigs |-> sigs]
  <2>4. r.status \in {"Ok", "Err", "Panic"} /\ r.sigs = sigs /\ Return(r)
    BY <1>3
  <2> HIDE DEF r
  <2> QED
    BY <1>1, <2>3, <2>4, ReturnStep
<1> QED
  BY <1>2, <1>3 DEF Submitted

LEMMA InitInv == Init => IInv
<1> SUFFICES ASSUME Init
             PROVE  IInv
  OBVIOUS
<1>1. TypeOK
  BY BoundsAssumption DEF Init, TypeOK, Pending, NoReturn
<1>2. SignedAtMostOnce /\ Unsent /\ Places /\ Answers
  BY DEF Init, Pending, NoReturn, SignedAtMostOnce, Unsent, Single, Known, Unsigned, Places, Answers
<1> QED
  BY <1>1, <1>2 DEF IInv

LEMMA NextInv == IInv /\ [Next \/ Finished]_vars => IInv'
<1> SUFFICES ASSUME IInv, [Next \/ Finished]_vars
             PROVE  IInv'
  OBVIOUS
<1>1. CASE ConnectFails
  BY <1>1, FailureStep DEF ConnectFails
<1>2. CASE SubmitFails
  BY <1>2, FailureStep DEF SubmitFails
<1>3. CASE UNCHANGED vars
  BY <1>3 DEF vars, IInv, TypeOK, SignedAtMostOnce, Unsent, Single, Known, Unsigned,
              Places, Answers, SignatureOf, KeyAsked
<1> QED
  BY <1>1, <1>2, <1>3, EnqueueStep, SubmitStep, ConnectStep, ServeStep, LoseStep,
     RevokeStep, SubmittedStep DEF Next, Finished

\* What is queued, sent and signed, as an invariant of every behaviour.
THEOREM QueueInvariance == Spec => []IInv
  BY InitInv, NextInv, PTL DEF Spec

-----------------------------------------------------------------------------
\* The variables keep their types: in particular only requests that the library
\* could make are queued (src/key_pair.rs, lines 179-191).
THEOREM QueueTypes == Spec => []TypeOK
<1>1. IInv => TypeOK
  BY DEF IInv
<1> QED
  BY <1>1, QueueInvariance, PTL

\* However often submissions are tried again, the data of no item is signed
\* twice (src/key_pair.rs, lines 204-223).
THEOREM OneSignature == Spec => []SignedAtMostOnce
<1>1. IInv => SignedAtMostOnce
  BY DEF IInv
<1> QED
  BY <1>1, QueueInvariance, PTL

LEMMA AppendedAtTheEnd ==
  ASSUME NEW S, NEW q \in Seq(S), NEW x \in S
  PROVE  /\ Len(Append(q, x)) > Len(q)
         /\ SubSeq(Append(q, x), 1, Len(q)) = q
  OBVIOUS

\* Items leave the queue all together, in a request (src/key_pair.rs, lines
\* 205-214): nothing that fails before that loses one.
THEOREM NothingIsLost == Spec => ItemsLeaveInRequests
<1> DEFINE Step == \/ queue' = queue
                   \/ batch' = queue /\ queue' = <<>>
                   \/ Len(queue') > Len(queue) /\ SubSeq(queue', 1, Len(queue)) = queue
<1>1. IInv /\ [Next \/ Finished]_vars => [Step]_vars
  <2> SUFFICES ASSUME IInv, Next \/ Finished
               PROVE  Step
    OBVIOUS
  <2>1. ASSUME NEW k \in KeyPairs, Enqueue(k)
        PROVE  Step
    <3>1. CASE queue' = queue
      BY <3>1
    <3>2. CASE /\ CanAsk(k) /\ enqueued < MaxItems
               /\ queue' = Append(queue, [id |-> enqueued + 1, by |-> k])
      <4>1. enqueued + 1 \in ItemIds
        BY <3>2, BoundsAssumption DEF IInv, TypeOK, ItemIds
      <4>2. queue \in Seq(Items) /\ [id |-> enqueued + 1, by |-> k] \in Items
        BY <3>2, <4>1, NewItem DEF IInv, TypeOK
      <4> QED
        BY <3>2, <4>2, AppendedAtTheEnd
    <3> QED
      BY <2>1, <3>1, <3>2 DEF Enqueue
  <2> QED
    BY <2>1 DEF Next, Finished, vars, Submit, ConnectFails, Connect, Serve, Lose, Revoke,
                Submitted, SubmitFails
<1>2. Spec => [][Step]_vars
  <2> HIDE DEF Step
  <2> QED
    BY <1>1, QueueInvariance, PTL DEF Spec
<1> QED
  BY <1>2 DEF ItemsLeaveInRequests

\* A submission that succeeds has one signature for each item of the request, in
\* its place, by the key of that item; read by the algorithm of the KeyPair that
\* submits, it is what sign_raw() would have returned when the KeyPairs are alike
\* (src/key_pair.rs, lines 225-236).
THEOREM DeferredIsDirect == Spec => LikeSignRawIfAlike
<1> DEFINE Step == /\ pc = "batch" /\ ret'.status = "Ok"
                   /\ \A i \in 1 .. Len(batch) : Alike(batch[i])
                   => ret'.sigs = InPlaceOf(batch)
<1>1. IInv /\ [Next \/ Finished]_vars => [Step]_vars
  <2> SUFFICES ASSUME IInv, Next \/ Finished, pc = "batch", ret'.status = "Ok",
                      \A i \in 1 .. Len(batch) : Alike(batch[i])
               PROVE  ret'.sigs = InPlaceOf(batch)
    OBVIOUS
  <2> DEFINE rs == reply.results
  <2>1. ret' = ret => ret'.status = "None"
    BY DEF IInv, Places
  <2>2. ASSUME Return(NoReturn("Err"))
        PROVE  FALSE
    BY <2>2 DEF Return, NoReturn
  <2>3. Submitted
    BY <2>1, <2>2 DEF Next, Finished, vars, Enqueue, Submit, ConnectFails, Connect, Serve,
                      Lose, Revoke, SubmitFails
  <2>4. /\ \A i \in DOMAIN rs : Reads(rs[i])
        /\ ret'.sigs = [i \in DOMAIN rs |-> Returned(via.alg, rs[i].key, rs[i].data)]
    BY <2>3, Successful
  <2>5. /\ rs \in Seq(Results) /\ batch \in Seq(Items) /\ reply.status = "Ok"
        /\ Len(rs) <= Len(batch)
        /\ \A i \in 1 .. Len(rs) : rs[i].res = "Ok" => rs[i] = SignatureOf(batch[i])
        /\ Len(rs) < Len(batch) => rs # <<>> /\ rs[Len(rs)].res # "Ok"
    BY <2>3 DEF Submitted, IInv, TypeOK, Answers
  <2> HIDE DEF rs
  <2>6. DOMAIN rs = 1 .. Len(rs) /\ Len(rs) \in Nat /\ Len(batch) \in Nat
    BY <2>5
  <2>7. \A i \in 1 .. Len(rs) : rs[i].res = "Ok"
    BY <2>4, <2>6 DEF Reads
  <2>8. Len(rs) = Len(batch)
    <3>1. rs # <<>> => Len(rs) \in 1 .. Len(rs)
      BY <2>5, <2>6
    <3> QED
      BY <2>5, <2>6, <2>7, <3>1
  <2>9. ASSUME NEW i \in 1 .. Len(batch)
        PROVE  Returned(via.alg, rs[i].key, rs[i].data) = Direct(batch[i])
    <3>1. rs[i] = SignatureOf(batch[i]) /\ Alike(batch[i])
      BY <2>5, <2>7, <2>8
    <3> QED
      BY <3>1 DEF SignatureOf, KeyAsked, Alike, Returned, Direct
  <2> QED
    BY <2>4, <2>6, <2>8, <2>9 DEF InPlaceOf
<1>2. Spec => [][Step]_vars
  <2> HIDE DEF Step
  <2> QED
    BY <1>1, QueueInvariance, PTL DEF Spec
<1> QED
  BY <1>2 DEF LikeSignRawIfAlike

-----------------------------------------------------------------------------
LEMMA HalfOfP256 == ValueByteLen("ECDSAP256SHA256") = 32
<1> DEFINE item == CHOOSE item \in ALG_MAPPINGS : item[1] = "ECDSAP256SHA256"
<1>1. <<"ECDSAP256SHA256", EcdsaInfo("P-256", 256)>> \in ALG_MAPPINGS
  BY DEF ALG_MAPPINGS
<1>2. item \in ALG_MAPPINGS /\ item[1] = "ECDSAP256SHA256"
  BY <1>1
<1>3. item[2].fixedLen = 256
  BY <1>2 DEF ALG_MAPPINGS, EcdsaInfo
<1> HIDE DEF item
<1>4. 256 \div 8 = 32
  OBVIOUS
<1> QED
  BY <1>3, <1>4 DEF ValueByteLen, AlgInfo, item

LEMMA OnlyP256Fits ==
  ASSUME NEW k, SignatureParses("ECDSAP256SHA256", k)
  PROVE  k = "P-256"
<1>1. CurveOctets(k) <= 32
  BY HalfOfP256, Zenon DEF SignatureParses, RsaAlgorithms, EcdsaAlgorithms, EdAlgorithms
<1> QED
  BY <1>1 DEF CurveOctets

\* What is returned for P-256 was made on P-256, whatever KeyPairs filled the
\* queue (src/key_pair.rs, lines 225-236; src/algorithms/ecdsa.rs, lines 63-80).
THEOREM QueueNeverCuts == Spec => []QueuedSignaturesAreNotCut
<1>1. Init => QueuedSignaturesAreNotCut
  BY DEF Init, NoReturn, QueuedSignaturesAreNotCut
<1>2. ASSUME QueuedSignaturesAreNotCut, [Next \/ Finished]_vars
      PROVE  QueuedSignaturesAreNotCut'
  <2>1. CASE ret' = ret
    BY <1>2, <2>1 DEF QueuedSignaturesAreNotCut
  <2>2. CASE ret'.sigs = <<>>
    BY <2>2 DEF QueuedSignaturesAreNotCut
  <2>3. CASE Submitted /\ ret'.sigs # <<>>
    <3> DEFINE rs == reply.results
    <3>1. /\ \A i \in DOMAIN rs : Reads(rs[i])
          /\ ret'.sigs = [i \in DOMAIN rs |-> Returned(via.alg, rs[i].key, rs[i].data)]
      BY <2>3 DEF Submitted, Return, NoReturn
    <3>2. ASSUME NEW i \in DOMAIN rs, via.alg = "ECDSAP256SHA256"
          PROVE  KindOf(rs[i].key) = "P-256"
      BY <3>1, <3>2, OnlyP256Fits DEF Reads
    <3> QED
      BY <3>1, <3>2 DEF QueuedSignaturesAreNotCut, Returned
  <2>4. ret' = ret \/ ret'.sigs = <<>> \/ Submitted
    <3>1. \A status : NoReturn(status).sigs = <<>>
      BY DEF NoReturn
    <3>2. ASSUME NEW k \in KeyPairs, Enqueue(k) \/ Submit(k)
          PROVE  ret'.sigs = <<>>
      BY <3>1, <3>2, Zenon DEF Enqueue, Submit
    <3>3. ConnectFails \/ SubmitFails => ret'.sigs = <<>>
      BY <3>1, Zenon DEF ConnectFails, SubmitFails, Return
    <3>4. Connect \/ Serve \/ Lose \/ Revoke \/ Finished \/ UNCHANGED vars => ret' = ret
      BY DEF Connect, Serve, Lose, Revoke, Finished, vars
    <3> QED
      BY <1>2, <3>2, <3>3, <3>4, Zenon DEF Next
  <2> QED
    BY <2>1, <2>2, <2>3, <2>4
<1> QED
  BY <1>1, <1>2, PTL DEF Spec
=============================================================================
