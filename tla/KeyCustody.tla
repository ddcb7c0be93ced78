----------------------------- MODULE KeyCustody -----------------------------
(***************************************************************************)
(* What the library promises an application about the key pairs it         *)
(* generates, with neither threads, connections nor messages: generate()   *)
(* hands over an activated pair of the kind asked for, the two halves and  *)
(* the DNSKEY of that pair together, and never one pair twice; signatures  *)
(* handed over are by the pair in whose name they are; a key reported as   *)
(* destroyed is.  Who else uses the server may revoke and destroy keys at  *)
(* any time, and pairs may be created that are never handed over.          *)
(***************************************************************************)
EXTENDS Algorithms

CONSTANTS Pairs,
          Params   \* what applications generate: [alg, bits, flags]

VARIABLES stage,      \* the state of the private half of each pair
          kind,       \* the kind of each pair
          delivered,  \* the KeyPairs that generate() has returned
          signed,     \* the signatures returned for them
          gone        \* the private keys reported as destroyed
vars == <<stage, kind, delivered, signed, gone>>

Init ==
  /\ stage = [p \in Pairs |-> "Absent"]
  /\ kind = [p \in Pairs |-> "RSA"]
  /\ delivered = {}
  /\ signed = {}
  /\ gone = {}

HandedOver(p) == \E k \in delivered : k.key = p

Move(p, from, to) ==
  /\ stage[p] \in from
  /\ stage' = [stage EXCEPT ![p] = to]
  /\ UNCHANGED <<delivered, signed, gone>>

Create(p, k) == Move(p, {"Absent"}, "PreActive") /\ kind' = [kind EXCEPT ![p] = k]

\* Nobody but generate() activates keys, before it hands them over.
Activate(p) ==
  ~HandedOver(p) /\ Move(p, {"PreActive"}, "Active") /\ UNCHANGED kind

Revoke(p) ==
  Move(p, {"PreActive", "Active", "Deactivated"}, "Deactivated") /\ UNCHANGED kind

Destroy(p) == Move(p, {"PreActive", "Deactivated"}, "Destroyed") /\ UNCHANGED kind

HandOver(p, r) ==
  /\ stage[p] \in {"Active", "Deactivated", "Destroyed"}
  /\ kind[p] = AlgInfo(r.alg).kind
  /\ ~HandedOver(p)
  /\ delivered' = delivered \cup
       {[via |-> "generate", alg |-> r.alg, flags |-> r.flags,
         priv |-> <<"private", p>>, pub |-> <<"public", p>>, key |-> p]}
  /\ UNCHANGED <<stage, kind, signed, gone>>

Sign(k) ==
  /\ signed' = signed \cup {[keypair |-> k, pair |-> k.key]}
  /\ UNCHANGED <<stage, kind, delivered, gone>>

Report(p) ==
  /\ stage[p] = "Destroyed"
  /\ gone' = gone \cup {p}
  /\ UNCHANGED <<stage, kind, delivered, signed>>

Next ==
  \/ \E p \in Pairs :
       \/ \E k \in KeyKinds : Create(p, k)
       \/ Activate(p) \/ Revoke(p) \/ Destroy(p) \/ Report(p)
       \/ \E r \in Params : HandOver(p, r)
  \/ \E k \in delivered : Sign(k)

Spec == Init /\ [][Next]_vars
=============================================================================
