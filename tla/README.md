# A TLA+ model of domain-kmip

`domain-kmip` lets DNSSEC software use keys that live in an HSM behind a KMIP
server: it generates key pairs there, reads their public halves as DNSKEY
records, signs with their private halves and destroys them. The library keeps
almost no state of its own. What can go wrong is in the sequence of exchanges
with a server that other threads and programs use at the same time, that may
refuse or lose any request, and that differs from product to product, and in
what the library takes the octets it receives for.

Paths below are relative to the crate (`src/lib.rs` and so on).

## Inventory

| Component | Code | State it keeps | Operations | Talks to |
|---|---|---|---|---|
| `generate()` | `src/lib.rs` 128-344 | the call's variables, one pooled connection | query, create, create with a named curve, read the public key, activate | pool, server, `KeyPair::from_metadata` |
| `destroy()` | `src/lib.rs` 352-357 | one pooled connection | revoke, destroy | pool, server |
| `KeyPair` | `src/key_pair.rs` | algorithm, two key ids, cached DNSKEY, flags, pool | `from_metadata`, `from_urls`, `sign_raw`, URLs of its halves | pool, server, `PublicKey` |
| `SignQueue` | `src/key_pair.rs` 179-236, 321-332 | the requests queued | `sign_raw_enqueue`, `sign_raw_submit_queue` | any `KeyPair`, its pool and server |
| `PublicKey` | `src/public_key.rs` | algorithm, octets | fetch by id or URL, `dnskey` | pool, server, DER parsers |
| Algorithms | `src/algorithms/mod.rs` | constants | `get_alg_info` | everything above |
| DER parsers | `src/algorithms/rsa.rs`, `ecdsa.rs` | none | two RSA and one ECDSA key parser, ECDSA signatures | `PublicKey`, `KeyPair` |
| `KeyUrl` | `src/key_url.rs`, `key_pair.rs` 154-163 and 243-263 | the parts of a URL | make, parse | `KeyPair`, `PublicKey`, and the application, which keeps URLs across restarts |
| OIDs | `src/oids.rs` | constants | none | DER parsers |
| Errors | `src/error.rs` | none | conversions | callers |
| Pool and client | `kmip_protocol` (external) | open connections, a cached query | get, drop, request, batch | server |
| KMIP server | external | managed objects and their states | Query, Create Key Pair, Get, Activate, Revoke, Destroy, Sign | all clients |

What is hard about them:

- *Several exchanges per call.* `generate()` needs four or five, two of them on
  another connection. Each can fail with the effects of the earlier ones left
  behind, and a lost answer hides whether its request had an effect.
- *A second attempt.* Create Key Pair is repeated with the curve named if it was
  refused. It must not be repeated when it may have succeeded.
- *The pool.* `generate()` asks the pool twice. If it kept the first connection
  it could wait for itself, or two callers for each other.
- *Interleaving.* Threads share the pool and the server; a key may be destroyed
  between any two steps of a call that uses it.
- *Trust in data.* Algorithm, ids and flags come from the application, the
  octets and their format label from the server, and the two need not agree.
- *URLs.* They outlive the process, are written by operators too, and hold ids that
  nothing escapes.
- *The queue.* It is emptied before the request goes out, it does not remember
  the `KeyPair` of an item, and results are matched by position.

What makes each of them correct: a call leaves at most one pair at the server; a
`KeyPair` that `generate()` returned names the two halves of one activated pair
of the kind asked for and carries its DNSKEY; signatures verify under that
DNSKEY; a failed call leaves no active key behind unless the activation was carried
out and its answer could not be read; a destroyed key stays destroyed; callers do not exhaust the
pool by waiting for each other; octets are published only for the algorithm
their DER names; the integers in the DER are those in what is made of it; queued
data is signed at most once and results are those of the items they are returned
for; URLs give back the KeyPair they were made of.

`PROJECT.json` lists every hazard at its line, with the properties that cover
it or the reason why none does yet.

## Modules

```
Algorithms <- PublicKeys <- Hsm <- KeyLifecycle <- KeyLifecycleProofs <- KeyCustodyProofs
     ^             ^                  |    ^          <- KeyFailureProofs <- KeyPublicationProofs
     |             |                  |  MCKeyLifecycle
     |        PublicKeyFetch <- PublicKeyProofs, MCPublicKeyFetch
     +----- KeyCustody <- - - - - - - + (INSTANCE)
     +----- SignQueue <- SignQueueProofs, MCSignQueue

KeyUrls <- KeyUrlsProofs, MCKeyUrls
DerIntegers <- DerIntegersProofs, MCDerIntegers
```

**Algorithms**: the table of `src/algorithms/mod.rs`, the choice and check of the
key length in `generate()`, and for which key's signatures each `sig_parser`
succeeds. `SecurityAlgorithm` is an open enumeration; `OTHER` stands for every
value the library does not name.

**PublicKeys**: `for_key_id_and_dnssec_algorithm()` from the object received to the
key returned, as functions: the `match` on material, algorithm and format, the
three DER parsers and `dnskey()`. An object is described by what the code looks
at (type, material, format label, actual syntax, kind of the key, whether its bit
string has whole octets, first octet and length). The length of an RSA key is
carried on only for the limit on the size of a record.

**Hsm**: the server. It is not in the repository and is modelled from the calls the
library makes and from the comments that name PyKMIP, Fortanix DSM, Securosys
and Cascade-HSM-Bridge. A *profile* says whether an elliptic curve must, may or
must not be named, how RSA and EC keys are returned, whether the Ed448/25519
extension is there, and in which states Revoke is accepted (which the source
leaves open: both answers occur in the runs). Objects go from Absent to PreActive, Active, Deactivated and Destroyed;
an active object cannot be destroyed (the comment of `destroy()`).

**KeyLifecycle**: the core. Any number of threads (`Callers`) share a pool of
`PoolSize` connections and call `generate`, `destroy`, `from_metadata`,
`from_urls` and `sign_raw`. All these calls block in two places only: in
`conn_pool.get()` (the `..._connect` values of `pc`) and in an exchange with the
server (`query`, `create`, `recreate`, `get_key`, `activate`, `revoke`,
`destroy`, `sign`). The code between two waits touches nothing shared, so that it
is one action with the end of the wait before it. Each exchange is split into the
server's step (`Serve...`, `Refuse`, `LoseRequest`, `AnswerOddly`) and the
client's reading of the response, since other threads and the server run in
between. An answer that is lost, and one that holds a payload of another type, may
or may not come with the effect of the request (`Reply`; `LoseRequest` and
`AnswerOddly`).

| Code | Actions |
|---|---|
| `generate()` up to the first response | `Generate`, `GenerateQueries`, `GenerateCreates`, `GenerateRejectsLength`, `Queried` |
| its second attempt and errors | `CreateFails`, `RetriesWithCurve`, `Bails`, `ConnectFails` |
| `drop(client)`, `from_metadata()` | `Created`, `KeyFetched` |
| activation | `Connect`, `Activated` |
| `KeyPair::from_metadata()`, `from_urls()` | `FromMetadata`, `FromUrls`, `KeyFetched` |
| `destroy()` | `DestroyKey`, `Revoked`, `KeyDestroyed`, `Bails` |
| `sign_raw()`, `sign_pre()`, `sign_post()` | `SignRaw`, `SignUnsupported`, `Signed`, `SignFails`, `SignPanics` |

`made[c]` (the pairs the server has created for the current call), `destroyed`,
`keypairs` and `signatures` record what the application has seen or caused, for
the properties and as the source of later calls' arguments.

**KeyCustody**: the abstract specification, what the library promises an application
about the pairs it generates, without threads, connections or messages: a pair
is created, activated, handed over with its DNSKEY at most once, only by then
activated and never activated again, signed with in its own name, revoked,
destroyed, and reported as destroyed when it is. Others may revoke and destroy
keys at any time, and a pair may be created that nobody is given.
`KeyLifecycle!Custody` instantiates it (`INSTANCE ... WITH`): the stage of a pair
is the state of its private object, what was delivered are the KeyPairs of
`generate()` among `keypairs`, and so on. All the steps of a call but those that
change an object or return are stutters.

**KeyUrls**: an application that keeps the URLs of its KeyPairs (`Save`) and restarts
with nothing else, perhaps with another server id (`Restart`), and restores
KeyPairs from any two URLs, its own or hand-written ones (`Restore`). Text is a
sequence of tokens: each character that means something in a URL is one, and
anything between them is one, so that a text is as long as its structure. What
`url::Url` does to such a text (user, host and port, dot segments, percent-encoding,
query, fragment) is modelled as an external parser; what `mk_key_url()`,
`TryFrom<Url>` and `from_urls()` do with the parts is the code's. Whether the key
exists is KeyLifecycle's question; here the server answers.

Which tokens there are, and which of them `url::Url` changes, are constants:
`Escape` says what is percent-encoded in a path and as what (`"`, `<`, `>`, `` ` ``,
`{`, `}`, space, controls and everything that is not ASCII), `HostEscaped` what of it
is encoded in a host too, `Forbidden` what no host may hold, and `Dropped` what is
removed from any URL (tab and newlines). What is assumed of them is in
`TokensAssumption`: what is put in place of a character is itself left alone, and
nothing with a meaning to the code is changed. Dots are tokens in three spellings,
`.`, `%2e` and `%2E`. A bracketed IPv6 address in its canonical form is one token; a
bracket on its own is forbidden. What `query_pairs()` decodes does not occur: no name
or value that the code understands is written with escapes.


**DerIntegers**: the octets of the integers in a signature and in an RSA key: the
stripping, the limit and the padding of `parse_x962()`, and what the RSA parsers have
`rsa_encode()` make of modulus and exponent, with both forms of the exponent's
length. The size of a half (32 or 48 in the code) and the longest exponent whose
length is one octet (255) are constants, 2 in the runs, so that both forms occur;
nothing depends on them but lengths.

**PublicKeyFetch**: one caller of the public key functions against a server that may
return any object.

**SignQueue**: one queue, which Rust's exclusive borrow keeps from being filled and
submitted at once, several `KeyPair`s of one or more servers, and other users of
the servers who revoke keys. A server executes a batch in order and stops at the
first failure or goes on; both are allowed. A lost answer may follow the
execution of the batch.

The `...Proofs` modules hold the proofs (below). `MC...` modules only hold values of
constants. Operators commented as "Bug" are not used by any specification; each is
a plausible mistake in the operator it stands next to and shows that the property
named for it in `PROJECT.json` notices.

## Runs

| Run | Question | Bounds |
|---|---|---|
| `kl_faults` | Do the safety properties hold with every fault and interleaving of `generate`, `destroy` and `sign_raw`, and is every step one that `KeyCustody` allows? | 2 callers, 2 pairs, 2 connections, 4 calls, P-256 and Ed25519, a server that requires the named curve and a lenient one |
| `kl_vendors` | Does `generate()` succeed on each server the source names, for lengths on both sides of each limit? Do KeyPairs made from URLs, also of different pairs, keep to their algorithm? | 2 callers, 3 pairs, 1 connection, 3 calls of `generate`, `from_urls`, `destroy` and `sign_raw`, no faults; P-384, Ed25519, RSA of 511, 512, 1023, 1024, 4096 and 4097 bits |
| `kl_liveness` | Does every call return? What do KeyPairs made of any two ids and for any algorithm publish? | 3 callers, 1 connection, 1 pair of P-256 or RSA, KeyPairs made for ED25519 and RSASHA1, 3 calls of `generate`, `from_metadata`, `destroy` and `sign_raw`, no faults |
| `pk_objects` | What is published of any object a server may return, and which make the library panic? | every combination of what the code looks at, with the lengths it compares with and shorter and longer ones |
| `sq_batches` | Is the queue right for KeyPairs that share a server and an algorithm, with KeyPairs that do not in the same queue? Are long signatures cut? | 3 items, 2 submissions; two P-256 KeyPairs and one of P-384 on one server, one of RSASHA256 on another under the same id as one of them, one that cannot sign; every fault |
| `url_restore` | What survives saving, a restart and restoring? | 4 server ids, one of which makes no URL and one of which is cut; 8 KeyPairs, with ids that hold separators, dots in each spelling, characters that are encoded or dropped, and queries of their own; 11 hand-written texts; 1 KeyPair held, 2 URLs saved |
| `der_integers` | Do the octets stand for the integers of the DER? Can an RSA key be taken apart into them again? | all pairs of up to 3 octets out of 0, 1, 127, 128, 255; halves of 2 octets |

Why the bounds are enough to be interesting: two callers and two pairs let one
caller create, use or destroy between any two steps of another; four calls allow
generate, sign and destroy of one pair with a call to spare; three calls two
generated pairs and a KeyPair made of halves of both, which a fourth can sign with;
with one connection for three callers each `get()` contends, and with room for one
pair a second call is refused for lack of it. In `kl_liveness` a KeyPair may be of
the private key alone, given twice, whose octets ED25519 would take as they are,
and one made for RSASHA1 signs for an algorithm the library cannot sign with. In
`sq_batches` the P-384 KeyPair puts integers into an answer that may be read as
those of P-256, and the second submission meets whatever the
first left. In `url_restore` two URLs are saved, of one KeyPair or of two, from
runs with one server id or two, and all pairs of saved and written URLs are tried
in each state. In `der_integers` integers are shorter than, as long as and longer
than a half, with and without a high bit and with right and superfluous zeros, and
exponents on both sides of `ShortLen`.

`Callers` and `Pairs` are symmetric in the runs of `kl_...` that only check
safety (no definition tells their elements apart); `kl_liveness` uses no
symmetry.

### What each property says

- `OnePairPerCall`: one call, at most one pair, none for an unsupported request.
- `DeliveredAreUsable`, `KeyPairsMatch`: a `KeyPair` returned by `generate()` was
  activated, its ids and DNSKEY are of the two halves of one pair.
- `SignaturesVerify`: its signatures are made by the key whose DNSKEY is cached.
- `NoHoldAndWait`, `EveryCallReturns`: no waiting on the pool with a connection in
  hand, and every call returns.
- `DestroyedIsFinal`: Ok from `destroy()` means gone for good.
- `ActivationAfterLocation`, `FailureLeavesNothingActive`: no key is activated
  before its public half has been read, and a failed `generate()` leaves an
  active key only when Activate was carried out and its answer was lost or was
  another payload. (It may well leave an inactive pair behind, and does: the library
  never cleans up.)
- `GenerateSucceeds`: without faults the order query, plain attempt, attempt with
  the curve suits all the servers named, and a request is called unsupported exactly
  if RFC 5702 does not allow its length (`SupportedLength`, stated apart from the
  table the code uses) or the server lacks Edwards curves.
- `UrlsKeepTheAlgorithm`, `OnlyPublicHalvesArePublished`: what survives arguments
  that do not fit together. Halves of two pairs of one
  algorithm are *not* told apart by the code.
- `ParsedKeysMatch`, `EcdsaPointsAreWhole`, `OnlyKnownKeysArePublished`: what DER
  parsing guarantees. Of an algorithm the library does not know nothing is published
  but a transparent RSA key.
- `OnlyMalformedKeysPanic`: the three panics there are (an empty bit string, one with
  bits left over, a record that is too long) are met by no other object.
- `CustodyKept`: the refinement of `KeyCustody`.
- `SignedAtMostOnce`, `ItemsLeaveInRequests`, `LikeSignRawIfAlike`: the queue never
  signs data twice, loses nothing to a failed `get()`, and returns what
  `sign_raw()` would have if all items are of KeyPairs that share the server and
  the algorithm of the one that submits.
- `SavedIsRestored`: the two URLs of a KeyPair give it back in a later run, if its
  server id is a host as it is (`Name`) and its ids hold no `?`, no `#`, nothing that
  `url::Url` encodes or drops, and no segment of dots (`Plain`).
- `RestoredIsStable`: whatever the ids and whoever wrote the URLs, what is restored
  can be saved without a panic and restored as it is.
- `HalvesAgree`: a KeyPair restored from two saved URLs is for the server, the
  algorithm and the flags of both, if the ids of neither hold both `?` and `#`
  (`BringsNoQuery`), whatever else is in them. The condition is needed: of an id such
  as `a?algorithm=RSASHA256&flags=256#`, which nothing escapes, a URL is made that is
  for the algorithm and the flags in the id. `url_restore` has such ids.
- `HalvesAreTheIntegers`, `EverySignatureIsTaken`: no octet of a signature is lost,
  added or moved, and no signature is refused that DER and its size allow.
- `ExponentAndModulus`: the octets of an RSA key, read as RFC 3110 says, give exponent
  and modulus back octet for octet, a zero in front included.

### Where comments and code disagree

Each of these runs ends in a counterexample of one property, which states what a
comment or the documentation says. `PROJECT.json` quotes it.

- `kl_raw_p256`: a server that labels P-256 keys Raw, as a comment says Fortanix
  does for ECDSA, cannot be used for P-256: `generate()` creates a pair and fails.
- `pk_mismatch`: an Ed448 key is published as ED25519. (`TransparentRSAPublicKey`
  likewise goes through for any algorithm.)
- `sq_mixed_algs`: of a queue shared by KeyPairs of RSASHA256 and RSASHA512 signatures
  are returned as those of the KeyPair that submits: in the trace that of an item
  enqueued for RSASHA512 comes back as RSASHA256.
- `url_address`: a server id "could be the actual address of the target", but with
  a port in it `from_urls()` refuses the KeyPair's own URLs (`host_str()` leaves
  the port out), and with an IPv6 address `private_key_url()` panics.
- `der_zeros`: "Leading zero octets are prohibited in the exponent and modulus", but
  the RSA parsers leave the zero that DER puts in front of a modulus whose highest bit
  is set, as it is in any of 1024 or 2048 bits (`parse_x962()` takes it off). What
  `rsa_encode()` does with it is not in the repository; it is taken to copy it.

Six more were met while modelling and have no run of their own, the model of the
code concerned being what shows them:

- The example in the crate documentation (`src/lib.rs` 42-51) gives
  `from_metadata()` the public id first; the function takes the private id first.
- A comment in `dnskey()` (`src/public_key.rs` 242) says that lengths were
  validated. Those of Edwards curve and RSA keys never are (`FromBytes`,
  `WithDnskey`).
- `ecdsa::parse_x509()` documents a panic for the wrong algorithm only, but also
  panics on an empty bit string (`EcdsaParseX509`, `src/algorithms/ecdsa.rs` 183).
- A comment (`src/lib.rs` 321) says that the key is activated "if not already";
  Activate is sent always, and its refusal fails the call (`Bails`). No server named
  in the source is said to create keys active, so that no run shows this.
- The dotted name of `ED448_OID` (`src/oids.rs` 55) is that of Ed25519; its octets are
  right. It occurs in no error message of the code as it is.
- `QueuedSignaturesAreNotCut`: integers of a curve too wide for the algorithm that
  reads them fail the submission; nothing is cut to the size. `SignaturesAreNotCut`
  says the same of `sign_raw()` through KeyPairs made of any ids; it takes two pairs
  and four calls to break, more than any run of `kl_...` with `from_metadata()` has,
  and is proved only.
- A queue filled for two servers is sent to that of the KeyPair that submits
  (`KeyAsked`), where the id may name another key. A comment in the code asks what
  happens in this case.

## Fairness

`FairSpec` of KeyLifecycle assumes weak fairness of `Continue(c)` and `Serve(c)`
for each caller. `Continue(c)`: the thread runs, and `get()` returns a connection
that is free. `Serve(c)`: each request is answered, refused or given up on, by the
server or by the read timeout of the connection. Nothing makes a call start. The
run has no faults, so that no call is let off by a failing `get()`: a connection
has to come free. The number of calls is bounded, so that a caller waiting for a
connection cannot be overtaken forever; with unboundedly many calls the pool's
timeout would end the wait (`ConnectFails`), which the run does not rely on.

## Proofs

The theorems hold for any number of callers, pairs, connections, calls, KeyPairs,
items and submissions, any server profiles, parameters, objects and faults, and
integers and texts of any length. Two have a hypothesis on constants, given with
them.

| Module | Theorem | Statement |
|---|---|---|
| `KeyLifecycleProofs` | `Invariance` | `Spec => []IInv` |
| | `TypeCorrect` | `Spec => []TypeOK` |
| | `OnePair` | `Spec => []OnePairPerCall` |
| | `Delivered` | `Spec => []KeyPairsMatch` |
| | `DeliveredActivated` | `Spec => []DeliveredAreUsable` |
| | `Verifiable` | `Spec => []SignaturesVerify` |
| | `PoolNeverHeld` | `Spec => []NoHoldAndWait` |
| | `DestroyedForGood` | `Spec => []DestroyedIsFinal` |
| | `LocatedBeforeActive` | `Spec => ActivationAfterLocation` |
| `KeyCustodyProofs` | `KeepsCustody` | `Spec => CustodyKept`: KeyLifecycle implements KeyCustody |
| `KeyFailureProofs` | `FailureIsInactive` | `Spec => FailureLeavesNothingActive` |
| | `GeneratesOnWorkingServer` | `Spec => GenerateSucceeds`, if `WorkingServer` |
| `KeyPublicationProofs` | `PublicHalvesOnly` | `Spec => []OnlyPublicHalvesArePublished` |
| | `NoCutSignatures` | `Spec => []SignaturesAreNotCut` |
| | `UrlsKept` | `Spec => []UrlsKeepTheAlgorithm`, if the application calls `from_metadata()` itself nowhere |
| `SignQueueProofs` | `QueueInvariance` | `Spec => []IInv` |
| | `QueueTypes` | `Spec => []TypeOK` |
| | `OneSignature` | `Spec => []SignedAtMostOnce` |
| | `NothingIsLost` | `Spec => ItemsLeaveInRequests` |
| | `QueueNeverCuts` | `Spec => []QueuedSignaturesAreNotCut` |
| | `DeferredIsDirect` | `Spec => LikeSignRawIfAlike` |
| `PublicKeyProofs` | `FetchInvariance` | `Spec => []IInv` |
| | `FetchTypes` | `Spec => []TypeOK` |
| | `OctetsMatch` | `Spec => []ParsedKeysMatch` |
| | `PointsAreWhole` | `Spec => []EcdsaPointsAreWhole` |
| | `PanicsAreConfined` | `Spec => []OnlyMalformedKeysPanic` |
| | `PublicOnly` | `Spec => []OnlyKnownKeysArePublished` |
| `DerIntegersProofs` | `HalvesAreTheIntegersHolds` | `Spec => []HalvesAreTheIntegers` |
| | `EverySignatureIsTakenHolds` | `Spec => []EverySignatureIsTaken` |
| | `ExponentAndModulusHolds` | `Spec => []ExponentAndModulus` |
| `KeyUrlsProofs` | `UrlInvariance` | `Spec => []UInv` |
| | `UrlTypes` | `Spec => []TypeOK` |
| | `RestoredStaysTheSame` | `Spec => []RestoredIsStable` |
| | `SavedComesBack` | `Spec => []SavedIsRestored` |
| | `HalvesOfOneServer` | `Spec => []HalvesAgree` |

They rest on the assumptions named in the modules only, which TLC evaluates in
every run of the module: in KeyLifecycle `NoPairAssumption`, `ServersAssumption`,
`ParamsAssumption`, `ImportAlgsAssumption`, `PoolSizeAssumption`,
`MaxCallsAssumption`, `FaultsAssumption`; in SignQueue `KeyPairsAssumption` (an id of
a server names one key), `BoundsAssumption`, `FaultsAssumption`; in PublicKeyFetch
`ObjectsAssumption`; in DerIntegers `HalfAssumption`, `ShortLenAssumption`,
`OctetsAssumption`, `MaxLenAssumption`; in KeyUrls `TokensAssumption`, `ServerIdsAssumption`,
`KeyPairsAssumption`, `HandWrittenAssumption`; and in both `ErrAssumption` (what is
returned in place of a value is not one).

**KeyLifecycleProofs.** The properties are not inductive. That a returned KeyPair
matches, say, needs to be known of the local variables of a call from the response to Create on; that
the response names a pair that exists needs to be known of the response; that
the pair is still the same pair needs to be known of the server. `IInv` is
therefore: the type invariant; `HalvesTogether` (both halves of a pair come into
being together); `DeliveredAreKnown`; for each caller `CallerInv`, in four parts
(`HoldsOnlyForRequest`, `MadeByCall`, `Generates`, `DestroysOrSigns`), each saying
what a position in a call implies for the variables of the caller and the objects
it names; and the four properties of returned values.

The frame is the other half of the argument. `Evolves` says what any step may do
to the server and to the set of KeyPairs: an object never becomes absent again, a
usable or destroyed one never returns to an earlier state, the kind of an
existing pair does not change, KeyPairs are only added. `CallerFrame` shows that
`CallerInv(c)` survives every such step that leaves the variables of `c` alone,
and `ReturnedFrame` that the properties of returned values do. So each action
needs to be proved only for the caller it belongs to (`CallerStep`), one lemma per
shape of action; `StartStep`, `ContinueStep` and `ServeStep` collect them, and
`NextInv` closes the induction. `LocatedBeforeActive` is an action property and
follows from `IInv` and the fact that only a granted Activate turns PreActive
into Active (`OnlyActivateActivates`).

**KeyCustodyProofs.** That every step maps to a step of KeyCustody or a stutter
follows from `IInv` but for two guards: a pair is handed over only once, and not
activated after that. `HInv` adds `SoleHolder`: from the response to Create on, a
call of `generate()` *holds* its pair (`Holds`), no other call does, and nobody has
been given it. A call gets to hold a pair only when the server creates it, which
it does of absent objects only; it stops when it returns. `Asked` says that the
algorithm and flags of the call are still those asked for.

**KeyFailureProofs.** A failed call must leave its pairs inactive, and `made` records
which they are. `FInv` adds to `HInv` that no two calls made the same pair and that
the pair held was made for the call (`Owned`), and that a pair of a call that has
not returned is active only when the answer to its activation is there, lost or odd
(`ActiveWhenAnswered`). Only the holder of a pair can activate it
(`ActivatedForHolder`), and a call whose activation was answered with Ok returns Ok.

That `generate()` succeeds is not true of every server, so `GeneratesOnWorkingServer`
has a hypothesis, `WorkingServer`: no faults, room for as many pairs as there are
calls, no KeyPairs of ids that a server never gave out, and P-256 keys not labelled
Raw (`kl_raw_p256` shows what happens otherwise). `kl_vendors` is an instance of it.
`WInv` adds to `HInv`: nobody but its holder refers to a pair that was not handed
over (`KnownIds`), so that it is as it was created until its activation
(`FreshHeld`); the one refusal a call meets is that of its first template, and then
the server accepts the second (`Unhindered`); and pairs that exist and calls that
still want one are together no more than the calls made, so that there is room
(`RoomLeft`). `EndsWell` is the last step of a call under these conditions.

**KeyPublicationProofs.** For KeyPairs made of any ids. `PInv` adds that signatures
are by keys that exist (`SignersExist`), so that their kind does not change any
more; `PublishedIsPublic` shows that the object of a private id is never published.
For `UrlsKept`, `AllFit` says that the ids of all KeyPairs, and of calls about to
return one, name keys of the kind the algorithm needs.

**SignQueueProofs.** `Unsent`: an item that is in the queue or in a request not
answered has not been signed, and occurs once. `Answers`: the results of a batch
are those of a prefix of it, position by position. Each signature of data is
counted when a batch is executed, and after that its items are nowhere.

Signatures for P-256 need no more than what the parser accepts (`OnlyP256Fits`).

**PublicKeyProofs.** `IInv` says that the result is what the functions of PublicKeys
make of the object fetched; what these can return is shown case by case.

**DerIntegersProofs.** Nothing but the parser runs, so that the invariant is what it
was given and what it returned (`DInv`); the proof is about values. The value of
some octets is a recursive function, and the library's induction theorems take an
operator as a parameter, which the provers cannot instantiate. Induction over a
*set* needs no operator: `InductionOnNat` follows from the well-foundedness of `<`
on the naturals, and each use defines the set of the lengths its claim holds for.
Shown so: that the recursion defines a function (`PrefixValuesDef`), that zeros in
front do not count, how the values of parts add up, and that `n` octets hold
exactly the integers below 256^n. The claims about signatures and keys are then
sums.

**KeyUrlsProofs.** The same for texts: `InductionOnSeq` is induction over sequences by
their last element, `Recursion` says that a recursion over `0 .. n` has a solution,
and `SplitStep`, `JoinedStep` and `WalkStep` what each of the three recursions does
with one more element. From these, for texts of any length: joining undoes
splitting and splitting joining (`JoinedSplit`, `SplitJoined`), names without dots
are walked as they are (`WalkNames`), a text is cut in one way (`Cuts`, `CutAt`), a
text without anything that is dropped is kept whole (`KeptFree`) and what is kept
of two texts is what is kept of both (`KeptConcat`). Two lemmas carry the
results. `RoundTrip`: what `mk_key_url()` makes of a server name and a plain id is a
URL that `KeyUrl::try_from()` takes apart into what it was made of. `TryFromType`:
the server that comes out of any URL is a name and the id is plain, since
`url::Url` has encoded or removed what is not. Together they give
`RestoredStaysTheSame` without a hypothesis: whatever an operator wrote, after one
restoration nothing drifts. `UInv` says that a URL saved is the one made of its
KeyPair (`SavedAsMade`), of which the others follow.

The conditions on server ids and ids in `SavedIsRestored` and `HalvesAgree` are part of
the properties, and needed: `url_address` shows what happens without the first, and
that `HalvesAgree` needs `BringsNoQuery` came out of its proof. What a server gives
out as an id is up to it; none is known to give out ids that hold a query.

Only model-checked: liveness (`EveryCallReturns`), which is out of the prover's
reach, and that the five runs expected to find a counterexample find it.

## Assumed of the server and the client library

Requests are atomic at the server; ids are unique and never reused; results of a
batch come in the order of its items; a Get of a public key returns that key; the
signature is by the key asked for. `kmip_protocol` turns an unexpected payload in
`get_key`, `activate`, `revoke` and `destroy` into an error, which the code either
matches on or passes on. A pool hands out at most `PoolSize` connections.

## Not modelled

- The cached answer to Query and expiry of connections: connections are counted,
  not identified. How long `kmip_protocol` keeps one, and what it does with a
  broken one, is not in this repository.
- Names of keys, wording of errors, logging, `async` variants (the same code).
- The dotted names of OIDs, and the conversions in `error.rs`: both only word
  messages.
- Escapes in the query of a hand-written URL, which `query_pairs()` decodes, and what
  `url::Url` does with characters in a host beyond encoding or refusing them.
- DER beyond the integers and what `PublicKeys` tells apart: `bcder` decodes it.
- `tests.rs` (needs a server).
- What DNSSEC software does with signatures and DNSKEYs.

## Plan

Done: Algorithms, PublicKeys, Hsm, KeyLifecycle, KeyCustody and the refinement,
PublicKeyFetch, SignQueue, KeyUrls, DerIntegers, and proofs for all of them. Left:

1. `ConnectionPool`: connections with identity, their cached query, replacement of
   broken ones and the pool's timeout, with `generate()`'s use of it, once the
   behaviour of `kmip_protocol` can be read.
2. Escapes in queries, once it is known whether operators write them.
