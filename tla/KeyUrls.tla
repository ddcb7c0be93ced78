------------------------------ MODULE KeyUrls -------------------------------
(***************************************************************************)
(* The URLs that stand for the halves of a KeyPair (src/key_url.rs and     *)
(* mk_key_url(), from_urls() of src/key_pair.rs), and an application that  *)
(* keeps nothing else across a restart, after which its pool may have      *)
(* another server id.                                                      *)
(*                                                                         *)
(* Text is a sequence of tokens: a character that means something in a     *)
(* URL, or that url::Url replaces or drops, is a token of its own, anything*)
(* between them is one.  What url::Url makes of a text is modelled for the *)
(* scheme kmip and these tokens.  query_pairs() decodes what is escaped in *)
(* a query: no name or value that is understood is written with escapes    *)
(* here.                                                                   *)
(***************************************************************************)
EXTENDS Integers, FiniteSets, SequencesExt

CONSTANTS Tokens,      \* what a text is made of
          Escape,      \* what is percent-encoded in a path, and as what
          HostEscaped, \* what of it is encoded in a host too
          Forbidden,   \* what no host may hold
          Dropped,     \* what is dropped from any URL: tabs and newlines
          ServerIds,   \* the server ids an application gives its pools
          KeyPairs,    \* what it obtains: [alg, flags, priv, pub]
          HandWritten, \* texts of URLs written by an operator
          MaxHeld,     \* bound: KeyPairs held at a time
          MaxSaved,    \* bound: URLs saved
          Err          \* what is returned in place of a value

Text == Seq(Tokens)
Scheme == <<"kmip", ":", "/", "/">>
Algorithms == {"RSASHA256", "ED25519"}
FlagValues == {256, 257}

\* Tokens with a meaning: dots, and what a key URL is made of.
Dots == {".", "%2e", "%2E"}
Marks == {":", "/", "?", "#", "@", "&", "="}
Words == {"kmip", "keys", "algorithm", "flags", "256", "257"} \cup Algorithms
Meaningful == Dots \cup Marks \cup Words

ASSUME TokensAssumption ==
  /\ Meaningful \subseteq Tokens
  /\ Escape \in [DOMAIN Escape -> Tokens]
  /\ DOMAIN Escape \subseteq Tokens \ Meaningful
  /\ \A x \in DOMAIN Escape :
       Escape[x] \notin DOMAIN Escape \cup Forbidden \cup Dropped \cup Meaningful
  /\ HostEscaped \subseteq DOMAIN Escape
  /\ (Forbidden \cup Dropped) \cap Meaningful = {}
  /\ Dropped \cap DOMAIN Escape = {}
ASSUME ServerIdsAssumption == ServerIds \subseteq Text
ASSUME KeyPairsAssumption ==
  KeyPairs \subseteq [alg : Algorithms, flags : FlagValues, priv : Text, pub : Text]
ASSUME HandWrittenAssumption ==
  HandWritten \subseteq Text /\ \A t \in HandWritten : IsPrefix(Scheme, t)
ASSUME ErrAssumption ==
  /\ Err \notin Tokens /\ Err \notin FlagValues
  /\ Err \notin [host : Text, path : Seq(Text), query : Text]
  /\ Err \notin [flags : FlagValues, alg : Algorithms]
  /\ Err \notin [server : Text, id : Text, alg : Algorithms, flags : FlagValues]
  /\ Err \notin [server : Text, alg : Algorithms, flags : FlagValues, priv : Text, pub : Text]

VARIABLES pool,   \* the server id of the connection pool
          held,   \* the KeyPairs in memory
          store,  \* the URLs saved, each with the KeyPair it is of
          outcome \* of the last call
vars == <<pool, held, store, outcome>>

\* How an algorithm and flags are formatted and what parses as one of them: a
\* number may have leading zeros, and flags have 16 bits.
FormatFlags == [n \in FlagValues |-> IF n = 256 THEN "256" ELSE "257"]
ParseFlags(t) ==
  IF t = <<"256">> THEN 256 ELSE IF t \in {<<"257">>, <<"0257">>} THEN 257 ELSE Err
ParseAlgorithm(t) == IF t \in {<<a>> : a \in Algorithms} THEN t[1] ELSE Err

-----------------------------------------------------------------------------
(* url::Url.                                                               *)

\* A text is cut at the first token of a set: what is before it, what is from it
\* on, and what is after it.
UpTo(t, stops) ==
  CHOOSE n \in 0 .. Len(t) : /\ \A i \in 1 .. n : t[i] \notin stops
                             /\ n < Len(t) => t[n + 1] \in stops
Before(t, stops) == SubSeq(t, 1, UpTo(t, stops))
From(t, stops) == SubSeq(t, UpTo(t, stops) + 1, Len(t))
After(t, stops) == SubSeq(t, UpTo(t, stops) + 2, Len(t))

\* The parts that a separator makes, of each prefix of a text.
Extended(parts, x, sep) ==
  IF x = sep THEN Append(parts, <<>>) ELSE Append(Front(parts), Append(Last(parts), x))
PrefixesSplit(t, sep) ==
  LET split[i \in 0 .. Len(t)] == IF i = 0 THEN <<<<>>>> ELSE Extended(split[i - 1], t[i], sep)
  IN split
SplitOn(t, sep) == PrefixesSplit(t, sep)[Len(t)]

\* What is left of a text without the tokens that are dropped, of each prefix.
KeptWith(kept, x) == IF x \in Dropped THEN kept ELSE Append(kept, x)
PrefixesKept(t) ==
  LET keep[i \in 0 .. Len(t)] == IF i = 0 THEN <<>> ELSE KeptWith(keep[i - 1], t[i])
  IN keep
Kept(t) == PrefixesKept(t)[Len(t)]

\* Segments that are one dot or two, escaped or not, go; a final one leaves an
\* empty segment.
OneDot == {<<d>> : d \in Dots}
TwoDots == {<<d, e>> : d, e \in Dots}
DotSegments == OneDot \cup TwoDots
Up(path) == IF path = <<>> THEN path ELSE Front(path)
Walked(path, s) ==
  IF s \in OneDot THEN path ELSE IF s \in TwoDots THEN Up(path) ELSE Append(path, s)
PrefixesWalked(segments) ==
  LET walk[i \in 0 .. Len(segments)] == IF i = 0 THEN <<>> ELSE Walked(walk[i - 1], segments[i])
  IN walk
WithoutDots(segments) ==
  LET path == PrefixesWalked(segments)[Len(segments)]
  IN IF Last(segments) \in DotSegments THEN Append(path, <<>>) ELSE path
Encoded(s, escaped) == [i \in DOMAIN s |-> IF s[i] \in escaped THEN Escape[s[i]] ELSE s[i]]
Normalised(segments) ==
  LET path == WithoutDots(segments) IN [i \in DOMAIN path |-> Encoded(path[i], DOMAIN Escape)]

IsPort(t) == \A i \in DOMAIN t : t[i] \in {"5696", "5697"}

\* kmip://[<user>@]<host>[:<port>]/<path>[?<query>][#<fragment>]
UrlOf(t) ==
  LET body == SubSeq(t, Len(Scheme) + 1, Len(t))
      authority == Before(body, {"/", "?", "#"})
      rest == From(body, {"/", "?", "#"})
      address == Last(SplitOn(authority, "@"))
      host == Before(address, {":"})
      path == Before(rest, {"?", "#"})
  IN IF \/ host = <<>> /\ authority # <<>>
        \/ ToSet(host) \cap Forbidden # {}
        \/ ~IsPort(After(address, {":"}))
     THEN Err
     ELSE [host |-> Encoded(host, HostEscaped),
           path |-> IF path = <<>> THEN <<>> ELSE Normalised(SplitOn(Tail(path), "/")),
           query |-> After(Before(rest, {"#"}), {"?"})]

UrlParse(t) == UrlOf(Kept(t))

\* query_pairs(), by position: empty parts are skipped.
QueryPairs(u) ==
  LET parts == SplitOn(u.query, "&")
  IN [i \in {i \in DOMAIN parts : parts[i] # <<>>} |->
        <<Before(parts[i], {"="}), After(parts[i], {"="})>>]

JoinedTo(joined, i, segments) ==
  IF i = 1 THEN segments[1] ELSE joined \o <<"/">> \o segments[i]
PrefixesJoined(segments) ==
  LET join[i \in 0 .. Len(segments)] == IF i = 0 THEN <<>> ELSE JoinedTo(join[i - 1], i, segments)
  IN join
Joined(segments) == PrefixesJoined(segments)[Len(segments)]

-----------------------------------------------------------------------------
(* KeyUrl and KeyPair.                                                     *)

\* mk_key_url(): nothing is escaped.
MkKeyUrl(k, id) ==
  UrlParse(Scheme \o k.server \o <<"/", "keys", "/">> \o id \o
           <<"?", "algorithm", "=", k.alg, "&", "flags", "=", FormatFlags[k.flags]>>)

\* What follows "/keys/" in the path.
\* Bugs: a segment only; with the slash in front.
KeyIdOneSegment(u) == u.path[2]
KeyIdWithSlash(u) == <<"/">> \o Joined(Tail(u.path))
KeyId(u) == Joined(Tail(u.path))

\* Bug: URLs need not name an algorithm.
NoParamsDefault == [flags |-> Err, alg |-> "OTHER"]
NoParams == [flags |-> Err, alg |-> Err]

\* A name and a value that are known.
Understood(kv) ==
  \/ kv[1] = <<"flags">> /\ ParseFlags(kv[2]) # Err
  \/ kv[1] = <<"algorithm">> /\ ParseAlgorithm(kv[2]) # Err

\* Parameters in any order, of which the last counts; unknown ones are refused.
Params(u) ==
  LET pairs == QueryPairs(u)
      given(name) == {i \in DOMAIN pairs : pairs[i][1] = name}
      value(name) == pairs[CHOOSE i \in given(name) : \A j \in given(name) : j <= i][2]
  IN IF \E i \in DOMAIN pairs : ~Understood(pairs[i])
     THEN Err
     ELSE [flags |-> IF given(<<"flags">>) = {} THEN NoParams.flags
                     ELSE ParseFlags(value(<<"flags">>)),
           alg |-> IF given(<<"algorithm">>) = {} THEN NoParams.alg
                   ELSE ParseAlgorithm(value(<<"algorithm">>))]

\* KeyUrl::try_from(Url).
TryFrom(u) ==
  LET params == Params(u)
  IN IF \/ u.host = <<>>
        \/ Len(u.path) < 2 \/ u.path[1] # <<"keys">>
        \/ params = Err \/ Err \in {params.flags, params.alg}
     THEN Err
     ELSE [server |-> u.host, id |-> KeyId(u), alg |-> params.alg, flags |-> params.flags]

\* Bug: the server is not looked at.
RefusedOnParams(priv, pub) == priv.alg # pub.alg \/ priv.flags # pub.flags
Refused(priv, pub) ==
  \/ priv.alg # pub.alg
  \/ priv.flags # pub.flags
  \/ priv.server # pub.server
  \/ priv.server # pool

\* from_urls() up to from_metadata(), which the server is taken to answer.
FromUrls(priv, pub) ==
  IF Refused(priv, pub)
  THEN Err
  ELSE [server |-> pool, alg |-> priv.alg, flags |-> priv.flags,
        priv |-> priv.id, pub |-> pub.id]

\* The KeyPair that two URLs give.
Restored(privUrl, pubUrl) ==
  IF Err \in {TryFrom(privUrl), TryFrom(pubUrl)}
  THEN Err
  ELSE FromUrls(TryFrom(privUrl), TryFrom(pubUrl))

-----------------------------------------------------------------------------
(* The application.                                                        *)

Init ==
  /\ pool \in ServerIds
  /\ held = {}
  /\ store = {}
  /\ outcome = "None"

Obtain ==
  /\ Cardinality(held) < MaxHeld
  /\ \E m \in KeyPairs :
       held' = held \cup {[server |-> pool, alg |-> m.alg, flags |-> m.flags,
                          priv |-> m.priv, pub |-> m.pub]}
  /\ outcome' = "Ok"
  /\ UNCHANGED <<pool, store>>

\* private_key_url() and public_key_url(): unwrap() of an error panics.
Halves == {"priv", "pub"}
Save ==
  /\ Cardinality(store) < MaxSaved
  /\ \E k \in held, half \in Halves :
       LET url == MkKeyUrl(k, k[half])
       IN IF url = Err
          THEN outcome' = "Panic" /\ UNCHANGED store
          ELSE outcome' = "Ok" /\ store' = store \cup {[of |-> k, half |-> half, url |-> url]}
  /\ UNCHANGED <<pool, held>>

Restart ==
  /\ pool' \in ServerIds
  /\ held' = {}
  /\ outcome' = "None"
  /\ UNCHANGED store

WrittenUrls == {UrlParse(t) : t \in HandWritten} \ {Err}
Urls == {e.url : e \in store} \cup WrittenUrls

Parsed == {TryFrom(u) : u \in Urls}

Restore ==
  /\ Cardinality(held) < MaxHeld
  /\ \/ Err \in Parsed /\ outcome' = Err /\ UNCHANGED held
     \/ \E priv, pub \in Parsed \ {Err} :
          LET k == FromUrls(priv, pub)
          IN IF k = Err
             THEN outcome' = Err /\ UNCHANGED held
             ELSE outcome' = "Ok" /\ held' = held \cup {k}
  /\ UNCHANGED <<pool, store>>

Next == Obtain \/ Save \/ Restart \/ Restore
Spec == Init /\ [][Next]_vars
-----------------------------------------------------------------------------
(* Properties.                                                             *)

KeyPairType ==
  [server : ServerIds, alg : Algorithms, flags : FlagValues, priv : Text, pub : Text]
TypeOK ==
  /\ pool \in ServerIds
  /\ held \subseteq KeyPairType
  /\ \A e \in store : e.of \in KeyPairType /\ e.half \in Halves /\ e.url # Err
  /\ outcome \in {"None", "Ok", "Panic", Err}

\* A server id that is a host as it is, and an id of which url::Url changes
\* nothing and takes nothing for something else.
Name(s) ==
  /\ s # <<>>
  /\ ToSet(s) \cap ({":", "/", "?", "#", "@"} \cup Forbidden \cup HostEscaped \cup Dropped) = {}
Plain(id) ==
  /\ ToSet(id) \cap ({"?", "#"} \cup DOMAIN Escape \cup Dropped) = {}
  /\ ToSet(SplitOn(id, "/")) \cap DotSegments = {}

\* The two URLs saved of one KeyPair, when the pool has its server again.
SavedTogether(e, f) ==
  e.of = f.of /\ e.half = "priv" /\ f.half = "pub" /\ e.of.server = pool

\* The two URLs saved of a KeyPair whose server has a name and whose ids are
\* plain give that KeyPair back, in a later run of the application too, as long
\* as its pool has the same server id (src/key_pair.rs, lines 155-163 and
\* 243-263, against lines 105-137 and src/key_url.rs, lines 127-172).
SavedIsRestored ==
  \A e, f \in store :
    /\ SavedTogether(e, f)
    /\ Name(e.of.server) /\ Plain(e.of.priv) /\ Plain(e.of.pub)
    => Restored(e.url, f.url) = e.of

\* Whatever the ids, and whoever wrote the URLs: a KeyPair restored from them can
\* be saved and restored again as it is (src/key_pair.rs, lines 155-163: no
\* panic, and no drift from one run of the application to the next).
RestoredIsStable ==
  \A priv, pub \in Parsed \ {Err} :
    LET k == FromUrls(priv, pub)
    IN k # Err =>
         /\ Err \notin {MkKeyUrl(k, k.priv), MkKeyUrl(k, k.pub)}
         /\ Restored(MkKeyUrl(k, k.priv), MkKeyUrl(k, k.pub)) = k

\* An id with a question mark and a number sign can bring a query of its own and
\* have that of the KeyPair taken for a fragment.
BringsNoQuery(id) == ~({"?", "#"} \subseteq ToSet(id))

\* A KeyPair restored from two saved URLs, of whichever KeyPairs on servers with
\* a name, is for the server, the algorithm and the flags of both, if neither id
\* brings a query: a pool of another server takes neither, and what else the ids
\* may hold changes none of the three (src/key_pair.rs, lines 105-129).
HalvesAgree ==
  \A e, f \in store :
    LET k == Restored(e.url, f.url)
    IN /\ \A g \in {e, f} : Name(g.of.server) /\ BringsNoQuery(g.of[g.half])
       /\ k # Err
       => \A g \in {e.of, f.of} :
            k.server = g.server /\ k.alg = g.alg /\ k.flags = g.flags

-----------------------------------------------------------------------------
(* What the documentation says and the code does not do.                   *)

\* "The `server_id` could be the actual address of the target" (src/key_url.rs,
\* line 26): the URLs of a KeyPair on such a server can be made and used.
AddressesWork ==
  /\ outcome # "Panic"
  /\ \A e, f \in store :
       SavedTogether(e, f) /\ Plain(e.of.priv) /\ Plain(e.of.pub) =>
         Restored(e.url, f.url) = e.of
=============================================================================
