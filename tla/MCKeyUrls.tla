----------------------------- MODULE MCKeyUrls ------------------------------
(***************************************************************************)
(* Values for the constants of KeyUrls.                                    *)
(***************************************************************************)
EXTENDS KeyUrls

\* What url::Url encodes: a space and a brace in a path, a letter with an accent
\* in a host too.
EscapeUsed == [x \in {" ", "{", "e-acute"} |->
  IF x = " " THEN "%20" ELSE IF x = "{" THEN "%7B" ELSE "%C3%A9"]
HostEscapedUsed == {"e-acute"}
ForbiddenUsed == {" ", "[", "]"}
DroppedUsed == {"tab"}

\* Those with a meaning, those of the server ids and keys, and some numbers.
TokensUsed ==
  Meaningful \cup DOMAIN EscapeUsed \cup {"%20", "%7B", "%C3%A9"} \cup ForbiddenUsed
    \cup DroppedUsed
    \cup {"hsm", "backup", "user", "2001", "db8", "5696", "a", "b", "0257", "65536",
          "note", "name", "x"}

\* Two names, an address that does not fit into a URL, and one that loses what is
\* before its "@".
Servers == {<<"hsm">>, <<"backup">>, <<"2001", ":", "db8">>, <<"user", "@", "hsm">>}

\* An address with a port, and one of IPv6.
Addresses == {<<"hsm", ":", "5696">>, <<"2001", ":", "db8">>}

Meta(alg, flags, priv, pub) == [alg |-> alg, flags |-> flags, priv |-> priv, pub |-> pub]
QueryIn(id) == id \o <<"?", "algorithm", "=", "RSASHA256", "&", "flags", "=", "256", "#">>

\* Ids with and without characters that mean something in a URL or are changed.
Imported ==
  {Meta("RSASHA256", 257, <<"a">>, <<"b">>), Meta("RSASHA256", 256, <<"a">>, <<"b">>),
   Meta("ED25519", 257, <<"a", "/", "b">>, <<"a", "&", "%20", "=">>),
   Meta("ED25519", 257, <<"a", ".", "b">>, <<".", ".", ".", "/", "%2e", "a">>),
   Meta("ED25519", 257, <<"a", "tab", " ">>, <<"a", "/", ".", ".">>),
   Meta("ED25519", 257, <<"%2e", ".">>, <<".", "/", "{", "e-acute">>),
   Meta("RSASHA256", 257, <<"a", "?", "b">>, <<"a", "#", "b">>),
   Meta("ED25519", 257, QueryIn(<<"a">>), QueryIn(<<"b">>))}
OnePlain == {Meta("ED25519", 257, <<"a">>, <<"b">>)}

Written(server, path, query) == Scheme \o server \o path \o query
KeysA == <<"/", "keys", "/", "a">>
Alg(a) == <<"algorithm", "=", a>>
Flags(f) == <<"flags", "=", f>>
ByHand ==
  {Written(<<"hsm">>, KeysA, <<"?">> \o Flags("0257") \o <<"&">> \o Alg("ED25519")),
   Written(<<"hsm">>, KeysA, <<"?">> \o Flags("256") \o <<"&">> \o Alg("ED25519")
                              \o <<"&">> \o Flags("257")),
   Written(<<"hsm">>, KeysA, <<"?">> \o Alg("ED25519") \o <<"#", "note">>),
   Written(<<"hsm">>, KeysA, <<"?">> \o Flags("257") \o <<"#", "note">>),
   Written(<<"hsm">>, KeysA, <<"?", "&">> \o Flags("257") \o <<"&", "&">> \o Alg("ED25519")
                              \o <<"&">>),
   Written(<<"hsm">>, KeysA, <<"?">> \o Flags("65536") \o <<"&">> \o Alg("ED25519")),
   Written(<<"hsm">>, KeysA, <<"?">> \o Flags("257") \o <<"&">> \o Alg("ED25519")
                              \o <<"&", "name", "=", "x">>),
   Written(<<"user", "@", "e-acute">>, KeysA, <<"?">> \o Flags("257") \o <<"&">> \o Alg("ED25519")),
   Written(<<"hsm">>, <<"/", "a">>, <<"?">> \o Flags("257") \o <<"&">> \o Alg("ED25519")),
   Written(<<"hsm">>, <<>>, <<>>),
   Written(<<>>, KeysA, <<>>)}
NoTexts == {}
=============================================================================
