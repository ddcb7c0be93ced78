---------------------------- MODULE MCSignQueue -----------------------------
(***************************************************************************)
(* KeyPairs for SignQueue: of two servers, and of two algorithms for keys  *)
(* of one kind.                                                            *)
(***************************************************************************)
EXTENDS SignQueue

KeyPair(id, srv, kind, alg) == [id |-> id, server |-> srv, kind |-> kind, alg |-> alg]

\* Two that belong together, one with the same id on another server, one that
\* cannot sign, and one whose signatures are too long for those of the first.
TwoServers ==
  {KeyPair("a", "s", "P-256", "ECDSAP256SHA256"),
   KeyPair("b", "s", "P-256", "ECDSAP256SHA256"),
   KeyPair("a", "t", "RSA", "RSASHA256"), KeyPair("c", "s", "RSA", "RSASHA1"),
   KeyPair("d", "s", "P-384", "ECDSAP384SHA384")}
TwoAlgorithms ==
  {KeyPair("a", "s", "RSA", "RSASHA256"), KeyPair("b", "s", "RSA", "RSASHA512")}
=============================================================================
