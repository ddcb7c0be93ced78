-------------------------- MODULE MCPublicKeyFetch --------------------------
(***************************************************************************)
(* The objects returned to PublicKeyFetch: every combination of type,      *)
(* material, format, syntax and kind, and the flags and lengths on both    *)
(* sides of each limit the code compares them with.                        *)
(***************************************************************************)
EXTENDS PublicKeyFetch

\* Point flags only matter in a SubjectPublicKeyInfo of a curve.
AllObjects ==
  {o \in [object : {"PublicKey", "PrivateKey", "OtherObject"},
          material : {"Bytes", "TransparentRSAPublicKey", "OtherMaterial"},
          format : Formats, syntax : Syntaxes, kind : KeyKinds, whole : BOOLEAN,
          flag : {2, 4}, len : {0, 32, 57, 64, 65, 97, 129, MaxKeyOctets + 1}] : WellFormed(o)}

\* Octets of either Edwards curve.
EdAsEd ==
  {[object |-> "PublicKey", material |-> "Bytes", format |-> "Raw",
    syntax |-> "Octets", kind |-> k, whole |-> TRUE,
    flag |-> 4, len |-> 32] : k \in {"Ed25519", "Ed448"}}
=============================================================================
