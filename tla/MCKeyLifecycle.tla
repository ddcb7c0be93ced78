--------------------------- MODULE MCKeyLifecycle ---------------------------
(***************************************************************************)
(* Values for the constants of KeyLifecycle, and its symmetries.           *)
(***************************************************************************)
EXTENDS KeyLifecycle, TLC

Symmetry == Permutations(Callers) \cup Permutations(Pairs)

Profile(curve, rsa, ecFormat, edExtension, revokes) ==
  [curve |-> curve, rsa |-> rsa, ecFormat |-> ecFormat,
   edExtension |-> edExtension, revokes |-> revokes]

\* The servers the comments of the source tell apart.  They do not say in
\* which states each accepts Revoke; both answers occur here.
PyKmip    == Profile("optional", "PKCS1", "X509", FALSE, {"Active"})
Fortanix  == Profile("refused", "X509", "Raw", FALSE, {"PreActive", "Active", "Deactivated"})
Securosys == Profile("required", "X509", "X509", FALSE, {"PreActive", "Active", "Deactivated"})
Bridge    == Profile("optional", "Transparent", "X509", TRUE, {"Active"})
Vendors == {PyKmip, Fortanix, Securosys, Bridge}
StrictAndLenient == {Securosys, Bridge}
OnlyFortanix == {Fortanix}
OnlySecurosys == {Securosys}

Param(alg, bits) == [alg |-> alg, bits |-> bits, flags |-> 257]
Rsa == Param("RSASHA512", 2048)
P256 == Param("ECDSAP256SHA256", NoLength)
P384 == Param("ECDSAP384SHA384", NoLength)
Ed == Param("ED25519", NoLength)
CurveParams == {P256, Ed}
MixedParams == {Rsa, P384}
P256AndRsa == {P256, Rsa}
OnlyP256 == {P256}
OnlyRsa == {Rsa}
Boundaries == {Param(a, b) : a \in {"RSASHA256", "RSASHA512"},
                             b \in {511, 512, 1023, 1024, 4096, 4097}}
VendorParams == {P384, Ed} \cup Boundaries
=============================================================================
