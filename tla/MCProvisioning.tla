--------------------------- MODULE MCProvisioning ---------------------------
(***************************************************************************)
(* Setups of which the first and the last share a version, from checkouts  *)
(* with mandates of their own; prove:enclave runs in a third.              *)
(***************************************************************************)
EXTENDS Provisioning

MCVersion == [s \in Setups |-> IF s = "s2" THEN "v2" ELSE "v1"]
MCPolicy == [r \in Setups \cup Proofs |-> IF r \in Proofs THEN "checkout" ELSE r]
=============================================================================
