--------------------------- MODULE MCVerification ---------------------------
(* Verification on small instances.                                          *)
EXTENDS Verification, TLC

(* Requests are served once and are otherwise alike.                         *)
Symmetry == Permutations(Request)
=============================================================================
