--------------------------- MODULE MCLoginThrottle ---------------------------
(* LoginThrottle on small instances.                                         *)
EXTENDS LoginThrottle, TLC

(* Requests are served once and are otherwise alike.                         *)
Symmetry == Permutations(Request)
=============================================================================
