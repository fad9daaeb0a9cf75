----------------------------- MODULE MCAddresses -----------------------------
(* Addresses on a small instance: each of two users is there with an address *)
(* of their own, was there and is deleted, or is not there yet.              *)
EXTENDS Addresses, TLC

CONSTANTS u1, u2, e1, e2

MCOwned == u1 :> e1 @@ u2 :> e2
=============================================================================
