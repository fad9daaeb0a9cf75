-------------------------- MODULE MCAliasLifecycle --------------------------
(* AliasLifecycle on small instances.                                        *)
EXTENDS AliasLifecycle, TLC

(* Requests are served once and are otherwise alike.                         *)
Symmetry == Permutations(Request)
=============================================================================
