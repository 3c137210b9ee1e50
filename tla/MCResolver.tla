----------------------------- MODULE MCResolver -----------------------------
(***************************************************************************)
(* Instances of Resolver.                                                  *)
(***************************************************************************)
EXTENDS Resolver, TLC

CONSTANTS bank, shop, evil, q1, q2

Callers == Permutations(Queries)
==========================================================================
