--------------------------- MODULE MCCoalescer ---------------------------
(* Coalescer on a few requests, in units of twenty seconds. *)
EXTENDS Coalescer, TLC

CONSTANTS c1, c2, c3, k1

ThreeCallers == {c1, c2, c3}

\* 90s for /v1/check and /v1/rescan.  Disconnect ends a context earlier at any moment,
\* the 12s of /v1/scan among them.
RequestBudgets == {5}

CallerSymmetry == Permutations(Callers)
==========================================================================
