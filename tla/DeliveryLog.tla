----------------------------- MODULE DeliveryLog -----------------------------
(***************************************************************************)
(* What the DNS query log promises: a query is recorded at most once, in   *)
(* whatever order, and may be lost on its way, after which it never turns  *)
(* up.  "Best-effort" in the words of both ends of it.                     *)
(***************************************************************************)
CONSTANT Queries

VARIABLES unsent, waiting, recorded, lost

logVars == <<unsent, waiting, recorded, lost>>

LogInit == unsent = Queries /\ waiting = {} /\ recorded = {} /\ lost = {}

\* A query is put on its way; the way is only so long, and others may be dropped for it.
Send(q) ==
  /\ q \in unsent
  /\ \E dropped \in SUBSET waiting :
       /\ waiting' = (waiting \ dropped) \cup {q}
       /\ lost' = lost \cup dropped
  /\ unsent' = unsent \ {q}
  /\ UNCHANGED recorded

\* A query arrives, once.
Record(q) ==
  /\ q \in waiting
  /\ waiting' = waiting \ {q} /\ recorded' = recorded \cup {q}
  /\ UNCHANGED <<unsent, lost>>

\* Queries are lost, on their way or before they set out.
Lose ==
  \E some \in SUBSET (unsent \cup waiting) :
    /\ unsent' = unsent \ some /\ waiting' = waiting \ some
    /\ lost' = lost \cup some
    /\ UNCHANGED recorded

LogNext == Lose \/ \E q \in Queries : Send(q) \/ Record(q)
LogSpec == LogInit /\ [][LogNext]_logVars
=============================================================================
