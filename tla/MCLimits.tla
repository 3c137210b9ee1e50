------------------------------- MODULE MCLimits -------------------------------
(***************************************************************************)
(* Instances of the parts around the verdict that keep to a bound: what is *)
(* remembered, let through, crawled, logged, kept in memory.  `part` says  *)
(* which one moves; the state of the others stays what it is at first.     *)
(***************************************************************************)
EXTENDS Ledger, RateLimit, DeepScan, SessionLog, Feeds

VARIABLE part

vars == <<part, ledgerVars, rateVars, deepVars, sessionVars, feedVars>>

-----------------------------------------------------------------------------
(* Ledger: one address, two of which one has no TTL, one of carrier NAT.   *)
Record1(kind, n, ttl) == [ip |-> [kind |-> kind, n |-> n], ttl |-> ttl]
MCAnswers ==
  {<<Record1("public", 1, 3)>>,
   <<Record1("public", 2, 0), Record1("public", 1, 1)>>,
   <<Record1("cgnat", 1, 2)>>}

(* RateLimit: two requests of one client, and one of another, from one     *)
(* address.                                                                *)
MCRequests ==
  {[no |-> n, client |-> IF n = 3 THEN "extension" ELSE "resolver", ip |-> "i1"] : n \in 1..3}

(* DeepScan: a site of five pages with links back and links repeated, and  *)
(* three pages on another host.  All but a may get another page's render.  *)
Page(h, links) == [host |-> h, links |-> links]
MCWebPages ==
  [r |-> Page("h", <<"a", "x", "b", "a">>), a |-> Page("h", <<"r", "x", "y", "c">>),
   b |-> Page("h", <<"y", "z", "c">>), c |-> Page("h", <<"d", "r">>), d |-> Page("h", <<>>),
   x |-> Page("i", <<"z", "y", "a">>), y |-> Page("i", <<"d">>), z |-> Page("i", <<>>)]

(* Feeds: a feed with three live rows and a dead one, and one with a row   *)
(* of the same url.                                                        *)
MCFeedRows ==
  [f1 |-> {[source |-> "f1", url |-> u, live |-> u # "u4"] : u \in {"u1", "u2", "u3", "u4"}},
   f2 |-> {[source |-> "f2", url |-> "u1", live |-> TRUE]}]

-----------------------------------------------------------------------------
MCInit ==
  /\ part \in {"ledger", "rate_limit", "deep_scan", "session_log", "feeds"}
  /\ LedgerInit /\ RateInit /\ DeepInit /\ SessionInit /\ FeedInit
  \* One question is asked of deep scan where it is not the part that moves.
  /\ part # "deep_scan" => ~asked.same /\ asked.depth = 1 /\ asked.pages = 1

MCNext ==
  /\ UNCHANGED part
  /\ \/ /\ part = "ledger" /\ LedgerNext
        /\ UNCHANGED <<rateVars, deepVars, sessionVars, feedVars>>
     \/ /\ part = "rate_limit" /\ RateNext
        /\ UNCHANGED <<ledgerVars, deepVars, sessionVars, feedVars>>
     \/ /\ part = "deep_scan" /\ DeepNext
        /\ UNCHANGED <<ledgerVars, rateVars, sessionVars, feedVars>>
     \/ /\ part = "session_log" /\ SessionNext
        /\ UNCHANGED <<ledgerVars, rateVars, deepVars, feedVars>>
     \/ /\ part = "feeds" /\ FeedNext
        /\ UNCHANGED <<ledgerVars, rateVars, deepVars, sessionVars>>

MCSpec == MCInit /\ [][MCNext]_vars
=============================================================================
