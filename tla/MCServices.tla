----------------------------- MODULE MCServices -----------------------------
(***************************************************************************)
(* Instances of the services around the verdict, each of them one part of  *)
(* a run: `part` says which one moves, and the state of the others stays   *)
(* what it is in the beginning.                                            *)
(***************************************************************************)
EXTENDS Registries, QueryLog, Scheduler, CtMonitor, Corroborators

CONSTANT Blockers \* vendors that block the domain

VARIABLE part

vars == <<part, regVars, qlVars, schedVars, sweepVars, ctVars, corrVars>>

-----------------------------------------------------------------------------
(* Registries: a login host, a pattern under the same name, a docs host; a *)
(* brand of trustreg's list, one that brandgraph's own maps narrow to a    *)
(* login host and to docs, a host of the operator's; and hosts that end in *)
(* a listed name with and without the dot in between.                      *)
Row(b, key, w, s) == [brand |-> b, key |-> key, wild |-> w, scope |-> s]
MCHostRows ==
  {Row("Acme", <<"acme", "test">>, FALSE, "login"),
   Row("Acme", <<"acme", "test">>, TRUE, "full-trust"),
   Row("Docs", <<"docs", "acme", "test">>, TRUE, "docs")}
MCOtherRows == {"r1", "r2"}
MCScoped == {Row("Net", <<"acct", "test">>, FALSE, "login"), Row("Net", <<"net", "test">>, TRUE, "docs")}
MCCurated ==
  {Row("Bank", <<"bank", "test">>, w, "full-trust") : w \in BOOLEAN} \cup
  {[r EXCEPT !.scope = "full-trust"] : r \in MCScoped}
MCLocal == {Row("local", <<"corp", "test">>, TRUE, "full-trust")}
MCAsked ==
  {<<"acme", "test">>, <<"myacme", "test">>, <<"a", "docs", "acme", "test">>,
   <<"bank", "test">>, <<"w", "bank", "test">>, <<"w", "corp", "test">>,
   <<"acct", "test">>, <<"x", "net", "test">>}
MCTails == {<<"myacme", "acme">>}

(* Scheduler: two urls of one domain, and one of another.                  *)
MCUrls == {[url |-> "a1", domain |-> "a", rank |-> 1], [url |-> "a2", domain |-> "a", rank |-> 2],
           [url |-> "b1", domain |-> "b", rank |-> 3]}

(* CtMonitor: a name that the stream and crt.sh both find, listed under a  *)
(* keyword whose answer is read to its end and under one whose is not.     *)
MCFound == {<<"pay-a", "pay">>, <<"pay-a", "bank">>}
MCOthers == [k \in Keywords |-> IF k = "bank" THEN 2 ELSE 1]

-----------------------------------------------------------------------------
Parts == {"registries", "query_log", "scheduler", "sweep", "ct_monitor", "corroborators"}

MCInit ==
  /\ part \in Parts
  /\ RegInit /\ QLInit /\ SchedInit /\ SweepInit /\ CtInit /\ CorrInit
  \* Of the facts about a domain only those vary that the watched lookup is told.
  /\ part # "corroborators" => lookups = {"dns"}
  /\ facts.blockers = (IF part = "corroborators" /\ lookups = {"dns"} THEN Blockers ELSE {})
  /\ facts.registered = (IF lookups = {"risk"} THEN 0 ELSE NotSo)
  /\ lookups # {"risk"} => facts.flagged = 0

MCNext ==
  \/ /\ part = "registries" /\ RegNext
     /\ UNCHANGED <<part, qlVars, schedVars, sweepVars, ctVars, corrVars>>
  \/ /\ part = "query_log" /\ QLNext
     /\ UNCHANGED <<part, regVars, schedVars, sweepVars, ctVars, corrVars>>
  \/ /\ part = "scheduler" /\ SchedNext
     /\ UNCHANGED <<part, regVars, qlVars, sweepVars, ctVars, corrVars>>
  \/ /\ part = "sweep" /\ SweepNext
     /\ UNCHANGED <<part, regVars, qlVars, schedVars, ctVars, corrVars>>
  \/ /\ part = "ct_monitor" /\ CtNext
     /\ UNCHANGED <<part, regVars, qlVars, schedVars, sweepVars, corrVars>>
  \/ /\ part = "corroborators" /\ CorrNext
     /\ UNCHANGED <<part, regVars, qlVars, schedVars, sweepVars, ctVars>>

\* The fairness of each module, for the part that moves.
RegRest == <<qlVars, schedVars, sweepVars, ctVars, corrVars>>
QLRest == <<regVars, schedVars, sweepVars, ctVars, corrVars>>
SchedRest == <<regVars, qlVars, sweepVars, ctVars, corrVars>>
SweepRest == <<regVars, qlVars, schedVars, ctVars, corrVars>>
CorrRest == <<regVars, qlVars, schedVars, sweepVars, ctVars>>
CtRest == <<regVars, qlVars, schedVars, sweepVars, corrVars>>

MCFairness ==
  /\ \A t \in Tickers : SF_vars(part = "registries" /\ Refresh(t) /\ UNCHANGED <<part, RegRest>>)
  /\ WF_vars(part = "query_log" /\ Read /\ UNCHANGED <<part, QLRest>>)
  /\ WF_vars(part = "query_log" /\ (InsertOk \/ InsertFails) /\ UNCHANGED <<part, QLRest>>)
  /\ WF_vars(part = "query_log" /\ Ack /\ UNCHANGED <<part, QLRest>>)
  /\ WF_vars(part = "scheduler" /\ Elapse /\ UNCHANGED <<part, SchedRest>>)
  /\ SF_vars(part = "scheduler" /\ BeginTick /\ UNCHANGED <<part, SchedRest>>)
  /\ WF_vars(part = "scheduler" /\ Skip /\ UNCHANGED <<part, SchedRest>>)
  /\ WF_vars(part = "scheduler" /\ BeginDispatch /\ UNCHANGED <<part, SchedRest>>)
  /\ WF_vars(part = "scheduler" /\ EndTick /\ UNCHANGED <<part, SchedRest>>)
  /\ WF_vars(part = "scheduler" /\ (DispatchFails \/ DispatchScans) /\ UNCHANGED <<part, SchedRest>>)
  /\ WF_vars(part = "sweep" /\ SweepThrough /\ UNCHANGED <<part, SweepRest>>)
  /\ \A r \in Callers :
       /\ WF_vars(part = "corroborators" /\ (RdapAnswers(r) \/ RdapFails(r)) /\ UNCHANGED <<part, CorrRest>>)
       /\ WF_vars(part = "corroborators" /\ AskDns(r) /\ UNCHANGED <<part, CorrRest>>)
       /\ WF_vars(part = "corroborators" /\ (RiskFails(r) \/ RiskAnswers(r)) /\ UNCHANGED <<part, CorrRest>>)
  /\ WF_vars(part = "ct_monitor" /\ (\E failing \in SUBSET ToSet(Sought) : Cycle(failing))
             /\ UNCHANGED <<part, CtRest>>)

MCSpec == MCInit /\ [][MCNext]_vars /\ MCFairness
-----------------------------------------------------------------------------
\* Each service comes to what it owes, though each of its steps may fail: caches catch
\* up, the queue of entries moves, a due row is posted, expired rows go, every keyword
\* has its turn, and lookups end.
ServicesMove ==
  /\ TickingCatchesUp /\ QueueMoves /\ SingleIsPosted
  /\ ExpiredIsSwept /\ EachHasItsTurn /\ LookupsEnd
=============================================================================
