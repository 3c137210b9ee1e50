---------------------------- MODULE Corroborators ----------------------------
(***************************************************************************)
(* Three of the lookups that a request makes beside its render, each on a  *)
(* goroutine, and joins before the policy: the domain's registration       *)
(* (RDAP), the protective DNS vendors' consensus, Google Web Risk.  Each   *)
(* has a cache that all requests share, the first and last in the process, *)
(* the second in Redis.  A request may be given up by its client: what it  *)
(* still asks then fails.  The model has one domain with one URL.          *)
(***************************************************************************)
EXTENDS Integers, FiniteSets

CONSTANTS
  Callers,   \* requests
  Bases,     \* RDAP servers of the domain's TLD, asked in turn
  Vendors, Sinks, \* DNS vendors, and those that answer a block with a sinkhole's address
  AgeTTL, NotFoundTTL, ErrorTTL, \* RDAP: 7 days, 24 hours, 15 minutes
  DnsTTL,    \* vendorDNSCacheTTL, an hour
  RiskTTL,   \* WebRiskCacheTTL, 6 hours
  MaxHours,  \* bound on the clock
  Watched    \* bound: sets of lookups that are looked at together; they share nothing

ASSUME CorrBounds ==
  /\ Bases \in Nat \ {0} /\ MaxHours \in Nat /\ Sinks \subseteq Vendors
  /\ {AgeTTL, NotFoundTTL, ErrorTTL, DnsTTL, RiskTTL} \subseteq Nat \ {0}

VARIABLES
  hour,
  facts,   \* [registered, flagged: hour since which it is so; blockers: vendors]
  lookups, \* lookups that are configured (the vendors' always is), of those looked at
  gone,    \* requests whose client has left
  phase,   \* request |-> lookup |-> "read" (the cache), "ask", "done"
  base,    \* request |-> RDAP server it asks
  answer,    \* request |-> lookup |-> [what, at]
  cached,  \* lookup |-> [what, until]
  failedAt \* history: hour in which an RDAP lookup last failed

corrVars == <<hour, facts, lookups, gone, phase, base, answer, cached, failedAt>>

Lookups == {"rdap", "dns", "risk"}
NotSo == MaxHours + 1
\* What a lookup has brought before it brings anything.
Blank(k) == IF k = "dns" THEN [by |-> {}, answered |-> {}, exists |-> FALSE] ELSE "nothing"

\* Goroutines of what is not configured end at once.
CorrInit ==
  /\ hour = 0 /\ gone = {} /\ failedAt = -1
  /\ facts \in [registered : {0, NotSo}, flagged : {0, NotSo}, blockers : SUBSET Vendors]
  /\ lookups \in Watched
  /\ phase = [r \in Callers |-> [k \in Lookups |-> IF k \in lookups THEN "read" ELSE "done"]]
  /\ base = [r \in Callers |-> 1]
  /\ answer = [r \in Callers |-> [k \in Lookups |-> [what |-> Blank(k), at |-> 0]]]
  /\ cached = [k \in Lookups |-> [what |-> Blank(k), until |-> 0]]

-----------------------------------------------------------------------------
Tell(r, k, what) ==
  /\ answer' = [answer EXCEPT ![r][k] = [what |-> what, at |-> hour]]
  /\ phase' = [phase EXCEPT ![r][k] = "done"]

Keep(k, what, ttl) == cached' = [cached EXCEPT ![k] = [what |-> what, until |-> hour + ttl]]

\* A look into the cache; Redis may fail, which is a miss.
ReadCached(r, k) ==
  /\ phase[r][k] = "read"
  /\ \/ /\ hour < cached[k].until /\ Tell(r, k, cached[k].what)
     \/ /\ hour >= cached[k].until \/ k = "dns"
        /\ phase' = [phase EXCEPT ![r][k] = "ask"]
        /\ UNCHANGED answer
  /\ UNCHANGED <<hour, facts, lookups, gone, base, cached, failedAt>>

\* Faulty variant: a domain that is not found is kept like one that is.
RdapTTLClean(what) == IF what = "error" THEN ErrorTTL ELSE AgeTTL

\* cacheStore: the error of one request is what the next ones are told, for a while.
RdapTTL(what) ==
  CASE what = "age" -> AgeTTL
    [] what = "notfound" -> NotFoundTTL
    [] what = "error" -> ErrorTTL

Registration == IF facts.registered <= hour THEN "age" ELSE "notfound"
EndRdap(r, what) == Tell(r, "rdap", what) /\ Keep("rdap", what, RdapTTL(what))

MoreBases(r) == base[r] < Bases

NextBase(r) == base' = [base EXCEPT ![r] = @ + 1]

\* queryOne: an answer, "not found" among them, ends the lookup; a failure leads to the
\* next server, and after the last one is the outcome.
RdapAnswers(r) ==
  /\ phase[r]["rdap"] = "ask" /\ r \notin gone
  /\ EndRdap(r, Registration)
  /\ UNCHANGED <<hour, facts, lookups, gone, base, failedAt>>

RdapFails(r) ==
  /\ phase[r]["rdap"] = "ask"
  /\ IF MoreBases(r)
       THEN NextBase(r) /\ UNCHANGED <<answer, phase, cached, failedAt>>
       ELSE EndRdap(r, "error") /\ failedAt' = hour /\ UNCHANGED base
  /\ UNCHANGED <<hour, facts, lookups, gone>>

-----------------------------------------------------------------------------
\* What a vendor answers: its block, or that there is no such domain, or an address.
Says(v) ==
  IF v \in facts.blockers THEN (IF v \in Sinks THEN "sinkhole" ELSE "nxdomain")
  ELSE IF facts.registered <= hour THEN "address" ELSE "nxdomain"

\* The vendors that block.  "No such domain" is a block only where the baseline resolver
\* knows the domain.
BlockedBy(answered, exists) ==
  {v \in answered : Says(v) = "sinkhole" \/ (exists /\ Says(v) = "nxdomain")}

Consensus(answered, exists) ==
  [by |-> BlockedBy(answered, exists), answered |-> answered, exists |-> exists]

\* checkBaselineExists: a resolver that blocks nothing has the domain, and answers in time.
BaselineFinds(r) == facts.registered <= hour /\ r \notin gone

\* QueryWith: vendors and baseline are asked at the same time, and each has 200 ms.  One
\* that times out is counted as queried, so the answer is always kept, by whatever
\* context: also that of a request that is gone, which nobody answered.
AskDns(r) ==
  /\ phase[r]["dns"] = "ask"
  /\ \E answered \in SUBSET Vendors, exists \in BOOLEAN :
       /\ r \in gone => answered = {}
       /\ exists => BaselineFinds(r)
       /\ LET c == Consensus(answered, exists) IN
            /\ Tell(r, "dns", c)
            /\ Keep("dns", c, DnsTTL) \/ UNCHANGED cached
  /\ UNCHANGED <<hour, facts, lookups, gone, base, failedAt>>

\* Web Risk gives an error: nothing is known, and nothing kept.
RiskFails(r) ==
  /\ phase[r]["risk"] = "ask"
  /\ Tell(r, "risk", Blank("risk"))
  /\ UNCHANGED <<hour, facts, lookups, gone, base, cached, failedAt>>

RiskAnswers(r) ==
  /\ phase[r]["risk"] = "ask" /\ r \notin gone
  /\ LET what == IF facts.flagged <= hour THEN "threat" ELSE "clean" IN
       Tell(r, "risk", what) /\ Keep("risk", what, RiskTTL)
  /\ UNCHANGED <<hour, facts, lookups, gone, base, failedAt>>

-----------------------------------------------------------------------------
\* The client closes its connection, or runs into its own timeout.
Leave(r) ==
  /\ r \notin gone /\ \E k \in Lookups : phase[r][k] = "ask"
  /\ gone' = gone \cup {r}
  /\ UNCHANGED <<hour, facts, lookups, phase, base, answer, cached, failedAt>>

\* Time passes, in which the domain is registered, or Web Risk learns of it.  A lookup
\* that is on its way ends before: it has seconds.
Hour ==
  /\ hour < MaxHours
  /\ \A r \in Callers, k \in Lookups : phase[r][k] # "ask"
  /\ hour' = hour + 1
  /\ \E news \in SUBSET {"registered", "flagged"} :
       facts' = [facts EXCEPT !.registered = IF "registered" \in news /\ @ = NotSo THEN hour + 1 ELSE @,
                              !.flagged = IF "flagged" \in news /\ @ = NotSo THEN hour + 1 ELSE @]
  /\ UNCHANGED <<lookups, gone, phase, base, answer, cached, failedAt>>

Ask(r) == RdapAnswers(r) \/ RdapFails(r) \/ AskDns(r) \/ RiskFails(r) \/ RiskAnswers(r)
CorrNext ==
  Hour \/ \E r \in Callers : Leave(r) \/ Ask(r) \/ \E k \in Lookups : ReadCached(r, k)

\* Every goroutine is run, and what it waits for has a timeout.
CorrFairness == \A r \in Callers :
  /\ WF_corrVars(RdapAnswers(r) \/ RdapFails(r))
  /\ WF_corrVars(AskDns(r))
  /\ WF_corrVars(RiskFails(r) \/ RiskAnswers(r))
CorrSpec == CorrInit /\ [][CorrNext]_corrVars /\ CorrFairness

-----------------------------------------------------------------------------
CorrTypeOK ==
  /\ hour \in 0..MaxHours /\ failedAt \in -1..MaxHours /\ gone \subseteq Callers
  /\ phase \in [Callers -> [Lookups -> {"read", "ask", "done"}]]
  /\ base \in [Callers -> 1..Bases]
  /\ \A r \in Callers : answer[r]["rdap"].what \in {"nothing", "age", "notfound", "error"}
                        /\ answer[r]["risk"].what \in {"nothing", "clean", "threat"}

\* What a request is told was so within the lifetime of that answer, whoever asked for
\* it: that the domain is not registered within a day, that it is clean within six hours.
ToldWasSo ==
  \A r \in Callers :
    /\ LET t == answer[r]["rdap"] IN t.what = "notfound" => facts.registered > t.at - NotFoundTTL
    /\ LET t == answer[r]["risk"] IN t.what = "clean" => facts.flagged > t.at - RiskTTL
    /\ answer[r]["rdap"].what = "age" => facts.registered <= answer[r]["rdap"].at

\* The failure of a lookup, even that of a request whose client only left, is told to
\* others; but it is nobody's answer a quarter of an hour after the last failure.
FailuresAreShort ==
  \A r \in Callers :
    LET t == answer[r]["rdap"] IN t.what = "error" => failedAt # -1 /\ failedAt > t.at - ErrorTTL

\* A vendor is named as blocking the domain only if it does: that a domain is not
\* registered makes no vendor block it, then or while the answer is kept.
NamedVendorsBlock ==
  \A r \in Callers : answer[r]["dns"].what.by \subseteq facts.blockers

\* An answer that requests share may be told to each of them: it was so when it says, it
\* is kept no longer than its kind allows, and it accuses no vendor's customers.
SharedAnswersHold == CorrTypeOK /\ ToldWasSo /\ FailuresAreShort /\ NamedVendorsBlock

\* Every lookup that is on its way ends, whatever fails, and so the request that waits
\* for it goes on.
LookupsEnd == \A r \in Callers, k \in Lookups : phase[r][k] = "ask" ~> phase[r][k] = "done"

-----------------------------------------------------------------------------
\* What comments say.
\* vendordns.go: "A transient timeout makes this return false (conservative), which means
\* we won't strip NXDOMAIN blocks": the answer of a vendor that blocks is never lost.
TimeoutKeepsBlocks ==
  \A r \in Callers :
    facts.blockers \cap answer[r]["dns"].what.answered \subseteq answer[r]["dns"].what.by

\* vendordnscache.go: "a cancelled request still seeds the cache for the next request";
\* what it leaves there is somebody's answer.
KeptIsAnAnswer ==
  cached["dns"].until > 0 => cached["dns"].what.answered # {}
=============================================================================
