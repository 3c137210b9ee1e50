------------------------------ MODULE Scheduler ------------------------------
(***************************************************************************)
(* The scheduler: a poller that takes the urls due for a rescan from       *)
(* Postgres at every tick and posts each to verdict-api's /v1/scan, no     *)
(* domain more than once in the rate limit that it remembers till it       *)
(* stops; and the sweep that deletes expired rows, table by table, up to   *)
(* the first that it cannot.                                               *)
(*                                                                         *)
(* Nothing in the repository writes urls.next_rescan_at: rows become due   *)
(* and cease to be by an operator's hand, and a dispatched row stays due.  *)
(* Nor does anything write evidence.retention_until; and persistScan makes *)
(* scan_history refer to every row of evidence, which then cannot go.      *)
(***************************************************************************)
EXTENDS Integers, Sequences, FiniteSets, SequencesExt

CONSTANTS
  Urls,      \* rows of urls: [url, domain, rank], rank by grade and due time, all distinct
  Batch,     \* rows of one query (100)
  Interval,  \* of the ticker (30 s)
  PerDomain, \* per domain (30 s)
  TokenSet   \* XGG_INTERNAL_TOKEN is set where verdict-api runs

ASSUME SchedulerBounds ==
  /\ IsFiniteSet(Urls)
  /\ Batch \in Nat \ {0} /\ Interval \in Nat \ {0} /\ PerDomain \in Nat \ {0}
  /\ TokenSet \in BOOLEAN
  /\ \A a, b \in Urls : a.rank = b.rank => a = b

UrlDomains == {u.domain : u \in Urls}
SweptTables == <<"overrides", "evidence", "popup_edges">>

VARIABLES
  due,     \* rows with next_rescan_at in the past
  tick,    \* "waiting" or "running"; "down" where no process runs
  fired,   \* the ticker's channel holds a tick (it holds one)
  toTick,  \* time to the next
  picked,  \* rows the running tick has still to look at
  sending, \* the row whose request is under way, or NoUrl
  since,   \* domain |-> time since it was marked as seen, up to PerDomain
  posted,  \* history: domains that this process has sent requests to
  spaced,  \* history: domain |-> time since its last request ended, up to PerDomain
  expired, \* tables that hold expired rows: the sweep is a goroutine of its own
  held     \* scan_history refers to an expired row of evidence

schedVars == <<due, tick, fired, toTick, picked, sending, since, posted, spaced>>
sweepVars == <<expired, held>>

NoUrl == [url |-> "none", domain |-> "none", rank |-> 0]
NoDomain == ""
Long == [d \in UrlDomains |-> PerDomain]

SchedInit ==
  /\ due = {} /\ picked = <<>> /\ sending = NoUrl
  /\ tick = "waiting" /\ fired = TRUE /\ toTick = Interval
  /\ since = Long /\ posted = {} /\ spaced = Long

SweepInit == expired = {} /\ held = FALSE

-----------------------------------------------------------------------------
SetDue(u) ==
  /\ due' = IF u \in due THEN due \ {u} ELSE due \cup {u}
  /\ UNCHANGED <<tick, fired, toTick, picked, sending, since, posted, spaced>>

Later(ages) == [d \in UrlDomains |-> IF ages[d] < PerDomain THEN ages[d] + 1 ELSE PerDomain]

\* A domain's clock begins anew.
Marked(ages, d) == IF d = NoDomain THEN ages ELSE [ages EXCEPT ![d] = 0]

\* Time passes.  A tick that finds the channel full is dropped.
Elapse ==
  /\ since' = Later(since) /\ spaced' = Later(spaced)
  /\ toTick' = IF toTick = 1 THEN Interval ELSE toTick - 1
  /\ fired' = (fired \/ toTick = 1)
  /\ UNCHANGED <<due, tick, picked, sending, posted>>

\* tick: the query, in the order of rank and with its limit.
BeginTick ==
  /\ tick = "waiting" /\ fired
  /\ \E ordered \in SetToSeqs(due) :
       /\ \A m, n \in DOMAIN ordered : m < n => ordered[m].rank <= ordered[n].rank
       /\ picked' = SubSeq(ordered, 1, IF Len(ordered) < Batch THEN Len(ordered) ELSE Batch)
  /\ tick' = "running" /\ fired' = FALSE
  /\ UNCHANGED <<due, toTick, sending, since, posted, spaced>>

\* The query fails: nothing until the next tick.
QueryFails ==
  /\ tick = "waiting" /\ fired
  /\ fired' = FALSE
  /\ UNCHANGED <<due, tick, toTick, picked, sending, since, posted, spaced>>

\* rateLimited and markSeen leave a row with no domain alone.
RateLimited(u) == u.domain # NoDomain /\ since[u.domain] < PerDomain

Skip ==
  /\ tick = "running" /\ sending = NoUrl /\ picked # <<>>
  /\ RateLimited(Head(picked))
  /\ picked' = Tail(picked)
  /\ UNCHANGED <<due, tick, fired, toTick, sending, since, posted, spaced>>

\* Enqueue: POST /v1/scan, without the token that /v1/scan asks for where one is set.
BeginDispatch ==
  /\ tick = "running" /\ sending = NoUrl /\ picked # <<>>
  /\ ~RateLimited(Head(picked))
  /\ sending' = Head(picked) /\ picked' = Tail(picked)
  /\ UNCHANGED <<due, tick, fired, toTick, since, posted, spaced>>

\* A request has ended: a moment ago, whether the poller marks it or not.
Ended ==
  /\ sending # NoUrl /\ sending' = NoUrl
  /\ spaced' = Marked(spaced, sending.domain)
  /\ posted' = posted \cup ({sending.domain} \ {NoDomain})
  /\ UNCHANGED <<due, tick, fired, toTick, picked>>

\* Faulty variant: only an answered request marks the domain.
FailureUnmarked == Ended /\ since' = since

\* The request fails, is refused, or is cut off at 3 s where the scan may take 12 s, which
\* cancels the scan: Enqueue returns nil all the same, and the domain is marked as seen.
DispatchFails == Ended /\ since' = Marked(since, sending.domain)

\* The scan is done in time.
DispatchScans == Ended /\ ~TokenSet /\ since' = Marked(since, sending.domain)

EndTick ==
  /\ tick = "running" /\ sending = NoUrl /\ picked = <<>>
  /\ tick' = "waiting"
  /\ UNCHANGED <<due, fired, toTick, picked, sending, since, posted, spaced>>

\* The process ends, with a request under way or not, and lastByDom with it; Run begins
\* with a tick at once.
Stop ==
  /\ tick # "down"
  /\ tick' = "down" /\ picked' = <<>> /\ sending' = NoUrl
  /\ fired' = FALSE /\ toTick' = Interval
  /\ since' = Long /\ posted' = {}
  /\ spaced' = IF sending = NoUrl THEN spaced ELSE Marked(spaced, sending.domain)
  /\ UNCHANGED due
Start ==
  /\ tick = "down"
  /\ tick' = "waiting" /\ fired' = TRUE /\ toTick' = Interval
  /\ UNCHANGED <<due, picked, sending, since, posted, spaced>>

SchedNext ==
  \/ \E u \in Urls : SetDue(u)
  \/ Elapse
  \/ BeginTick \/ QueryFails \/ Skip \/ BeginDispatch
  \/ DispatchFails \/ DispatchScans \/ EndTick
  \/ Stop \/ Start

\* Time goes on, a tick runs to its end, and now and then Postgres answers.
SchedFairness ==
  /\ WF_schedVars(Elapse) /\ SF_schedVars(BeginTick)
  /\ WF_schedVars(Skip) /\ WF_schedVars(BeginDispatch) /\ WF_schedVars(EndTick)
  /\ WF_schedVars(DispatchFails \/ DispatchScans)
SchedSpec == SchedInit /\ [][SchedNext]_schedVars /\ SchedFairness

\* Rows of a table expire; a row of evidence with its scan in scan_history.
Expire(t) ==
  /\ expired' = expired \cup {t}
  /\ held' = (held \/ t = "evidence")

\* An operator deletes the scans, the one way to be rid of the foreign key.
ForgetScans == held /\ held' = FALSE /\ UNCHANGED expired

\* Sweep, up to and without the first delete that fails: which that of evidence does as
\* long as a scan refers to one of its expired rows.
Sweep(n) ==
  /\ n >= 2 => ~held
  /\ expired' = expired \ {SweptTables[m] : m \in 1..n}
  /\ expired' # expired
  /\ UNCHANGED held

SweepNext ==
  \/ \E t \in Range(SweptTables) : Expire(t)
  \/ ForgetScans
  \/ \E n \in DOMAIN SweptTables : Sweep(n)

\* A sweep that gets as far as the rows let it, which now and then one does.
SweepThrough == Sweep(IF held THEN 1 ELSE Len(SweptTables))
SweepSpec == SweepInit /\ [][SweepNext]_sweepVars /\ WF_sweepVars(SweepThrough)

-----------------------------------------------------------------------------
SchedTypeOK ==
  /\ due \subseteq Urls /\ sending \in Urls \cup {NoUrl}
  /\ \A n \in DOMAIN picked : picked[n] \in Urls
  /\ Len(picked) <= Batch /\ tick \in {"waiting", "running", "down"} /\ fired \in BOOLEAN
  /\ tick # "running" => picked = <<>> /\ sending = NoUrl
  /\ toTick \in 1..Interval
  /\ since \in [UrlDomains -> 0..PerDomain] /\ spaced \in [UrlDomains -> 0..PerDomain]
  /\ posted \subseteq UrlDomains
  /\ expired \subseteq Range(SweptTables) /\ held \in BOOLEAN
  /\ held => "evidence" \in expired

\* One poller never sends a site two requests within the rate limit of one another, though
\* several of its urls are due in one tick, requests fail, and ticks run into each other.
DomainSpaced ==
  [][sending = NoUrl /\ sending' # NoUrl /\ sending'.domain \in posted =>
       spaced[sending'.domain] = PerDomain]_schedVars

\* Requests to a site are spaced, in states the poller and the sweep can be in.
DomainsAreSpaced == []SchedTypeOK /\ DomainSpaced

\* poller.go:8 "max 1 / domain / 30s": but not by two pollers, one after the other, the
\* second of which ticks at once and knows nothing of the first one's requests.
SitesAreSpaced ==
  [][sending = NoUrl /\ sending' # NoUrl /\ sending'.domain # NoDomain =>
       spaced[sending'.domain] = PerDomain]_schedVars

\* A row that stays due and is the only one of its domain is posted again and again by a
\* poller that stays up, if a batch can hold all rows: neither a tick that comes just before
\* the domain is free again, nor a failed query or request, nor what others do can keep it
\* waiting.
SingleIsPosted ==
  Cardinality(Urls) <= Batch /\ <>[](tick # "down") =>
    \A u \in Urls : (\A v \in Urls : v.domain = u.domain => v = u)
                       => (<>[](u \in due) => []<>(sending = u))

\* The same of the first row in rank: but another row of its domain may be posted late in
\* every tick, and the first found rate limited at the start of the next.
First(u) == u \in due /\ \A v \in due : u.rank <= v.rank
FirstIsPosted == <>[](tick # "down") => \A u \in Urls : <>[]First(u) => []<>(sending = u)

\* poller.go:5-8: every row that is due is posted: but a dispatched row stays due, so that
\* the first of a domain, or of a full batch, takes the turn of those after it.
DueIsPosted == <>[](tick # "down") => \A u \in Urls : <>[](u \in due) => []<>(sending = u)

\* main.go:70-72 "the next TTL sweep will retry": what stays due is scanned in the end.
DueIsScanned ==
  <>[](tick # "down") => \A u \in Urls : <>[](due = {u}) => []<><<DispatchScans>>_schedVars

\* Expired rows go in the end, through sweeps that fail now and then: those of the table
\* that comes first whatever the others hold, all of them once no scan refers to an
\* expired row of evidence.
ExpiredIsSwept ==
  /\ []<>(SweptTables[1] \notin expired)
  /\ <>[]~held => \A t \in Range(SweptTables) : []<>(t \notin expired)

\* expiry.go:1-3, main.go:6-7: expired rows of all three tables are swept: but a row of
\* evidence that a scan refers to cannot be deleted, and ends every sweep there.
EachTableIsSwept == \A t \in Range(SweptTables) : []<>(t \notin expired)
=============================================================================
