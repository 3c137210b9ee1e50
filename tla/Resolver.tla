------------------------------ MODULE Resolver ------------------------------
(***************************************************************************)
(* The DNS resolver: the queries it decides (resolve), the verdict cache   *)
(* they share in Redis, and the block lists, which the fetcher replaces in *)
(* Redis and on disk and the resolver loads into memory on SIGHUP.         *)
(*                                                                         *)
(* A query is a goroutine; each access to Redis, to the filters under      *)
(* their lock and to verdict-api is a step of its own.  Redis may fail at  *)
(* any of them, verdict-api and upstream may answer anything.              *)
(***************************************************************************)
EXTENDS Integers

CONSTANTS
  Queries, Domains,
  NeverBlock,   \* the never-block list, without shared-hosting suffixes
  Split,        \* listed names that straddle a 64 KB boundary of the file
  Collisions,   \* names the Bloom filter takes for listed ones
  Answers,      \* what verdict-api may answer
  BlockTTL, CleanTTL, WarnTTL, AnalyzingTTL,   \* their order, not their length
  MaxNow, MaxQueries, MaxFetches, MaxFaults,   \* bounds
  Faults,       \* "redis": a call fails, "fetcher": the fetcher dies
  None

Kinds == {"block", "warn", "clean", "analyzing", "unknown"}

ASSUME ListsAssumption ==
  NeverBlock \subseteq Domains /\ Split \subseteq Domains
  /\ Collisions \subseteq Domains
ASSUME AnswersAssumption == Answers \subseteq Kinds
ASSUME TimesAssumption ==
  /\ {BlockTTL, CleanTTL, WarnTTL, AnalyzingTTL, MaxNow, MaxQueries, MaxFetches, MaxFaults} \subseteq Nat
  /\ AnalyzingTTL <= WarnTTL /\ WarnTTL <= CleanTTL /\ CleanTTL <= BlockTTL
ASSUME FaultsAssumption == Faults \subseteq {"redis", "fetcher"}

Steps == {"strict", "strictSet", "allow", "weak", "weakSet", "cache", "tier1", "store",
          "upstream", "done"}
Replies == {"nx", "address", "rebound", "servfail"}
OrNone(S) == S \cup {None}

\* What is kept in Redis for a domain; what a goroutine knows of its query; what a reload read.
Entries == [kind : Kinds, until : OrNone(Nat)]
QueryRecords ==
  [domain : Domains, popular : BOOLEAN, pc : Steps, used : Kinds, answer : OrNone(Replies),
   calm : BOOLEAN, erred : BOOLEAN, kind : OrNone(Kinds), missed : OrNone(Entries)]
Loads == [from : SUBSET Domains]

ASSUME NoneAssumption == None \notin Replies \cup QueryRecords \cup Loads

VARIABLES
  now,
  query,    \* the goroutines
  verdict,  \* verdict:<domain> in Redis
  strict, weak,        \* blocklist:strict and blocklist:weak in Redis
  file,     \* blocklist.strict.txt
  filter,   \* what the filter in memory was built from
  loading,  \* what the reload has read
  hup,      \* a SIGHUP waits in the channel
  fetcher, fetched,    \* the fetcher's next step and the lists it got
  asked, fetches, faults

lists == <<strict, weak, file, filter, loading, hup, fetcher, fetched, fetches>>
vars == <<now, query, verdict, lists, asked, faults>>

\* A name is on one list at most.
Lists == {lst \in [strict : SUBSET Domains, weak : SUBSET Domains] : lst.strict \cap lst.weak = {}}

\* An earlier fetch has filled the lists; somebody may have sent a SIGHUP since.
Init ==
  /\ now = 0
  /\ query = [q \in Queries |-> None]
  /\ verdict = [d \in Domains |-> None]
  /\ fetched \in Lists
  /\ strict = fetched.strict /\ weak = fetched.weak
  /\ file = strict /\ filter = file /\ loading = None /\ hup \in BOOLEAN
  /\ fetcher = "idle"
  /\ asked = 0 /\ fetches = 0 /\ faults = 0

-----------------------------------------------------------------------------
(* resolve *)

At(q, pc) == query[q] # None /\ query[q].pc = pc
Goto(q, pc) == query' = [query EXCEPT ![q].pc = pc]

\* The decision is made, NXDOMAIN or the question goes upstream; what it rests on is dropped.
Decide(q, used, pc, answer) ==
  query' = [query EXCEPT ![q] = [@ EXCEPT !.pc = pc, !.used = used, !.answer = answer,
                                          !.kind = None, !.missed = None]]
Refuse(q, used) == Decide(q, used, "done", "nx")
Forward(q, used) == Decide(q, used, "upstream", None)

\* blockHas: no name that was added is missed, some others collide.
BlockHas(d) == d \in (filter \ Split) \cup Collisions

\* Redis does not answer: the caller sees an empty result.
RedisFails(q) ==
  /\ "redis" \in Faults /\ faults < MaxFaults
  /\ faults' = faults + 1

\* A question arrives; 0) isNeverBlock, whose set no step here changes.
\* popular: the name is on the allow list, which other tools refresh.  calm: no list
\* changed since the query began.  missed: what the cache held when it was read.
Ask(q, d, p) ==
  /\ query[q] = None /\ asked < MaxQueries
  /\ asked' = asked + 1
  /\ query' = [query EXCEPT ![q] =
       [domain |-> d, popular |-> p, pc |-> IF d \in NeverBlock THEN "upstream" ELSE "strict",
        used |-> IF d \in NeverBlock THEN "clean" ELSE "unknown", answer |-> None,
        calm |-> TRUE, erred |-> FALSE, kind |-> None, missed |-> None]]
  /\ UNCHANGED <<now, verdict, lists, faults>>

\* 1) the filter, for the strict list.
ProbeStrict(q) ==
  /\ At(q, "strict")
  /\ Goto(q, IF BlockHas(query[q].domain) THEN "strictSet" ELSE "allow")
  /\ UNCHANGED <<now, verdict, lists, asked, faults>>

\* Faulty variant: a listed name that is popular is forwarded.
ReadStrictPopular(q) ==
  /\ At(q, "strictSet")
  /\ IF query[q].domain \in strict /\ ~query[q].popular THEN Refuse(q, "block") ELSE Goto(q, "allow")
  /\ UNCHANGED <<now, verdict, lists, asked, faults>>

\* 1) the strict list itself.
ReadStrict(q) ==
  /\ At(q, "strictSet")
  /\ IF query[q].domain \in strict THEN Refuse(q, "block") ELSE Goto(q, "allow")
  /\ UNCHANGED <<now, verdict, lists, asked, faults>>

\* 2) the allow list; a Redis error shows as not a member.
ReadAllow(q) ==
  /\ At(q, "allow")
  /\ IF query[q].popular THEN Forward(q, "clean") ELSE Goto(q, "weak")
  /\ UNCHANGED <<now, verdict, lists, asked, faults>>

\* 3) the filter again, for the weak list.
ProbeWeak(q) ==
  /\ At(q, "weak")
  /\ Goto(q, IF BlockHas(query[q].domain) THEN "weakSet" ELSE "cache")
  /\ UNCHANGED <<now, verdict, lists, asked, faults>>

ReadWeak(q) ==
  /\ At(q, "weakSet")
  /\ IF query[q].domain \in weak THEN Forward(q, "warn") ELSE Goto(q, "cache")
  /\ UNCHANGED <<now, verdict, lists, asked, faults>>

\* A SIsMember or Get fails: as if the name were not there.
ReadFails(q) ==
  /\ RedisFails(q)
  /\ \E step \in {<<"strictSet", "allow">>, <<"allow", "weak">>, <<"weakSet", "cache">>,
                  <<"cache", "tier1">>} :
       /\ At(q, step[1])
       /\ query' = [query EXCEPT ![q].pc = step[2], ![q].erred = TRUE]
  /\ UNCHANGED <<now, verdict, lists, asked>>

Valid(e) == e # None /\ (e.until = None \/ now <= e.until)

\* Faulty variant: a cached block is asked again.
ReadCacheAgain(q) ==
  /\ At(q, "cache")
  /\ LET e == verdict[query[q].domain] IN
     IF ~Valid(e) \/ e.kind \in {"unknown", "block"}
     THEN query' = [query EXCEPT ![q].pc = "tier1", ![q].missed = e]
     ELSE IF e.kind = "analyzing" THEN Refuse(q, e.kind) ELSE Forward(q, e.kind)
  /\ UNCHANGED <<now, verdict, lists, asked, faults>>

\* The cached verdict; "unknown" is no verdict.
ReadCache(q) ==
  /\ At(q, "cache")
  /\ LET e == verdict[query[q].domain] IN
     IF ~Valid(e) \/ e.kind = "unknown"
     THEN query' = [query EXCEPT ![q].pc = "tier1", ![q].missed = e]
     ELSE IF e.kind \in {"block", "analyzing"} THEN Refuse(q, e.kind) ELSE Forward(q, e.kind)
  /\ UNCHANGED <<now, verdict, lists, asked, faults>>

\* tier1Verdict: ALLOW, ISOLATE, errors and timeouts are all "unknown".
Tier1(q) ==
  /\ At(q, "tier1")
  /\ \E kind \in Answers :
       query' = [query EXCEPT ![q].pc = "store", ![q].kind = kind]
  /\ UNCHANGED <<now, verdict, lists, asked, faults>>

TTLOf(kind) ==
  CASE kind = "block" -> now + BlockTTL
    [] kind = "clean" -> now + CleanTTL
    [] kind = "warn" -> now + WarnTTL
    [] kind = "analyzing" -> now + AnalyzingTTL
    [] kind = "unknown" -> None

Decided(q) ==
  IF query[q].kind \in {"block", "analyzing"} THEN Refuse(q, query[q].kind)
  ELSE Forward(q, query[q].kind)

\* Set; a time to live of zero is none at all.
Store(q) ==
  /\ At(q, "store")
  /\ verdict' = [verdict EXCEPT ![query[q].domain] =
       [kind |-> query[q].kind, until |-> TTLOf(query[q].kind)]]
  /\ Decided(q)
  /\ UNCHANGED <<now, lists, asked, faults>>

\* The write fails or the deadline has passed; the decision stands.
StoreFails(q) ==
  /\ RedisFails(q)
  /\ At(q, "store")
  /\ Decided(q)
  /\ UNCHANGED <<now, verdict, lists, asked>>

\* upstreamAnswer: an address, none that is public, or a failure.
Upstream(q) ==
  /\ At(q, "upstream")
  /\ \E answer \in {"address", "rebound", "servfail"} :
       query' = [query EXCEPT ![q].pc = "done", ![q].answer = answer]
  /\ UNCHANGED <<now, verdict, lists, asked, faults>>

Reply(q) ==
  /\ At(q, "done")
  /\ query' = [query EXCEPT ![q] = None]
  /\ UNCHANGED <<now, verdict, lists, asked, faults>>

-----------------------------------------------------------------------------
(* The fetcher and the reload *)

Disturbed ==
  [q \in Queries |-> IF query[q] = None THEN None ELSE [query[q] EXCEPT !.calm = FALSE]]

FetcherAt(pc, next) ==
  /\ fetcher = pc /\ fetcher' = next
  /\ query' = Disturbed
  /\ UNCHANGED <<now, verdict, asked>>

\* The feeds are read: a name of a high-precision feed is strict, any other weak.
Fetch ==
  /\ fetches < MaxFetches /\ fetches' = fetches + 1
  /\ FetcherAt("idle", "clearStrict")
  /\ fetched' \in Lists
  /\ UNCHANGED <<strict, weak, file, filter, loading, hup, faults>>

\* The pipeline, which is no transaction: both sets are deleted before they are filled.
ClearStrict ==
  /\ FetcherAt("clearStrict", "clearWeak") /\ strict' = {}
  /\ UNCHANGED <<weak, file, filter, loading, hup, fetched, fetches, faults>>

ClearWeak ==
  /\ FetcherAt("clearWeak", "addStrict") /\ weak' = {}
  /\ UNCHANGED <<strict, file, filter, loading, hup, fetched, fetches, faults>>

AddStrict ==
  /\ FetcherAt("addStrict", "addWeak") /\ strict' = fetched.strict
  /\ UNCHANGED <<weak, file, filter, loading, hup, fetched, fetches, faults>>

AddWeak ==
  /\ FetcherAt("addWeak", "write") /\ weak' = fetched.weak
  /\ UNCHANGED <<strict, file, filter, loading, hup, fetched, fetches, faults>>

WriteFile ==
  /\ FetcherAt("write", "signal") /\ file' = fetched.strict
  /\ UNCHANGED <<strict, weak, filter, loading, hup, fetched, fetches, faults>>

\* Faulty variant: a signal that comes during a reload is lost.
SignalUnbuffered ==
  /\ FetcherAt("signal", "idle") /\ hup' = (loading = None)
  /\ UNCHANGED <<strict, weak, file, filter, loading, fetched, fetches, faults>>

\* The unit that runs the fetcher sends SIGHUP after it; the channel holds one.
Signal ==
  /\ FetcherAt("signal", "idle") /\ hup' = TRUE
  /\ UNCHANGED <<strict, weak, file, filter, loading, fetched, fetches, faults>>

FetcherDies ==
  /\ "fetcher" \in Faults /\ faults < MaxFaults /\ faults' = faults + 1
  /\ fetcher # "idle" /\ fetcher' = "idle"
  /\ UNCHANGED <<now, query, verdict, strict, weak, file, filter, loading, hup, fetched, fetches,
                 asked>>

\* reloadBloom reads the files ...
Load ==
  /\ hup /\ loading = None
  /\ hup' = FALSE
  /\ loading' = [from |-> file]
  /\ UNCHANGED <<now, query, verdict, strict, weak, file, filter, fetcher, fetched, fetches, asked,
                 faults>>

\* ... and swaps the filters under the lock.
Swap ==
  /\ loading # None
  /\ filter' = loading.from
  /\ loading' = None
  /\ query' = Disturbed
  /\ UNCHANGED <<now, verdict, strict, weak, file, hup, fetcher, fetched, fetches, asked, faults>>

Tick ==
  /\ now < MaxNow /\ now' = now + 1
  /\ UNCHANGED <<query, verdict, lists, asked, faults>>

-----------------------------------------------------------------------------
Resolve(q) ==
  \/ ProbeStrict(q) \/ ReadStrict(q) \/ ReadAllow(q) \/ ProbeWeak(q)
  \/ ReadWeak(q) \/ ReadCache(q) \/ Tier1(q) \/ Store(q) \/ Upstream(q) \/ Reply(q)

Refresh ==
  ClearStrict \/ ClearWeak \/ AddStrict \/ AddWeak \/ WriteFile \/ Signal

Reload == Load \/ Swap

Next ==
  \/ \E q \in Queries :
       Resolve(q) \/ ReadFails(q) \/ StoreFails(q) \/ \E d \in Domains, p \in BOOLEAN : Ask(q, d, p)
  \/ Fetch \/ Refresh \/ FetcherDies \/ Reload \/ Tick

Spec == Init /\ [][Next]_vars

-----------------------------------------------------------------------------
\* Cache entries, queries and lists hold what the code puts there, and no query ends
\* without an answer.
TypeOK ==
  /\ now \in Nat /\ asked \in Nat /\ fetches \in Nat /\ faults \in Nat
  /\ verdict \in [Domains -> OrNone(Entries)]
  /\ query \in [Queries -> OrNone(QueryRecords)]
  /\ \A q \in Queries : query[q] # None => (query[q].answer = None) = (query[q].pc # "done")
  /\ strict \in SUBSET Domains /\ weak \in SUBSET Domains
  /\ file \in SUBSET Domains /\ filter \in SUBSET Domains /\ fetched \in Lists
  /\ loading \in OrNone(Loads) /\ hup \in BOOLEAN
  /\ fetcher \in {"idle", "clearStrict", "clearWeak", "addStrict", "addWeak", "write", "signal"}

\* main.go:544-555: strict-block beats the popular names: a query during which no list
\* changes and Redis answers refuses every name on the strict list that is not never-block.
ListedIsRefused ==
  \A q \in Queries :
    /\ At(q, "done") /\ query[q].calm /\ ~query[q].erred
    /\ query[q].domain \in (strict \cap filter) \ NeverBlock
    => query[q].answer = "nx"

\* A valid BLOCK in the cache is overwritten only by a query that looked and did not see
\* it: it came before the BLOCK did, or Redis failed.
BlockOverwrittenByRaceOnly ==
  [][\A q \in Queries :
       LET e == verdict[query[q].domain] IN
       Store(q) /\ Valid(e) /\ e.kind = "block" => query[q].missed # e]_vars

\* Once a fetch that nothing disturbed is over and the reload has come to rest, the lists
\* in Redis, the file and the filter are those it got, whatever it overtook.
ListingTakesEffect ==
  fetcher = "idle" /\ ~hup /\ loading = None /\ faults = 0 =>
    strict = fetched.strict /\ weak = fetched.weak /\ file = strict /\ filter = file

\* A change of the lists takes effect, in states the resolver can be in.
ListsTakeEffect == TypeOK /\ ListingTakesEffect

-----------------------------------------------------------------------------
(* What comments say; the code does otherwise *)

\* main.go:549: weak_block names go upstream "logged as warn".
WeakIsFlagged ==
  \A q \in Queries :
    /\ At(q, "done") /\ query[q].calm /\ ~query[q].erred /\ ~query[q].popular
    /\ query[q].domain \in weak \ NeverBlock
    => query[q].used = "warn"
============================================================================
