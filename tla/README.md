# XGenGuardian: a TLA+ verification project

XGenGuardian decides whether a web page may be opened. A browser extension
puts each top-level navigation on hold and asks **verdict-api** about the URL;
verdict-api gathers feed rows, DNS vendor opinions, registry entries and a
render of the page, and runs a staged policy engine over them; a **DNS
resolver** refuses names on block lists and asks verdict-api about the others;
a scheduler, a portal and a certificate-transparency monitor work around them.

This directory models the parts of that system whose correctness depends on order,
concurrency, caching and failure, and the pure rules whose thresholds interact: 19
component modules, an abstract specification, the modules that give TLC its instances,
and eight modules of TLAPS proofs. Paths are relative to the
repository's root; `httpgw` stands for `services/verdict-api/internal/httpgw`, and
likewise for its siblings.

## 1. Inventory

### Render coalescer (`httpgw/coalesce.go`, `httpgw/pipeline.go`)

*State.* A map from key (normalised URL) to the call in progress, with its
start time and a channel that is closed at the end.
*Operations.* `do`: join a call younger than `coalesceTTL` (60 s), or register
as its leader, render, broadcast, unregister. The render makes a first attempt
(45 s) and, if it brought no screenshot or an error, a second (30 s).
*Interactions.* Called once per request goroutine by the pipeline; a request
carries its own context (90 s, 12 s for a scheduled scan, or the client going away).
*Hard.* A leader that outlives its TTL while a second one registers; a
follower that joins in the last second; a leader whose client hangs up; a
retry that returns less than the first attempt.
*Correct when* renders of a URL are spaced by the TTL, every follower gets its
own key's outcome within a bounded time, and an old leader never removes a
newer call.

### Verdict pipeline (`httpgw/pipeline.go`, `verdictcache.go`, `persist.go`, `gateway.go`)

*State.* In Redis a verdict per URL and mode class, a render per URL and a
render per domain; in Postgres the rows `evidence`, `urls`, `scan_history`; the
coalescer's map.
*Operations.* `check`, `rescan` and `scan` decode a request and run
`runPipelineWithTier`: verdict cache, feed look-ups, the decision whether to
render, render cache, coalesced render, storing the render, policy,
`persistScan`, response and verdict cache.
*Hard.* Each is a read, a pause of seconds and a write, without a lock; the coalescer's
key drops a trailing slash that the caches and the class of a page keep; modes
(normal, paranoid, ultra) must not share what they conclude; a context may end
between two statements of `persistScan`; what an answer says depends on who asks,
what a cache says does not.
*Correct when* the caches never carry a verdict or a render further than the
code's own conditions allow, the rows agree with each other, and every request
is answered.

### Policy engine (`policy/policy.go`, `httpgw/policymap.go`, `pageclass`)

*State.* None: `Apply` is a function of what `buildPolicyInputs` gathered.
*Operations.* About thirty stages in sequence. A stage returns a verdict,
raises it, counts a soft rule, or passes; two gates at the end serve the paranoid
and ultra modes.
*Hard.* Which stage hides which: an early return, a bound shared by two bands,
trust that is tested in one rule and not in another.
*Correct when* hard evidence blocks, more evidence or a stricter mode never
weakens a verdict, trust never tightens it, and a visual match alone never
condemns a page.

### Browser extension (`apps/extension/src/background.js`, `holding.js`, interstitials)

*State.* `chrome.storage`: pass tokens, verdicts of the session, BLOCK
verdicts kept on disk, trust given for a day, a count of intercepts per URL;
the tabs; the script of each holding page; the stash of verdicts.
*Operations.* `onBeforeNavigate`, `onCreatedNavigationTarget`,
`onErrorOccurred`, the messages resolve, apply and allow_temp, the holding page's
attempts, deadline and buttons, and the buttons of the interstitials.
*Hard.* JavaScript handlers interleave at every `await`; the browser loads the
page meanwhile; the service worker may be killed at any moment; a restart
clears the session storage and not the local one.
*Correct when* a page opens only on a verdict, a known-bad page stays blocked,
the retry guard does not open early, and the holding page never hangs.
The surface shield, copy guard, options and popup pages are DOM work and keep
no state other than preferences.

### DNS resolver (`services/resolver`, `tools/blocklist-fetcher`)

*State.* Two Bloom filters and the never-block set in memory, the strict and
weak lists, the allow list and `verdict:<domain>` in Redis, the list files.
*Operations.* `resolve` in five steps; `reloadBloom` on SIGHUP; the fetcher's
replacement of the lists and files; the query log and the ledger of returned
addresses.
*Hard.* A reload or a refresh in the middle of a query; Redis errors that read
as "not a member"; two queries of a name that end in the other order; a fetcher
that dies half way.
*Correct when* a name on the strict list is refused, a listing takes effect, a
cached BLOCK is not lost, and every query is answered.

### Registries (`brandgraph`, `registry`, `oauthreg`, `trustreg`)

*State.* Three copies in memory of Postgres tables, and two lists compiled in: trustreg's,
of hosts trusted for everything, and brandgraph's own, whose rows have a scope (login,
scripts, payment, ...) and which the first fills up.
*Operations.* Load at start, reload on a ticker, look up a host by name or suffix and scope.
*Hard.* A load that fails half way is kept as if it were whole; a failed one keeps
what there was; one of the three is never reloaded.
*Correct when* the rows compiled in serve their hosts throughout and in their scope only,
the lookups say what the table says, and a copy with a ticker catches up.

### Lookups (`rdap`, `vendordns`, `httpgw/vendordnscache.go`, Web Risk)

*State.* Caches that all requests share, in the process and in Redis.
*Operations.* Registration age, consensus of protective resolvers, Web Risk; each on a
goroutine the request waits for.
*Hard.* A client that leaves makes the lookup fail, and the failure is cached for
others; servers answer, deny or time out each on its own.
*Correct when* what a request is told was so, failures are kept for a shorter time
than answers, a vendor counts as blocking only if it blocks, and every lookup ends.

### Ledger of returned addresses (both `iledger`, the resolver's record filter, `connid`)

*State.* A list in Redis per client and domain, with a TTL of its own.
*Operations.* The resolver pushes, trims and sets the expiry; verdict-api reads and
compares with the address the browser connected to.
*Hard.* Writes are goroutines, and their pipelines may be cut off; short and long TTLs
share a list.
*Correct when* an address matches only if it was told for this domain, recently, and is
public, and one that is stale stays so until it is told again.

### Scheduler (`services/scheduler`) and feeds

*State.* Due rows and feed rows in Postgres, when each domain was last posted.
*Operations.* A tick posts due rows in rank order under a limit per domain; a sweep
deletes expired rows of three tables, one after the other; a feed, and what subjack
finds, is upserted in one transaction.
*Hard.* The dispatch gives up before a scan ends, every HTTP error counts as done,
rows stay due, a restart forgets the limits; the first delete that fails ends a sweep, and
that of evidence fails as long as a scan refers to it; one bad row fails a feed.
*Correct when* a poller's posts of a domain are spaced, a due row has its turn, the table
before one that cannot be swept is swept all the same, and a copy of a feed is whole.

### DNS query log (`services/resolver`, `portal-api/internal/dnsdrain.go`)

*State.* A capped Redis stream, its consumer group, the table `dns_queries`.
*Operations.* Emit; read a batch, insert each entry, acknowledge.
*Hard.* An insert commits and is reported as failed; a crash between read, insert and
acknowledgement; trimming; a group that could not be created.
*Correct when* an entry has at most one row, and one without is still on the list of
pending entries.

### Certificate-transparency monitor (`services/ct-monitor`)

*State.* Keywords (a slice without a lock), where the fallback stands in them, the queue.
*Operations.* The stream with reconnects and silences; the crt.sh fallback, a few
keywords per cycle; reload of the keywords.
*Hard.* The slice changes between cycles; what the stream misses only the fallback can
find, which reads 200 rows of an answer before it looks at their dates.
*Correct when* every keyword has its turn, and a certificate that the stream missed and
the fallback recognises, within the rows it reads, is queued.

### Rate limit, deep scan, session log (`httpgw`)

*State.* Counters per minute, client and address; the queue, the visited set and three
budgets of a crawl; the file of the day and its numbered generations.
*Hard.* A request's key is older than its charge, and it goes through two counters; a
link dropped by one budget after it has spent another; a crash or an ignored error
between two renames.
*Correct when* no bucket lets more through than its limit, pages are taken in order of
depth and refused only for a reason, and lines are lost oldest first.

### Rules on one page (`supportscam`, `paymentscam`, `cryptodrainer`, `tier1`, `pageclass`, `policymap.go`, `fusion`, `trustscore`)

*State.* None.
*Hard.* Caps, composites and thresholds; early exits of a distance; which test of a URL
comes first; a class of page that changes which rules apply.
*Correct when* one kind of phrase never blocks alone and more of them never score less,
look-alikes are found, sensitive URLs are rendered, and more evidence never weakens
the verdict.

### The others

| Component | State | What makes it correct |
|---|---|---|
| Telemetry, stream, shadow evaluation | counters, rows | counters agree with the rows |
| Strictness, risk normaliser | none | read by the shadow evaluation alone |
| Sandbox render | two pools of permits | permits come back |
| Command check, QR, visual match, health check | none | (answers to the pipeline) |
| Surface shield, copy guard, portals, landing page, Windows client, tools, deployment | - | - |

`PROJECT.json` lists each with its status and, under `hazards`, every place in
this code where a test would hardly reach, with the properties that watch it.

## 2. Modules

| Module | Models | Instances |
|---|---|---|
| `Coalescer` | coalescer and two-attempt render, with time | `MCCoalescer`: `Coalescer.cfg` |
| `CoalescerProofs` | theorems about it | - |
| `VerdictPipeline` | requests, caches and rows | `MCVerdictPipeline`: `Verdict*.cfg` |
| `VerdictProofs` | theorems about it | - |
| `PolicyEngine` | `Apply`, stage by stage | `MCPolicyEngine`: `Policy*.cfg` |
| `PolicyProofs` | theorems about it | - |
| `ExtensionNav` | handlers, storage, tabs, holding page | `MCExtensionNav`: `Extension*.cfg` |
| `ExtensionProofs` | theorems about it | - |
| `Resolver` | queries, lists, fetcher, reload | `MCResolver`: `Resolver*.cfg` |
| `ResolverProofs` | theorems about it | - |
| `Registries` | copies of tables, lookups of hosts | `MCServices`: `Services.cfg` |
| `QueryLog` | stream, consumer group, drain | `MCServices` |
| `DeliveryLog` | abstract: what the query log promises | instance of `QueryLog` |
| `Scheduler` | poller, dispatch, sweep | `MCServices` |
| `CtMonitor` | stream, fallback, keywords | `MCServices` |
| `Corroborators` | RDAP, vendor DNS, Web Risk and their caches | `MCServices` |
| `ServicesProofs` | theorems about `QueryLog` (and `DeliveryLog`), `Registries`, `Corroborators`, `Scheduler`, `CtMonitor` | - |
| `Ledger` | resolver's writer, verdict-api's reader | `MCLimits`: `Limits.cfg` |
| `RateLimit` | two counters per request | `MCLimits` |
| `DeepScan` | the crawl | `MCLimits` |
| `SessionLog` | lines, rotation, crashes | `MCLimits` |
| `Feeds` | feed upserts, subjack sweep | `MCLimits` |
| `LimitsProofs` | theorems about `RateLimit`, `Feeds`, `SessionLog`, `Ledger`, `DeepScan` | - |
| `ScamScores` | three scam scorers | `MCPages`: `Pages.cfg` |
| `ScamProofs` | theorems about them | - |
| `PageEvidence` | `buildPolicyInputs` on top of `PolicyEngine` | `MCPages` |
| `HostShape` | tier-1 scores of a host name | `MCPages` |
| `PageUrl` | class of a URL, decision to render | `MCPages` |

`MCServices`, `MCLimits` and `MCPages` hold several components that share no variable.
Their variable `part` says which one moves in a behaviour; the others keep one initial
state. So a run explores the sum of the components' states and not the product, and
each property speaks about its own module's variables in the states where those move.

### Coalescer

A caller is a goroutine. `Join` and `Lead` are the two branches under the
mutex of `do`; `FirstEnds` and `SecondEnds` are the sandbox calls' returns with
any result (a page with a screenshot, one without, an error), `Combine` is what
the retry keeps; `Broadcast` closes the channel, `Unregister` removes the entry
if it is still the leader's own. `Disconnect` ends a context early. Time is a
counter; `Tick` waits for whatever can run, so an attempt ends by its timeout.

### VerdictPipeline

A request is a goroutine with a profile (URL, mode, force, tier, remote address, category
filter). One action per step that touches shared state: `CacheHit`/`CacheMiss`, `SkipTier2`,
`RenderHit`, `LeadRender`, `JoinRender`, `RenderEnds`, `Unregister`, `FollowerServed`,
`FollowerGivesUp`, `StoreRender`, `Decide` (policy and `persistScan`, which may stop after
any of its statements) and `Respond` (the answer and the write to the verdict cache). The
policy engine is reduced to the reasons the properties tell apart. Of the coalescer the time
is left out: `LeadRender` may replace a call in progress, as it does past the TTL, and
`JoinRender` join any; `RenderEnds` closes the channel and `Unregister` takes the entry away
if it is still the leader's own, so that between the two a request may still join and gets
the outcome at once. `Key` is the coalescer's key, which two URLs may share; the caches are
under the URL itself. `loaded` is the page a leader's sandbox call brought. Two sets of URLs
follow the code's two tests: `Sensitive` (`pageclass.IsSensitive`, for the policy) and
`Uncached` (`isSensitivePageClass`, for the caches, which leaves out invoices and
downloads). An expired Redis entry and a Redis failure are the same thing here: a read may
always miss. `PageTurns` lets a page become malicious at any moment. `ContextEnds` ends a
request's deadline.

### PolicyEngine

What the pipeline knows is a set of *facts*, a page class, trust, mode, domain
age, and the visual match as a band of scores with what it says of identity and
name. `Consistent` is what `buildPolicyInputs` can build. `Trail` is the
sequence of intermediate results of `Apply`, one per stage, so that properties
can speak of what a single stage does. The state is one input; a step makes the
page look worse by one fact, gives it trust, or switches the mode, so that
monotonicity is an action property over pairs of inputs.

### ExtensionNav

A task is an event handler between two awaits. `ReadToken`, `Consume`, `ReadTemp`,
`ReadSession`, `ReadLocal`, `SwapBlocked`, `ReadRetries`, `Count`, `SwapHolding`
are `onBeforeNavigate`; `ReadOpener`, `ReadOpenerLocal` and `SwapPopup` the handler of new tabs;
`DropVerdict` and `SwapFailed` that of failed loads; `Fetch`, `Store`, `Mirror`
and `Reply` the resolve message; the `Apply*` actions the apply message. `Ask`,
`AttemptEnds`, `Missed`, `Deadline`, `Choose`, `Route`, `RouteDirectly` are the
holding page. `Commit` is the browser showing the page while a handler waits.
`WorkerDies`, `Restart`, `StorageFails`, `SwapRejected` (a redirect the browser refuses) and
`LoadFails` are the faults. A reader of a stale entry asks for the removal of the copy on disk
and does not wait (`Cleanup`): `removals` counts what was asked for, and `Remove` takes what
is there by then, in any order with the writes, or nothing. Left out:
the extension switched off, the permanent allow list and skipped URLs (constant
predicates that end a handler at once), a second click on a button while the first
is applied, and the verdict stash, which only decides what an interstitial
displays. Giving trust and routing to the page is one action. Three ghosts are for the
properties only: `stamped` (the last stamp of a URL), `held` (its intercepts since each
moment) and `last` (the verdict last kept for it; a BLOCK counts once it is on disk, unless
the session has another verdict by then, and until a removal takes it off the disk:
`OnlyStaleRemoved` in section 4 says that this may be a fresh one).

### Resolver

`Ask` (which ends with the never-block test) to `Upstream` are the steps of
`resolve`, each access to a filter, to Redis or to verdict-api an action of its
own; whether a name is popular, a list other tools refresh, is a choice of `Ask`;
`ReadFails` and `StoreFails` are Redis errors. `Fetch`, `ClearStrict`,
`ClearWeak`, `AddStrict`, `AddWeak`, `WriteFile` are the fetcher (its pipeline is
not a transaction), `Signal`, `Load` and `Swap` the reload. A name is on the
never-block list if `isNeverBlock` says so: promoted popular names and parents
included, so this is a constant set. A Bloom filter answers truly for what was
added and may answer yes for others: `Collisions`; `Split` are the names its
loader cuts in two.

### Registries, Corroborators

A host is the sequence of its labels. `Boot` fills the copies, `Refresh` reads a whole
table, `RefreshCut` keeps the rows a broken cursor gave, as the loop that never asks
`rows.Err` does; `ChangeTable` is an operator's edit, `Crash` a restart. Compiled in are the
constants `Curated` (trustreg's hosts, of full trust), `Local` (the operator's, known to
trustreg alone) and `Scoped` (brandgraph's own); `Backfilled` are those of the first that the
last does not have under the same name, and `StubTrust` looks a host up in both with the scope
asked for (`Serves`). In `Corroborators` a request is a
caller with three lookups of one domain: `RdapAnswers` and `RdapFails` try a server,
`AskDns` asks baseline and vendors, each of which answers, denies or times out,
`RiskAnswers` and `RiskFails` are Web Risk, `Leave` the client that goes away. Caches
expire with a clock in hours (`Hour`); the facts about the domain are chosen at the start.

### QueryLog, DeliveryLog

`Emit` appends and trims; `Read` takes new entries and puts them on the pending list;
`InsertOk` and `InsertFails` end one entry (a failed insert may have been committed),
`Ack` acknowledges or fails to; `CrashDrain` ends portal-api between any two of them;
`StartWithoutGroup` is a start whose XGROUP CREATE failed, which nothing tries again.
`DeliveryLog` knows only unsent, waiting, recorded and lost queries. In the mapping an
entry waits while it is in the drain's batch or unread; one with a row is recorded; what
else was sent is lost, the entries that stay pending included, since no code reads
that list. `KeepsPromise` is the refinement.

### Scheduler, Feeds

`BeginTick` takes a batch of due rows by rank (`QueryFails`: none), `Skip` and
`BeginDispatch` test the interval, `DispatchFails` and `DispatchScans` are the two ends of
a post, which both count. `Stop` and `Start` are a restart: it loses what was posted when
(`lastByDom`) and ticks at once, so `posted` and the property speak of one process. A row
with no domain is never limited (`NoDomain`). The query gives its rows in order or fails;
that a cursor breaks half way is not told apart from a shorter batch. `Sweep` gets as far as
the first delete that fails: that of evidence does while a scan refers to an expired row
(`held`), and since `persistScan` makes scan_history refer to every row of evidence and nothing
deletes from it, only an operator's `ForgetScans` ends that. In `Feeds` a copy is fetched
(`Fetch`) and entered row by row (`Upsert`) in a transaction that ends by `Commit` or, after a
refused row, a failed commit or a stop, by `RollBack`; a feed cut at the 50 MB cap of a
download is a copy like others. `QueueDomain` and `Subjack` are the sweep for subdomains that
can be taken over, one transaction also.

### CtMonitor

Time counts cycles. `Connect`, `Disconnect` and `Stall` are the stream, which is heard
(`Certify`) only while it is connected and not silent. `Cycle` searches a slice of
keywords and moves on, `QuietCycle` is a cycle's time with no ct-monitor; `Reload` replaces
the keywords in any order. A search (`Search`) reads the first `PerKeyword` rows of an answer
and drops old certificates after that; in what order crt.sh gives them is left open, and
`Others` counts the rows about names of no interest here (`FirstRows`). The names a
certificate's text resembles are constants.

### Ledger, RateLimit, DeepScan, SessionLog

Each step of a pipeline to Redis is one that may be the last (`Ledger`). A request
computes its bucket's key in `Arrive` or on its way to the second one, and charges
later (`RateLimit`); a Redis error lets it through and may or may not have counted. A counter
expires two minutes after its last charge (`NextMinute`), and a restart of Redis forgets all
(`RedisForgets`), which begins the count of what passed anew.
All resolvers call themselves `resolver` to this limiter and share a bucket.
`DeepScan` has one action per page taken (`ScanPage`), which lets `Follow` act on each link
in the order the render lists them (`after`, a recursive function over their number). The
render it finds in the cache may be that of another page of the host, unless the path is
sensitive (`StandIns`). `SessionLog` has one per line (`WriteLine`,
`WriteLineFails`) and per rename of a rotation (`BeginRotation`, `Shift`), and `CrashLog`
between any two.

### ScamScores, PageEvidence, HostShape, PageUrl

Functions on one page. A step adds one thing to the input (a phrase, a
signal, an edit, a word), so that "more never lowers" is an action property and the
reachable states are the bounded inputs. Scores are in hundredths, as integers.
`HostShape` defines `EditDistance` by the code's recurrence and compares it with the
number of edits made. `PageEvidence` instantiates `PolicyEngine` on the input it builds.

## 3. What is checked

A run's properties are conjunctions of named parts, with one name for what they
establish together; the parts are stated one by one in the modules.

| Run | Question | Instance |
|---|---|---|
| `coalescer_dedup` | Are renders spaced, bounded in number and in waiting time, does everybody get the leader's outcome, and is a page never lost? | 3 callers, 1 key, 20 s units (TTL 3, attempts 2 and 2, budget 5, clock to 8) |
| `verdict_caches` | What may pass between requests of different modes, and do cached answers and rows agree with what was decided? | 2 requests of 6 kinds; a page, the same URL without its slash (a payment page) and a download |
| `verdict_answers` | Is every request answered, and does a challenge page never stand for the site? | 2 requests of 3 kinds; liveness |
| `policy_rules` | Do stages, evidence, visual matches, modes and trust behave? | every set of at most two of the distinguishable facts, all classes, modes and trust, four ages, three bands of match |
| `extension_cache` | Is a pass earned, does a BLOCK survive a restart, does the retry guard open only after its holds? | 2 tabs, 2 handlers, 2 visits, a restart or a storage call that throws; removals at any time |
| `extension_escape` | Is the holding page always left? | a sensitive page, three answers, 1 tab, 2 visits, one fault of four kinds; liveness |
| `resolver_decision` | Is a listed name refused, does a listing take effect, when is a cached BLOCK lost? | 2 queries of one name, one refresh, one fault, clock to 1 |
| `services` | Registries through failing refreshes; the drain through crashes, and that it implements `DeliveryLog`; spacing and turns of rescans; sweeps that a foreign key stops; the fallback of ct-monitor; answers that requests share | 3 edits of 6 rows, two lists of scoped hosts; 4 queries through a stream of 2; 3 urls of 2 domains; 3 keywords, 2 per cycle, 2 rows of an answer; 2 callers, 2 servers, 2 vendors; liveness |
| `limits` | The ledger, the rate limit, the crawl, the session log through crashes, copies of feeds: does each keep to its bound, and only to it? | 3 answers, 2 clients, clock to 4; 3 requests with limits 1 and 2, clock to minute 3; 8 pages, one sensitive; 7 lines in files of 2 with 2 generations; two feeds |
| `pages` | Scores, evidence, names and URLs: does more never look better, is nothing slipped by? | 3 phrases, tokens or findings; 3 of 30 signals; 2 edits of 2 keywords; 2 words and 2 segments |

Two runs end in a counterexample, each against a sentence of the repository:
`verdict_category` and `resolver_split` (section 4).

**Bounds.** The races above are between two actors, sometimes with a third
that observes: two requests, two handlers, two queries suffice for them, and three
callers for "no three renders". Clocks run until the longest time that matters has
passed once: entries expire and timeouts strike. Time-outs keep the code's order.
`coalescer_dedup` counts in units of 20 s: attempts of 45 s and 30 s are 2 units
each (together 80 s for 75 s), the TTL of 60 s is 3, the request's 90 s are 5, so
that both attempts outlast the TTL and fit in the request, as in the code; the clock goes to 8,
so that a third leader can start two TTLs after the first; budgets
that differ (12 s for a scheduled scan) are covered by `Disconnect`, which may end
any context at any moment. `policy_rules` leaves out facts that the rules treat
alike (`Distinct` in `MCPolicyEngine` names the ones kept); two facts suffice for
pairwise interaction of rules, and the theorems of section 5 hold for any number
and every fact. `resolver_decision` has one name: `resolve` touches nothing but
its own name's entries; a BLOCK in the cache expires one step after it was stored.
`extension_cache` has two tabs in use only within one moment, by a user who trusts no
host for the day, and then with the failing storage; with one tab it has time, trust and
restarts (`TogetherInOneMoment`). In `services`, `limits` and `pages` one component moves at a time,
since they share nothing; the clock of the
rate limit passes the two minutes after which counters expire; the stream is shorter than the queries, the batch of a tick
longer than one domain, the slice of a cycle shorter than the keywords, the files of the
log full three times, so that trimming, skipping, rotation and wrapping around happen.
`pages` uses the code's weights, thresholds, caps and lengths: only the inputs are small.
`MaxVisits`, `MaxQueries`, `MaxFetches`, `MaxFaults`, `MaxEdits`, `MaxRestarts`,
`MaxCrashes`, `MaxAnswers`, `MaxSeen`, `MaxSegments` and `MaxWords` bound the environment's
actions only, `MaxNow`, `MaxHours` and `MaxMinutes` the clocks. Because they run out, the
runs set `CHECK_DEADLOCK FALSE`: a system to which no more requests come does stop; that
nobody is stuck in the middle is what the liveness properties show.

**Fairness.** Of steps the program itself takes, never of requests, faults, users or
operators. Weak fairness of goroutines and handlers that can run (Go's scheduler, the
JavaScript event loop), of network calls, which carry timeouts and so return, of timers
of a page that is open, of the browser that commits or replaces a load, of the drain's
loop, of a tick's next row, of the lookups of a request, and of a sweep that gets as far as
the rows let it (`SweepThrough`, which does not assume that a delete the foreign key refuses
ever succeeds). Strong fairness of two
steps on a ticker that failures and restarts disable again and again and that are not
always disabled: a registry's complete refresh and a tick whose query succeeds. What these promise is therefore "if it can succeed
time and again, it does once", no more; `ListingTakesEffect` and `TickingCatchesUp` speak
of what holds once the lists or tables have come to rest, the turns of due rows of a poller
that stays up in the end.

**Symmetry** is used over callers, requests, handlers and queries in the safety
runs, where nothing distinguishes them, and in no liveness run.

**Mutants.** For every property of a passing run `PROJECT.json` names a faulty
variant of one definition, written in the module before it and headed "Faulty
variant": the property is violated when it replaces the definition.

## 4. Where the code and its comments part

Each item is a property a comment or a document states and that TLC refutes. Two are
runs (with their quotation under `findings`). For the others the table names the
configuration kept beside the modules, e.g. `tlc -config VerdictDetection.cfg
MCVerdictPipeline`, or the one whose constants serve, with the property in place of
its own and the constants that differ. The property, with the line it quotes, is in its
module, mostly at the end.

| Property | Configuration | What the code does |
|---|---|---|
| `FollowerBlockedAtMostTTL` | `Coalescer` | a follower that joins late waits longer than the TTL the comment names |
| `UncachedKeptApart` | `VerdictPipeline`, `Profiles <- WithAndWithoutSlash` | a payment page is judged on the render of the URL with a slash, which is no payment page |
| `ScanHasOwnEvidence` | `VerdictPipeline`, `Profiles <- TwoPages` | a scan served from a cached render has no evidence row of its own |
| `ConnectionAbsentWhenNotSupplied` | `VerdictConnection` | a cache hit returns another client's connection identity |
| `PrivateAddressBlocked` | `VerdictPrivateAddress` | a cached ALLOW comes before the private-address rule |
| `CategoryBlocksOnlyWhenOn` | `VerdictCategory` (run `verdict_category`) | one user's category block reaches others |
| `ParanoidDetectionKept` | `VerdictDetection` | a detection of a stricter mode is not kept |
| `SensitiveReverified` | `VerdictDetection`, `Profiles <- LoginTwice`, `Urls` and `Suspicious` `<- HomeAndLogin`, `Sensitive` and `Uncached` `<- LoginOnly` | a sensitive page is judged on a stored render |
| `SensitiveFailsClosed` | `VerdictFailClosed` | a feed row disarms fail-closed |
| `MediumUsesTheHeuristic`, `UltraForcesSandbox` | `VerdictDetection`, `Suspicious <- NoPages`, `Profiles <- MediumScan`, `UltraHome` | medium scans and ultra do not decide about rendering as their comments say |
| `LaterRulesStillFire` | `PolicyReplica` | an early return hides later rules |
| `VendorConsensusIgnoresTrust` | `PolicyReplica` | trust mutes vendor consensus |
| `UltraIsolatesUncleared`, `UltraCoversParanoid` | `PolicyReplica` | the ultra gate leaves WARN and clears what paranoid isolates |
| `ChecksAlwaysPopulated` | `PolicyReplica` | clearance checks are empty on early returns |
| `RawIPDropBlocks` | `PolicyReplica` | fail-closed comes before the raw-IP rule |
| `WeakMatchIsolates` | `PolicyReplica` | two bands of match overlap |
| `CategoryOffAllows` | `PolicyReplica` | a category row counts as a high-confidence feed |
| `TokenIsOneShot` | `ExtensionToken` | one token passes two tabs |
| `KnownBadStaysBlocked` | `ExtensionSlash` | a trailing slash loses a BLOCK |
| `SensitiveRevalidated` | `ExtensionSensitive` | a sensitive page passes the retry guard |
| `RetryNotIntercepted` | `ExtensionRetry` | try-again is intercepted |
| `NeverHangs` | `ExtensionHang` | a storage failure, or a redirect refused to the apply message, leaves the holding page for ever |
| `OnlyStaleRemoved` | `ExtensionCache` | the late removal of a stale copy deletes a fresh BLOCK |
| `InterceptsBounded` | `ExtensionCache`, `Answers = {"ALLOW"}`, no faults, `MaxNow = 0`, `BlockTTL = 0` | two handlers count one intercept |
| `ProceedOpens` | the same, one tab, `Answers = {"WARN"}`, `Limit = 3` | proceed is intercepted |
| `TrustedNotHeld` | the same, `Answers = {"ISOLATE"}`, `Limit = 3`, `MaxVisits = 3` | trust is not asked in new tabs |
| `RawPageNeverSeen` | the same, one tab, `Answers = {"BLOCK"}`, `Limit = 3`, `MaxVisits = 1` | the raw page shows while the handler waits |
| `LineageBlocks` | the same, `Urls = {plain, login}`, `Sensitive = {login}`, three tasks, `MaxVisits = 3`, `Answers = {"BLOCK"}` | the lineage block is overwritten |
| `WeakIsFlagged` | `ResolverSplit`, `Split = {}` | weak names are not flagged: the filter before the weak list holds strict names |
| `ListedIsRefused` | `ResolverSplit` (run `resolver_split`) | names cut at a 64 KB boundary are not blocked |
| `TimeoutKeepsBlocks` | `Services`, `Blockers = {"v1"}` | when the baseline times out, a vendor's "no such domain" no longer counts as a block |
| `KeptIsAnAnswer` | `Services` | a lookup that no vendor answered is kept for others |
| `LongestSuffixWins` | `Services` | with two suffixes of a host, the first that is met wins |
| `KnownClientAccepted` | `Services` | a reload cut short forgets a client that is still in the table |
| `BrandHostsCatchUp` | `Services` | brand hosts are read at the start only |
| `DrainDrains` | `Services` | a drain without its group never drains |
| `EachBrandHasItsTurn` | `Services` | a reload in another order starves a keyword |
| `ListedAreCaught` | `Services`, `PerKeyword = 1` | rows beyond the cap, of old certificates too, hide a new one |
| `AllMissedAreCaught` | `Services`, `Holds = {}`, `Keywords = {"pay", "bank"}` | crt.sh is searched by text, look-alikes are not found |
| `AnyLabelCounts` | `Services`, `Resembles = {}` | only the registrable label is compared |
| `FirstIsPosted`, `DueIsPosted` | `Services` | a domain at its limit, a busy batch leave due rows unposted |
| `SitesAreSpaced` | `Services` | a poller that was restarted has forgotten what was posted |
| `EachTableIsSwept` | `Services` | evidence that a scan refers to ends every sweep before the edges of popups |
| `DueIsScanned` | `Services`, `TokenSet = TRUE` | the scan refuses a scheduler without a token |
| `GraceIsUsed`, `OutlivesItsEntries` | `Limits` | the reader drops entries in their grace; a short TTL shortens the list's life |
| `DroppedWhenFull` | `Limits` | a rotation after a crash drops the oldest file while a generation is free |
| `OldestGoesFirst` | `Limits` with `SessionLog`'s `FlakySpec` | a rename that fails loses newer lines first |
| `FeedRowKeepsTheMatch`, `SlashIsImmaterial`, `OneCategoryNeverWarns` | `Pages` | a feed row hides a visual match; a slash changes the URL's class; one category warns |
| `OwnNameIsSpared`, `OrderIsImmaterial` | `Pages`, `Keywords <- MCNearKeywords` | with two keywords near each other, a brand's own name scores, and the order of a map decides |

Other differences, read in the code and stated as facts of the modules:

* The rescan scheduler sends no internal token to `/v1/scan`; the poller's interval equals
  the limit per domain, so a domain is often found limited and comes one tick later;
  nothing writes `next_rescan_at`, nor `retention_until` of evidence.
* A client that leaves makes its RDAP lookup fail, and the failure stands for 15 minutes
  for every request; `rdap.go:112-113` speaks of the registrable name, the full host is asked.
* Web Risk and the vendors' positives feed only fusion's score, which nothing reads,
  though `policy.go:961` names Web Risk as a hard source.
* `pipeline.go:437`: a perceptual-hash distance of 8 gives 0.848, below the 0.85 it is meant
  to reach.
* `XGG_LOCAL_TRUSTED_HOSTS` never reaches `brandgraph`; no feed writes rows of low confidence;
  `subjack.go:34` matches a "suffix" anywhere in the name.
* The ledger's writer treats a TTL of 0 as unset, keys by the client's address where the
  reader keys by `client_id`, and a short TTL shortens the life of the whole list.
* The caps of the scam scorers are .30 and .10 where their comments say .35 and .15; "trust"
  contains "rust", so that such hosts are development tools; a keyword added to a host of
  three hyphens lowers its lexical score; a page that offers a download is classed as one,
  and the rules for pages with forms no longer apply.

## 5. What is proved

**Coalescer** (`CoalescerProofs`), for any sets of callers and keys, any
positive timeouts and TTL (`NoneAssumption`, `TimeAssumption`). `RendersSpacedByTTL`
is not inductive: that a new leader is far from every other render needs that a
render younger than the TTL *is* the registered call (`YoungRendersRegistered`),
which needs that a registered call belongs to its key and has its leader still
inside `do` (`Registered`) and that renders are within their timeouts
(`RenderTimes`). What followers get needs that an outcome is stored once, when the
render is over (`OutcomeStored`), and that a follower's call is of its key
(`Followers`). `IInv` is the conjunction; one lemma per group of actions shows
it preserved. The theorems follow: types, deduplication, at most two renders
(`RenderLoadBounded`, which assumes that both attempts fit in twice the TTL, as
45 + 30 <= 120), shared outcome, bounded wait, the kept page, and the action
property about young calls.

**VerdictPipeline** (`VerdictProofs`), for any requests, URLs and profiles (`NoneAssumption`,
`ProfilesAssumption`), with no assumption on how requests interleave, whose contexts end or
which statement of `persistScan` is the last. That a cached answer fits its
reader (`CachedAnswersFit`) needs that whatever stands in Cache 1 is the answer a scan of
that URL gave (`AnswersAreKept`), that only those whose mode and page allow it read or
write it, and that a request's progress says what it has so far (`Progress`). That evidence is
about the page judged (`EvidenceIsFit`, as far as `InScope` goes: the coalescing key, or an
uncached page's domain) needs the same of the renders: a stored one belongs
to its URL or domain (`StoredRendersFit`), a call to its key and, while it is registered, to a
leader that has not left `do` (`CallsFit`, `CallsLed`), though another may have replaced it, and
the evidence a request found over when it arrived is of calls that had left the map by then,
neither its own nor the one it joined (`PastIsPast`). `RowsAreKept` is the action property about
`persistScan`: the rows point at one another, whichever of its statements fails. `IInv` was
checked by TLC before it was proved, on the instances of `verdict_caches` (2,464,096 states)
and `verdict_answers` (164,491).

**PolicyEngine** (`PolicyProofs`), for inputs with *any* set of facts, where TLC
looks at two at a time. The invariant is only that the input is well formed and
consistent; the work is along the chain. `TrailSteps` gives one equation per
stage; stages fall in three groups by what they may do to a result (`Early`,
`Middle`, `Late`), and a chain lemma carries each group's guarantee to its end.
From that: every input gets one of four verdicts, no stage weakens, hard
evidence blocks, a corroborated match acts, a match that nothing corroborates condemns
nothing (`MatchesNeedCorroboration`), an unseen sensitive page is not allowed, and a
stricter mode never weakens.

**ExtensionNav** (`ExtensionProofs`), for any tabs, URLs, handlers, answers, faults and times, and
any limit above 0. Handlers give way at every await, so the invariant says what one *still* has
of what it read (`Fits`): a token that was there is no newer than the last stamp
(`TokenWasThere`); a count it will write was intercepted, as far as the limit (`CountIsTrue`); a
BLOCK on its way to disk is no newer than the session's verdict (`AnswerIsHeld`). One lemma
(`FitsGrows`) shows that other handlers do not spoil this, since stamps, intercepts and times
only grow (`Growing`). Passes are earned (`PassesEarned`), the retry guard opens late
(`GuardOpensLate`: also for a handler that counts after its window is over, which is why `held`
counts since each moment). `BlocksSurvive` needs that a fresh BLOCK is on disk and that the
session has no older one (`BlockIsHeld`), which dropping what has expired must not undo, and
which a removal asked for earlier does undo: then the verdict is no longer the last one kept,
an exception the property states; it
assumes that no URL has a slash or a fragment to take off, and section 4 shows that the code
fails otherwise. `OwnKeysStayBlocked` is the part of it that needs no assumption: every URL
that alone has its key. TLC checked both invariants on 1,960,485 states of `extension_cache`.

**Resolver** (`ResolverProofs`), for any domains, queries, faults and number of fetches and
reloads. A listed name is refused because a calm query that
is past a step of `resolve` has the answer that step gives a listed name (`QueriesAreSound`);
the proof shows that the lines its reader cuts in two are all that is in the way: without
an assumption for names that are not cut (`WholeLinesRefused`), and as the run states it if
every cut name is never blocked or collides with one that was added (`ListedRefused`).
That lists take effect needs how far an undisturbed fetch and reload have come
(`FetchIsThisFar`, `FileIsLoaded`), which overlapping fetches, signals and reloads reset.
`BlocksStand` is the action property about a cached BLOCK. TLC checked `IInv` on
2,475,711 states, and on 1,737,420 with a name that is cut.

**Registries** (`ServicesProofs`), for any lists whose unscoped rows are of full trust
(`CuratedAssumption`). The invariant is only types; the lookups agree for *any*
rows a copy may hold, so a load may be cut anywhere. What the compiled-in rows give comes
through the backfill (`CompiledInServes`): a host of trustreg's list is known by its own row or
by the scoped one that stands in its place. That nothing is trusted beyond its scope
(`ScopesAreKept`) is by cases of the store and the two lists.

**QueryLog** (`ServicesProofs`), for any length of stream, size of batch, number of queries
and restarts. `EntriesAccountedFor` is not inductive: that no entry gets a second row
needs that an entry still in the batch has none, and that one that waits for its
acknowledgement has one (`RowsInv`). From the same `QueryLogInv` the
refinement follows: each step of the drain is a `Send`, a `Record`, a `Lose` or a stutter of
`DeliveryLog` (`DrainKeepsPromise`). A trimmed entry or a crash becomes a `Lose` of a set.

**Corroborators** (`ServicesProofs`), for any callers, servers, vendors and lifetimes. What a
request is told was so when it was found (`AnswerHolds`), and since answers come from the caches,
the same has to be said of what these keep, with their expiry (`KeptHolds`).

**Scheduler** (`ServicesProofs`), for any URLs, domains, batch and interval (of ticks and per
domain). That posts are spaced needs that the poller's own clock of a domain (`since`) is the time
that has really passed (`spaced`) for the domains that this process has posted to (`posted`), of
which a restart leaves none. Rows without a domain are in the proof only: the run's all have
one. The theorem is about `SchedSpec /\ SweepSpec`: the run lets
the sweep of the tables move beside the poller, whose types need that a reference is to an
expired row (`SweepInv`).

**CtMonitor** (`ServicesProofs`), for any keywords and certificates, any slice per cycle, and a
look-back in which all keywords come up. That a certificate the stream missed is in the queue
before crt.sh forgets it needs that each keyword's turn is still ahead within what is left of the
look-back (`TurnAhead`, in `MissedComeUp`), and that its search reads the row, which is so
for a keyword whose answer cannot be longer than the cap (`FitsCap`, `AllRowsRead`). The rotation wraps around a sequence, which is
arithmetic modulo its length (`Wrap`, `Turns`).

**RateLimit** (`LimitsProofs`), for any finite set of requests and any limits
(`RateBounds`). That a bucket's limit bounds what passes needs that the counter still
holds what passed (`CountedSoFar`), which a counter that expires would break; that it
does not expire too early needs that a request charges within a minute of computing its
key (`KeysAreYoung`), the code's two-minute TTL being what makes up for it. When Redis forgets
its counters, the count begins anew; before and after that the bound holds.

**Feeds** (`LimitsProofs`), for any feeds, rows and copies. `CopiesAreWhole` needs that the
transaction under way has of a copy all that it will commit: what is entered and what is left
make up one that was fetched, of that feed's own rows (`EntersACopy`); that other commits and the
sweep only add rows (`WholeStays`) does the rest.

**SessionLog** (`LimitsProofs`), for any file size, number of generations and of restarts. That a
dropped line is older than each one kept (an action property) needs that the files are in order of age,
with what a crash left in the middle of a rotation (`OldestLast`, `Rotating`), and that a file
outgrows its size by at most one line per restart (`Capped`).

**Ledger** (`LimitsProofs`), for any clients, domains, answers and TTLs (`LedgerBounds`). Every
entry of a list, and every address in a write that is under way, was told to that client for that
domain and is not reserved; the record filter of the resolver and the reader's minimum are recursive
functions, typed by the lemma below. That stale stays stale is an action property:
only a push makes an address match (`NewMatches`).

**DeepScan** (`LimitsProofs`), for any site, any budgets, any links (of any number, in any order).
The invariant looks at one line (`Line`), the pages rendered and behind them
the queue: depths along it never fall, its front is at most one level above its end, no page is on it
twice (`Lined`), what was spent of each budget is what is on it (`Spent`), and every link of a
rendered page was `Met`: put on the line no deeper than one below, or refused by a
budget that stays spent. From that a page
is rendered at the least depth at which it can be reached (`NothingShallower`),
whatever the budgets refused.

**ScamScores** (`ScamProofs`), for a page of any length (any `MaxSeen`). The types carry the
caps: a category that shows nothing weighs 0 and any other at most 35, so two kinds stay
under the hard threshold and one under the other (`TwoWeigh`, by cases of the three sums);
a step raises one term of a sum that grows in each of its terms (`TotalGrows`).

**Recursion.** The library's induction theorems take an operator, which no installed prover
instantiates. `LimitsProofs` states induction for a *set* of numbers instead (`Least`, by
well-foundedness as the library states it for sets; `UpTo`), and from it that a recursive
function has a value in its type at each number up to a bound and obeys its equation
(`Recursion`). `Ledger` and `DeepScan` rest on it.

**Only model-checked**: liveness (every `~>` and `[]<>`), which the proof system does not
cover; `EvidenceNeverWeakens` and `TrustOnlyRelaxes` (`OnlyTrustRelaxes`), which compare two runs
of the whole chain; `HostShape` and `PageEvidence`, whose definitions are recursive or
instantiate the whole of `PolicyEngine`; and `PageUrl`.

## 6. What is not modelled, and why

* Rendering, visual matching and health probes are external calls with an
  arbitrary result. The sandbox's two pools of permits are a library's semaphore.
* Text patterns: the phrases of the scorers, suspicious commands, clipboard and form
  extraction, QR decoding. What they find is an input.
* Telemetry, the event stream and shadow evaluation: counters and rows nothing decides on.
* The decision matrix of `policy/decision_matrix.go` is called from its tests only;
  strictness and the risk normaliser feed the shadow evaluation.
* TLS and CDN comparison of connection identity: no caller supplies the data.
* Unwrapping of mail gateways' URLs, enrichment for analysts, DoH framing, the table of
  reasons, the refresh of the RDAP bootstrap: conversions without state.
* User interfaces, the extension's surface shield and copy guard, portal queries,
  deployment and batch tools.
* In `EvidenceNeverWeakens` and `MoreEvidenceNeverWeakens` the facts of `Masking` are set
  apart, since with them the code does weaken a verdict by design or by an early return: the
  vendor's own command, a suspicious command or an odd name that warns and returns, a feed
  row that counts as verification, a challenge or an overlay that isolates first. A page
  that what it shows turns into a download page (`Reclassifying`) is exempt where the rules
  for other classes no longer apply.
* A rename that fails (`ShiftFails`, in `FlakySpec`) is outside the run `limits`: with it
  lines are not lost in order, as section 4 says.

## 7. Plan

1. **Done**: coalescer, pipeline, policy engine, extension, resolver; the services,
   the parts that keep to a bound, the rules on pages; the refinement of the query log;
   proofs about every one of these but three of the four rules on pages.
2. **Next proofs**: `EvidenceNeverWeakens` stage by stage; `SensitiveAreSeen` of `PageUrl`.
3. **Next modules**: `SandboxPools`; telemetry's counters against its rows; an abstract
   verdict store that holds for each URL the answer of one scan, implemented by the
   pipeline's caches.
