-------------------------- MODULE VerdictPipeline --------------------------
(***************************************************************************)
(* The /v1/check pipeline of verdict-api: concurrent requests share the    *)
(* verdict cache, the render cache and the Postgres rows (httpgw/          *)
(* pipeline.go, verdictcache.go, persist.go), and concurrent renders are   *)
(* coalesced.  The coalescer's key is coarser than the caches': a slash at *)
(* the end of a path is no part of it.  Of module Coalescer this one keeps *)
(* who leads, who joins and which call is registered, and leaves its clock *)
(* open: a registered call may always be past its TTL.                     *)
(*                                                                         *)
(* The policy engine is reduced to the reasons the properties tell apart,  *)
(* for a host that is in no trust registry.  Redis is fail-open, and an    *)
(* expired entry is a GET that misses: a read may always miss.  A page may *)
(* turn malicious at any moment.                                           *)
(***************************************************************************)
EXTENDS Integers

CONSTANTS
  Requests,   \* one goroutine each
  Urls,       \* URLs as the caches normalise them, all of one domain: they
              \* share its feed listing and its domain-level render
  Key,        \* the coalescer's key of each URL, without the trailing slash
  Sensitive,  \* pages the policy holds sensitive: Class.IsSensitive
  Uncached,   \* those of them the caches do: isSensitivePageClass
  Suspicious, \* URLs whose Tier-1 score or path asks for a render
  Profiles,   \* what requests may ask for
  Listings,   \* initial feed listings of the domain
  Pages,      \* initial contents of a page
  None,       \* nothing there
  Failed      \* a sandbox call that returned an error

\* shouldRunTier2 holds of every sensitive page; invoices and downloads are
\* sensitive and yet cached.
ASSUME UrlsAssumption ==
  Uncached \subseteq Sensitive /\ Sensitive \subseteq Suspicious /\ Suspicious \subseteq Urls
ASSUME ProfilesAssumption ==
  Profiles \subseteq
    [url : Urls, mode : {"normal", "paranoid", "ultra"}, force : BOOLEAN,
     tier : {"auto", "light", "medium", "deep"},
     ip : {"none", "public", "private"}, filter : BOOLEAN]
ASSUME WorldAssumption ==
  /\ Listings \subseteq {"no", "security", "content"}
  /\ Pages \subseteq {"clean", "bad", "challenge"}

VARIABLES
  pc,        \* where each request is
  profile,   \* what it asked for
  dead,      \* its context has ended: deadline passed or client gone
  joined,    \* the request whose sandbox call it waits for
  loaded,    \* the page its own sandbox call loaded
  outcome,   \* what the sandbox call it led returned
  render,    \* the evidence it judges
  answer,    \* its checkResponse
  vcache,    \* Cache 1: verdict per URL
  rcache,    \* Cache 2: render per URL
  dcache,    \* Cache 2: render of the domain
  inflight,  \* the registered call of each key, named by its leader
  evidence,  \* evidence rows, by evidence id
  urls,      \* urls rows
  history,   \* scan_history rows
  page,      \* what each URL serves now
  listed,    \* the domain's feed_entries; a lookup may miss them
  past       \* ghost: evidence ids of calls that were over when a request arrived

request == <<profile, dead, past>>
caches == <<vcache, rcache, dcache>>
rows == <<evidence, urls, history>>
world == <<page, listed>>
vars == <<pc, request, joined, loaded, outcome, render, answer, caches,
          inflight, rows, world>>

Keys == {Key[u] : u \in Urls}
Contents == {"clean", "bad", "challenge"}

\* sandbox-render makes a new evidence id for each render; a request decided
\* without one makes its own.
EvidenceIds == [from : {"render", "scan"}, of : Requests]
Renders == [id : EvidenceIds, url : Urls, content : Contents]
Verdicts == {"ALLOW", "WARN", "ISOLATE", "BLOCK"}
Reasons == {"none", "connection", "category", "feed", "page", "unverified", "mode"}
Answers == [verdict : Verdicts, reason : Reasons, id : EvidenceIds,
            ip : {"none", "public", "private"}, by : Requests]

\* An evidence row, with the request last judged on it.
EvidenceRows == [url : Urls, judged : Requests]

ASSUME NoneAssumption ==
  /\ None \notin Requests \cup Profiles \cup Renders \cup Answers \cup Contents \cup EvidenceRows
  /\ Failed \notin Renders \cup {None}

PCs == {"idle", "lookup", "tier2", "rendering", "returning", "waiting", "storing",
        "deciding", "answering", "done"}

Init ==
  /\ pc = [r \in Requests |-> "idle"]
  /\ profile = [r \in Requests |-> None]
  /\ dead = [r \in Requests |-> FALSE]
  /\ joined = [r \in Requests |-> None]
  /\ loaded = [r \in Requests |-> None]
  /\ outcome = [r \in Requests |-> None]
  /\ render = [r \in Requests |-> None]
  /\ answer = [r \in Requests |-> None]
  /\ vcache = [u \in Urls |-> None]
  /\ rcache = [u \in Urls |-> None]
  /\ dcache = None
  /\ inflight = [k \in Keys |-> None]
  /\ evidence = [i \in EvidenceIds |-> None]
  /\ urls = [u \in Urls |-> None]
  /\ history = {}
  /\ page \in [Urls -> Pages]
  /\ listed \in Listings
  /\ past = [r \in Requests |-> {}]

Elevated(p) == p.mode \in {"paranoid", "ultra"}

\* Ids of the renders whose call is over.
Rendered ==
  {outcome[r].id : r \in {q \in Requests : outcome[q] \in Renders /\ pc[q] # "returning"}}

-----------------------------------------------------------------------------
\* check, rescan or scan decodes the request and enters the pipeline.
Arrive(r) ==
  /\ pc[r] = "idle"
  /\ \E p \in Profiles : profile' = [profile EXCEPT ![r] = p]
  /\ past' = [past EXCEPT ![r] = Rendered]
  /\ pc' = [pc EXCEPT ![r] = "lookup"]
  /\ UNCHANGED <<dead, joined, loaded, outcome, render, answer, caches, inflight,
                 rows, world>>

\* When the verdict cache may be read: the pipeline asks it unless rescanning,
\* getVerdictCache refuses elevated modes and uncached pages.
MayReadVerdict(p) == ~p.force /\ ~Elevated(p) /\ p.url \notin Uncached

CacheHit(r) ==
  LET p == profile[r] IN
  /\ pc[r] = "lookup"
  /\ MayReadVerdict(p)
  /\ ~dead[r]
  /\ vcache[p.url] # None
  /\ answer' = [answer EXCEPT ![r] = vcache[p.url]]
  /\ pc' = [pc EXCEPT ![r] = "done"]
  /\ UNCHANGED <<request, joined, loaded, outcome, render, caches, inflight, rows,
                 world>>

CacheMiss(r) ==
  /\ pc[r] = "lookup"
  /\ pc' = [pc EXCEPT ![r] = "tier2"]
  /\ UNCHANGED <<request, joined, loaded, outcome, render, answer, caches,
                 inflight, rows, world>>

\* runTier2: a light scan never renders, a forced one always does.
RunsTier2(p) ==
  /\ p.tier # "light"
  /\ p.tier \in {"medium", "deep"} \/ p.force \/ p.url \in Suspicious

SkipTier2(r) ==
  /\ pc[r] = "tier2"
  /\ ~RunsTier2(profile[r])
  /\ pc' = [pc EXCEPT ![r] = "deciding"]
  /\ UNCHANGED <<request, joined, loaded, outcome, render, answer, caches,
                 inflight, rows, world>>

\* Rescans and paranoid requests never read a stored render.
MayReadRender(p) == ~p.force /\ p.mode # "paranoid"

\* Faulty variant: any page of a domain may take its render.
MayUseDomainRenderAny(u) == TRUE

\* isNonSensitivePath: the domain-level render is neither read nor written.
MayUseDomainRender(u) == u \notin Uncached

\* getRenderCache: the URL's render first, then the domain's.
StoredRenders(u) ==
  {x \in {rcache[u]} \cup (IF MayUseDomainRender(u) THEN {dcache} ELSE {}) : x # None}

RenderHit(r) ==
  LET p == profile[r] IN
  /\ pc[r] = "tier2"
  /\ RunsTier2(p)
  /\ MayReadRender(p)
  /\ ~dead[r]
  /\ \E x \in StoredRenders(p.url) : render' = [render EXCEPT ![r] = x]
  /\ pc' = [pc EXCEPT ![r] = "deciding"]
  /\ UNCHANGED <<request, joined, loaded, outcome, answer, caches, inflight, rows,
                 world>>

\* A miss, or no lookup: lead a sandbox call, which loads the page, when none is
\* registered under the key or the one that is has outlived its TTL...
LeadRender(r) ==
  LET p == profile[r] IN
  /\ pc[r] = "tier2"
  /\ RunsTier2(p)
  /\ inflight' = [inflight EXCEPT ![Key[p.url]] = r]
  /\ loaded' = [loaded EXCEPT ![r] = page[p.url]]
  /\ pc' = [pc EXCEPT ![r] = "rendering"]
  /\ UNCHANGED <<request, joined, outcome, render, answer, caches, rows, world>>

\* ... or wait for the registered one, which may be of another URL of the key.
JoinRender(r) ==
  LET k == Key[profile[r].url] IN
  /\ pc[r] = "tier2"
  /\ RunsTier2(profile[r])
  /\ inflight[k] # None
  /\ joined' = [joined EXCEPT ![r] = inflight[k]]
  /\ pc' = [pc EXCEPT ![r] = "waiting"]
  /\ UNCHANGED <<request, loaded, outcome, render, answer, caches, inflight, rows,
                 world>>

\* The sandbox call ends and its channel is closed.  Its evidence is the page as it
\* was when loaded, or as late as now (second attempt); a call under a dead
\* context fails.
RenderEnds(r) ==
  LET u == profile[r].url
      got == {[id |-> [from |-> "render", of |-> r], url |-> u, content |-> c] :
                c \in {loaded[r], page[u]}} IN
  /\ pc[r] = "rendering"
  /\ \E o \in {Failed} \cup (IF dead[r] THEN {} ELSE got) :
       outcome' = [outcome EXCEPT ![r] = o]
  /\ pc' = [pc EXCEPT ![r] = "returning"]
  /\ UNCHANGED <<request, joined, loaded, render, answer, caches, inflight, rows, world>>

\* The leader takes its call out of the map, if it is still its own, and has its result.
Unregister(r) ==
  LET k == Key[profile[r].url]
      o == outcome[r] IN
  /\ pc[r] = "returning"
  /\ inflight' = IF inflight[k] = r THEN [inflight EXCEPT ![k] = None] ELSE inflight
  /\ render' = [render EXCEPT ![r] = IF o = Failed THEN None ELSE o]
  /\ pc' = [pc EXCEPT ![r] = IF o = Failed THEN "deciding" ELSE "storing"]
  /\ UNCHANGED <<request, joined, loaded, outcome, answer, caches, rows, world>>

\* Faulty variant: only a success wakes the followers.
FollowerServedOnSuccess(r) ==
  LET o == outcome[joined[r]] IN
  /\ pc[r] = "waiting"
  /\ o \notin {None, Failed}
  /\ render' = [render EXCEPT ![r] = o]
  /\ pc' = [pc EXCEPT ![r] = "storing"]
  /\ UNCHANGED <<request, joined, loaded, outcome, answer, caches, inflight, rows,
                 world>>

\* A follower takes its leader's result, an error included.
FollowerServed(r) ==
  LET o == outcome[joined[r]] IN
  /\ pc[r] = "waiting"
  /\ o # None
  /\ render' = [render EXCEPT ![r] = IF o = Failed THEN None ELSE o]
  /\ pc' = [pc EXCEPT ![r] = IF o = Failed THEN "deciding" ELSE "storing"]
  /\ UNCHANGED <<request, joined, loaded, outcome, answer, caches, inflight, rows,
                 world>>

\* Its own context ends first.
FollowerGivesUp(r) ==
  /\ pc[r] = "waiting"
  /\ dead[r]
  /\ pc' = [pc EXCEPT ![r] = "deciding"]
  /\ UNCHANGED <<request, joined, loaded, outcome, render, answer, caches,
                 inflight, rows, world>>

\* Faulty variant: the challenge check is dropped.
StorableAny(x) == TRUE

\* A bot-protection page is not evidence about the site.
Storable(x) == x.content # "challenge"

\* setRenderCache: the URL's entry, and the domain's unless the page is
\* sensitive.  Leader and followers each do it.
StoreRender(r) ==
  LET u == profile[r].url IN
  /\ pc[r] = "storing"
  /\ IF Storable(render[r])
     THEN /\ rcache' = [rcache EXCEPT ![u] = render[r]]
          /\ dcache' = IF MayUseDomainRender(u) THEN render[r] ELSE dcache
     ELSE UNCHANGED <<rcache, dcache>>
  /\ pc' = [pc EXCEPT ![r] = "deciding"]
  /\ UNCHANGED <<request, joined, loaded, outcome, render, answer, vcache,
                 inflight, rows, world>>

\* A sensitive page about which nothing could be learned: the challenge rule,
\* the fail-closed rule (which takes any feed hit for verification) and the
\* health gate (a render was asked for and is missing).
Unverified(p, f, x) ==
  /\ p.url \in Sensitive
  /\ \/ x # None /\ x.content = "challenge"
     \/ x = None /\ (f = "no" \/ RunsTier2(p))

\* buildPolicyInputs and policy.Apply, by the order of their rules.  A page the
\* render shows to be malicious is one of the hard page rules; an elevated mode
\* may turn what is left into ISOLATE: paranoid on sensitive pages, ultra when
\* clearance is incomplete.
Judge(p, f, x) ==
  LET elevated == [verdict |-> "ISOLATE", reason |-> "mode"] IN
  IF p.ip = "private" THEN {[verdict |-> "BLOCK", reason |-> "connection"]}
  ELSE IF f = "content" /\ p.filter THEN {[verdict |-> "BLOCK", reason |-> "category"]}
  ELSE IF f = "security" THEN {[verdict |-> "BLOCK", reason |-> "feed"]}
  ELSE IF x # None /\ x.content = "bad" THEN {[verdict |-> "BLOCK", reason |-> "page"]}
  ELSE IF Unverified(p, f, x) THEN {[verdict |-> "ISOLATE", reason |-> "unverified"]}
  ELSE {[verdict |-> "ALLOW", reason |-> "none"]} \cup
       (IF p.mode = "ultra" \/ (p.mode = "paranoid" /\ p.url \in Sensitive)
        THEN {elevated} ELSE {})

\* Faulty variant: rows written without a transaction.
PersistUrlFirst(r, a) ==
  /\ urls' = [urls EXCEPT ![profile[r].url] = [verdict |-> a.verdict, id |-> a.id]]
  /\ \/ UNCHANGED <<evidence, history>>
     \/ /\ evidence' = [evidence EXCEPT ![a.id] = [url |-> profile[r].url, judged |-> r]]
        /\ history' = history \cup {[by |-> r, url |-> profile[r].url, id |-> a.id]}

\* persistScan, one transaction: the evidence row is inserted, or only its
\* signals updated; the urls row points at it; scan_history is appended.
Persist(r, a) ==
  LET u == profile[r].url
      row == [url |-> IF evidence[a.id] = None THEN u ELSE evidence[a.id].url,
              judged |-> r] IN
  /\ evidence' = [evidence EXCEPT ![a.id] = row]
  /\ urls' = [urls EXCEPT ![u] = [verdict |-> a.verdict, id |-> a.id]]
  /\ history' = history \cup {[by |-> r, url |-> u, id |-> a.id]}

\* What the feed lookup, which runs beside Tier 2, may have returned: an error or
\* a timeout reads as no hit.
FeedResults == {"no", listed}

\* Once the corroborators are joined: judge, then persist if the database and
\* the context allow; a failure is logged and the verdict stands.
Decide(r) ==
  LET p == profile[r]
      id == IF render[r] # None THEN render[r].id ELSE [from |-> "scan", of |-> r] IN
  /\ pc[r] = "deciding"
  /\ \E f \in FeedResults : \E j \in Judge(p, f, render[r]) :
       LET a == [verdict |-> j.verdict, reason |-> j.reason, id |-> id,
                 ip |-> p.ip, by |-> r] IN
       /\ answer' = [answer EXCEPT ![r] = a]
       /\ \/ ~dead[r] /\ Persist(r, a)
          \/ UNCHANGED rows
  /\ pc' = [pc EXCEPT ![r] = "answering"]
  /\ UNCHANGED <<request, joined, loaded, outcome, render, caches, inflight, world>>

\* Faulty variant: ultra mode is forgotten.
MayWriteVerdictUltra(p, a) ==
  /\ ~(p.mode = "paranoid" /\ a.verdict = "ALLOW")
  /\ p.url \notin Uncached

\* setVerdictCache: an ALLOW of an elevated mode is not stored, nothing of an
\* uncached page is.
MayWriteVerdict(p, a) ==
  /\ ~(Elevated(p) /\ a.verdict = "ALLOW")
  /\ p.url \notin Uncached

\* The response is built and stored, under a context of its own.
Respond(r) ==
  LET p == profile[r] IN
  /\ pc[r] = "answering"
  /\ \/ /\ MayWriteVerdict(p, answer[r])
        /\ vcache' = [vcache EXCEPT ![p.url] = answer[r]]
     \/ UNCHANGED vcache
  /\ pc' = [pc EXCEPT ![r] = "done"]
  /\ UNCHANGED <<request, joined, loaded, outcome, render, answer, rcache, dcache,
                 inflight, rows, world>>

\* The deadline passes or the client goes away.
ContextEnds(r) ==
  /\ pc[r] \notin {"idle", "done"}
  /\ ~dead[r]
  /\ dead' = [dead EXCEPT ![r] = TRUE]
  /\ UNCHANGED <<pc, profile, past, joined, loaded, outcome, render, answer, caches,
                 inflight, rows, world>>

PageTurns(u) ==
  /\ page[u] = "clean"
  /\ page' = [page EXCEPT ![u] = "bad"]
  /\ UNCHANGED <<pc, request, joined, loaded, outcome, render, answer, caches,
                 inflight, rows, listed>>

Work(r) ==
  \/ CacheHit(r) \/ CacheMiss(r)
  \/ SkipTier2(r) \/ RenderHit(r) \/ LeadRender(r) \/ JoinRender(r)
  \/ RenderEnds(r) \/ Unregister(r) \/ FollowerServed(r) \/ FollowerGivesUp(r) \/ StoreRender(r)
  \/ Decide(r) \/ Respond(r)

Next ==
  \/ \E r \in Requests : Arrive(r) \/ Work(r) \/ ContextEnds(r)
  \/ \E u \in Urls : PageTurns(u)

Spec == Init /\ [][Next]_vars

\* Every goroutine runs, and each of its calls carries a timeout.
Fairness == \A r \in Requests : WF_vars(Work(r))

FairSpec == Spec /\ Fairness

-----------------------------------------------------------------------------
OrNone(S) == S \cup {None}

\* Every request, cache entry and row holds what the pipeline stores there.
TypeOK ==
  /\ pc \in [Requests -> PCs]
  /\ profile \in [Requests -> OrNone(Profiles)]
  /\ dead \in [Requests -> BOOLEAN]
  /\ joined \in [Requests -> OrNone(Requests)]
  /\ loaded \in [Requests -> OrNone(Contents)]
  /\ outcome \in [Requests -> OrNone(Renders \cup {Failed})]
  /\ render \in [Requests -> OrNone(Renders)]
  /\ answer \in [Requests -> OrNone(Answers)]
  /\ vcache \in [Urls -> OrNone(Answers)]
  /\ rcache \in [Urls -> OrNone(Renders)]
  /\ dcache \in OrNone(Renders)
  /\ inflight \in [Keys -> OrNone(Requests)]
  /\ evidence \in [EvidenceIds -> OrNone(EvidenceRows)]
  /\ urls \in [Urls -> OrNone([verdict : Verdicts, id : EvidenceIds])]
  /\ history \subseteq [by : Requests, url : Urls, id : EvidenceIds]
  /\ page \in [Urls -> Contents]
  /\ listed \in {"no", "security", "content"}
  /\ past \in [Requests -> SUBSET EvidenceIds]

Done(r) == pc[r] = "done"

\* No answer crosses modes the wrong way: a request in an elevated mode, a
\* rescan, or one for an uncached page is answered by its own scan, and an
\* ALLOW taken from the cache was given by a scan of a normal-mode request.
ModesIsolated ==
  \A r \in Requests : Done(r) =>
    /\ profile[r].force \/ Elevated(profile[r]) \/ profile[r].url \in Uncached
         => answer[r].by = r
    /\ answer[r].by # r /\ answer[r].verdict = "ALLOW"
         => ~Elevated(profile[answer[r].by])

\* A cached answer is the answer its scan gave, about the same URL: never a
\* verdict of another page of the domain, however the two scans interleave.
CachedAnswerIsAnAnswer ==
  \A r \in Requests : Done(r) =>
    /\ answer[answer[r].by] = answer[r]
    /\ profile[answer[r].by].url = profile[r].url

\* Of the page's coalescing key or, for a cached page, of the key of another one.
InScope(x, u) ==
  \/ Key[x.url] = Key[u]
  \/ u \notin Uncached /\ \E v \in Urls \ Uncached : Key[v] = Key[x.url]

\* Evidence is about the page judged: a render under its coalescing key, or, when
\* it is no uncached page, one that was got for another such page of the domain.
EvidenceScope == \A r \in Requests : render[r] # None => InScope(render[r], profile[r].url)

\* A rescan and a paranoid request are judged on evidence whose call was not over
\* when they arrived, never on a stored render.
RescanOnNewEvidence ==
  \A r \in Requests :
    /\ profile[r] # None
    /\ profile[r].force \/ profile[r].mode = "paranoid"
    /\ render[r] # None
    => render[r].id \notin past[r]

\* Answers taken from the cache fit the request: they cross no mode the wrong way, and
\* are the answer a scan of the same URL gave.
CachedAnswersFit == TypeOK /\ ModesIsolated /\ CachedAnswerIsAnAnswer

\* Evidence fits the request, wherever it was kept: it is about the page judged, and
\* of this scan where the request asks for that.
EvidenceIsFit == EvidenceScope /\ RescanOnNewEvidence

\* A bot-protection page judges only the requests that waited for that very
\* render; it never becomes evidence for later ones.
ChallengeNotReused ==
  \A r \in Requests :
    render[r] # None /\ render[r].content = "challenge"
      => render[r].id.of \in {r, joined[r]}

\* The urls row points at an evidence row that exists, also when persisting fails
\* half way.
EvidenceIsThere == \A u \in Urls : urls[u] # None => evidence[urls[u].id] # None

\* It points at a scan of the url that is in the history.
ScanIsRecorded ==
  \A u \in Urls : urls[u] # None => \E h \in history : h.url = u /\ h.id = urls[u].id

\* The evidence row of a render is about the page that was rendered or was
\* first judged on it; a later scan that shares the render never retargets it.
EvidenceKeepsItsPage ==
  [][\A i \in EvidenceIds :
       evidence[i] # None => evidence'[i] # None /\ evidence'[i].url = evidence[i].url]_vars

\* Rows agree with one another, and none is turned to another page.
RowsHold == [](EvidenceIsThere /\ ScanIsRecorded) /\ EvidenceKeepsItsPage

\* Whatever ends, fails or goes away, every request gets an answer.
EveryRequestAnswered == \A r \in Requests : pc[r] = "lookup" ~> pc[r] = "done"

-----------------------------------------------------------------------------
(* What comments of the code say and its behaviour does not keep. *)

\* persist.go:5: "a second scan of the same URL produces a new evidence row".
ScanHasOwnEvidence ==
  \A g, h \in history : g.by # h.by => g.id # h.id

\* gateway.go:229: connection_identity is "Absent (nil) when the extension
\* didn't supply browser_remote_ip".
ConnectionAbsentWhenNotSupplied ==
  \A r \in Requests : Done(r) /\ profile[r].ip = "none" => answer[r].ip = "none"

\* policy.go:589: the private-address rule "MUST fire before Stage 0"; pipeline.go:631
\* calls it "already enforced upstream" for the response it annotates.
PrivateAddressBlocked ==
  \A r \in Requests : Done(r) /\ profile[r].ip = "private" => answer[r].verdict = "BLOCK"

\* policy.go:919: "Content categories only block when the user has them ON".
CategoryBlocksOnlyWhenOn ==
  \A r \in Requests : Done(r) /\ answer[r].reason = "category" => profile[r].filter

\* verdictcache.go:140: detections are stored because "every future user benefits
\* from a paranoid-mode detection": none is displaced by an ALLOW judged on
\* evidence that was already there when the detecting request arrived.
ParanoidDetectionKept ==
  [][\A u \in Urls :
       (vcache[u] # None /\ vcache'[u] # vcache[u] /\ vcache'[u].verdict = "ALLOW")
         => ~ /\ profile[vcache[u].by].mode = "paranoid"
              /\ vcache'[u].id \in past[vcache[u].by]]_vars

\* verdictcache.go:190: the domain-level render is looked up "only for non-sensitive
\* paths": such a page and an uncached one are never judged on one another's render.
UncachedKeptApart ==
  \A r \in Requests : render[r] # None =>
    (render[r].url \in Uncached <=> profile[r].url \in Uncached)

\* verdictcache.go:71: sensitive pages "must never be cached ... these pages must
\* always be re-verified".
SensitiveReverified ==
  \A r \in Requests :
    profile[r] # None /\ profile[r].url \in Uncached /\ render[r] # None
      => render[r].id \notin past[r]

\* policy.go:1279: "unknown sensitive pages should not fail open when verdict service
\* is unavailable": no ALLOW for one without evidence.
SensitiveFailsClosed ==
  \A r \in Requests :
    answer[r] # None /\ profile[r].url \in Sensitive /\ answer[r].id.from = "scan"
      => answer[r].verdict # "ALLOW"

\* gateway.go:394: for a medium scan "we use the same heuristic as on-demand scans".
MediumUsesTheHeuristic ==
  \A r \in Requests :
    pc[r] = "rendering" /\ profile[r].tier = "medium" => profile[r].url \in Suspicious

\* policy.go:1891: "ultra forces sandbox elsewhere".
UltraForcesSandbox ==
  \A r \in Requests :
    pc[r] = "deciding" /\ profile[r].mode = "ultra" => RunsTier2(profile[r])
=============================================================================
