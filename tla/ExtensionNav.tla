---------------------------- MODULE ExtensionNav ----------------------------
(***************************************************************************)
(* The browser extension's handling of top-level navigations: the service  *)
(* worker's event handlers (background.js) and the holding page            *)
(* (holding.js), which meet in chrome.storage and in the tabs.             *)
(*                                                                         *)
(* A handler gives way at every await, so handlers interleave between two  *)
(* accesses of the storage or of a tab; webNavigation does not stop the    *)
(* browser, which loads the page meanwhile.  The worker may be killed      *)
(* between any two steps, the browser be restarted.  verdict-api may give  *)
(* any answer at any time.                                                 *)
(***************************************************************************)
EXTENDS Integers, FiniteSets

CONSTANTS
  Tabs, Urls,
  Sensitive,  \* isSensitive: login, payment, OAuth, ...
  Normal,     \* normalizeForToken: no fragment, no trailing slash
  Answers,    \* what verdict-api and its client may answer
  Tasks,      \* handlers that run at a time, bound
  TokenTTL, Window, AllowTTL, WarnTTL, BlockTTL,   \* their order, not their length
  Limit,      \* RETRY_INTERCEPT_LIMIT
  MaxNow, MaxVisits, MaxFaults,                    \* bounds
  Faults,     \* which faults may happen
  None

Verdicts == {"ALLOW", "WARN", "ISOLATE", "BLOCK"}

ASSUME UrlsAssumption ==
  /\ Sensitive \subseteq Urls
  /\ Normal \in [Urls -> Urls] /\ \A u \in Urls : Normal[Normal[u]] = Normal[u]
ASSUME AnswersAssumption == Answers \subseteq Verdicts \cup {"ANALYZING"}
ASSUME TimesAssumption ==
  /\ {TokenTTL, Window, AllowTTL, WarnTTL, BlockTTL, MaxNow, MaxVisits, MaxFaults} \subseteq Nat
  /\ TokenTTL <= Window /\ Window <= AllowTTL /\ AllowTTL <= WarnTTL /\ WarnTTL <= BlockTTL
  /\ Limit \in Nat \ {0}
\* The script of a holding page: the attempts it has made, whether the choice is shown.
Scripts == [pc : {"ask", "wait", "idle", "route", "applying", "rejected"}, tries : 0..2,
            choice : BOOLEAN, verdict : Verdicts \cup {None}]

\* A navigation's handler, between the token and the page that is shown.
NavSteps == {"temp", "session", "local", "block", "limit", "swap"}
NavBys == {"link", "proceed", "trust", "retry", "popup", "release"}
Navs == [kind : {"nav"}, tab : Tabs, url : Urls, pc : NavSteps, got : {None}, live : BOOLEAN,
         by : NavBys]

\* None stands for the null of JavaScript: no time, no handler, no script.
ASSUME NoneAssumption == None \notin Nat /\ None \notin Navs /\ None \notin Scripts
ASSUME FaultsAssumption ==
  Faults \subseteq {"worker", "restart", "storage", "network", "redirect"}

VARIABLES
  now,
  tab,      \* what each tab shows
  pending,  \* the URL the browser is loading into it
  page,     \* the script of its holding page
  task,     \* the handlers at work
  token,    \* jv: when a verdict was applied, by normalised URL
  session,  \* v: verdicts, until the browser restarts
  local,    \* bl: BLOCK verdicts, kept
  temp,     \* at: URLs of the hosts the user trusts for a day (longer than MaxNow)
  retries,  \* rt: intercepts in the window
  removals, \* removals from bl that were asked for and are still to come, by URL
  visits, faults,
  stamped, held, last
            \* ghosts: the last stamp of a URL, its intercepts since each moment, and the
            \* verdict last kept for it (a BLOCK: on disk, unless the session has another,
            \* and until a removal takes it)

Times == 0..MaxNow
storage == <<token, session, local, temp, retries, removals>>
ghosts == <<stamped, held, last>>
vars == <<now, tab, pending, page, task, storage, visits, faults, ghosts>>

Blank == [show |-> "blank", url |-> None]
Interstitials == {"holding", "warned", "isolated", "blocked", "failed"}
ShownFor == [BLOCK |-> "blocked", WARN |-> "warned", ISOLATE |-> "isolated"]

Init ==
  /\ now = 0
  /\ tab = [t \in Tabs |-> Blank]
  /\ pending = [t \in Tabs |-> None]
  /\ page = [t \in Tabs |-> None]
  /\ task = [k \in Tasks |-> None]
  /\ token = [u \in Urls |-> None]
  /\ session = [u \in Urls |-> None]
  /\ local = [u \in Urls |-> None]
  /\ temp = {}
  /\ retries = [u \in Urls |-> None]
  /\ removals = [u \in Urls |-> 0]
  /\ visits = 0 /\ faults = 0
  /\ stamped = [u \in Urls |-> None]
  /\ held = [u \in Urls |-> [s \in Times |-> 0]]
  /\ last = [u \in Urls |-> None]

-----------------------------------------------------------------------------
(* Tabs and handlers *)

Free(k) == task[k] = None
At(k, kind, pc) == task[k] # None /\ task[k].kind = kind /\ task[k].pc = pc
Goto(k, pc) == task' = [task EXCEPT ![k].pc = pc]
End(k) == task' = [task EXCEPT ![k] = None]

\* live: whoever sent the message still waits.  by: what made the browser navigate.
Task(kind, t, u, pc, got, by) ==
  [kind |-> kind, tab |-> t, url |-> u, pc |-> pc, got |-> got, live |-> TRUE, by |-> by]

\* The browser starts loading u into tab t, and onBeforeNavigate is called.
Load(t, u, k, by) ==
  /\ pending' = [pending EXCEPT ![t] = u]
  /\ task' = [task EXCEPT ![k] = Task("nav", t, u, "token", None, by)]

\* The messages of tab t's page have nobody to answer any more.
Orphaned(tasks, t) ==
  [j \in Tasks |-> IF tasks[j] # None /\ tasks[j].tab = t /\ tasks[j].kind \in {"resolve", "apply"}
                   THEN [tasks[j] EXCEPT !.live = FALSE] ELSE tasks[j]]

\* chrome.tabs.update to a page of the extension, by the handler in k, which ends.
Show(k, t, show, u) ==
  /\ tab' = [tab EXCEPT ![t] = [show |-> show, url |-> u]]
  /\ pending' = [pending EXCEPT ![t] = None]
  /\ page' = [page EXCEPT ![t] =
       IF show = "holding" THEN [pc |-> "ask", tries |-> 0, choice |-> FALSE, verdict |-> None]
       ELSE None]
  /\ task' = Orphaned([task EXCEPT ![k] = None], t)

\* The page is there, verified or not.
Commit(t) ==
  /\ pending[t] # None
  /\ tab' = [tab EXCEPT ![t] = [show |-> "page", url |-> pending[t]]]
  /\ pending' = [pending EXCEPT ![t] = None]
  /\ page' = [page EXCEPT ![t] = None]
  /\ task' = Orphaned(task, t)
  /\ UNCHANGED <<now, storage, visits, faults, ghosts>>

Visit(t, u, by, k) ==
  /\ visits < MaxVisits
  /\ visits' = visits + 1
  /\ Free(k)
  /\ Load(t, u, k, by)
  /\ UNCHANGED <<now, tab, page, faults, ghosts>>

\* The user follows a link or types a URL.
Navigate(t, u, k) == Visit(t, u, "link", k) /\ UNCHANGED storage

\* "Proceed anyway" on the warning, "open once" on the isolation page.
Proceed(t, k) ==
  /\ tab[t].show \in {"warned", "isolated"}
  /\ Visit(t, tab[t].url, "proceed", k) /\ UNCHANGED storage

\* "Allow for 24h" on the isolation page.
AllowTemp(t, k) ==
  /\ tab[t].show = "isolated"
  /\ Visit(t, tab[t].url, "trust", k)
  /\ temp' = temp \cup {tab[t].url}
  /\ UNCHANGED <<token, session, local, retries, removals>>

\* "Try again" on the page that explains a failed load.
Retry(t, k) ==
  /\ tab[t].show = "failed"
  /\ Visit(t, tab[t].url, "retry", k) /\ UNCHANGED storage

-----------------------------------------------------------------------------
(* onBeforeNavigate *)

\* consumeJustVerified, the read.
ReadToken(k) ==
  /\ At(k, "nav", "token")
  /\ LET x == token[Normal[task[k].url]] IN
     task' = [task EXCEPT ![k].got = x, ![k].pc = IF x = None THEN "temp" ELSE "consume"]
  /\ UNCHANGED <<now, tab, pending, page, storage, visits, faults, ghosts>>

\* Faulty variant: an expired token passes too.
ConsumeLate(k) ==
  /\ At(k, "nav", "consume")
  /\ LET n == Normal[task[k].url] IN
     /\ token' = [token EXCEPT ![n] = None]
     /\ End(k)
  /\ UNCHANGED <<now, tab, pending, page, session, local, temp, retries, removals, visits,
                 faults, stamped, held, last>>

\* consumeJustVerified, the removal: one-shot, whether or not the token is too old.
Consume(k) ==
  /\ At(k, "nav", "consume")
  /\ LET n == Normal[task[k].url] IN
     /\ token' = [token EXCEPT ![n] = None]
     /\ \/ /\ now - task[k].got <= TokenTTL
           /\ End(k)
        \/ /\ now - task[k].got > TokenTTL
           /\ task' = [task EXCEPT ![k].pc = "temp", ![k].got = None]
  /\ UNCHANGED <<now, tab, pending, page, session, local, temp, retries, removals, visits,
                 faults, stamped, held, last>>

\* isAllowTemp; sensitive URLs skip the cache.
ReadTemp(k) ==
  /\ At(k, "nav", "temp")
  /\ IF task[k].url \in temp THEN End(k)
     ELSE Goto(k, IF task[k].url \in Sensitive THEN "limit" ELSE "session")
  /\ UNCHANGED <<now, tab, pending, page, storage, visits, faults, ghosts>>

TTLOf(v) ==
  CASE v = "BLOCK" -> BlockTTL [] v \in {"WARN", "ISOLATE"} -> WarnTTL [] v = "ALLOW" -> AllowTTL

Expired(e) == now - e.t > TTLOf(e.v)

\* getCached found e under u: for an expired entry it asks for the removal of the copy on
\* disk, and does not wait for it.
Cleanup(u, e) ==
  removals' = IF Expired(e) THEN [removals EXCEPT ![u] = @ + 1] ELSE removals

\* What the handler does with the entry e that getCached found.
Answered(k, e) ==
  /\ Cleanup(task[k].url, e)
  /\ CASE ~Expired(e) /\ e.v = "ALLOW" -> End(k)
       [] ~Expired(e) /\ e.v = "BLOCK" -> Goto(k, "block")
       [] OTHER -> Goto(k, "limit")

\* getCached: session first, under the URL as it is.
ReadSession(k) ==
  /\ At(k, "nav", "session")
  /\ LET e == session[task[k].url] IN
     IF e = None THEN Goto(k, "local") /\ UNCHANGED removals ELSE Answered(k, e)
  /\ UNCHANGED <<now, tab, pending, page, token, session, local, temp, retries, visits, faults,
                 ghosts>>

\* getCached, the persistent BLOCKs.
ReadLocal(k) ==
  /\ At(k, "nav", "local")
  /\ LET e == local[task[k].url] IN
     IF e = None THEN Goto(k, "limit") /\ UNCHANGED removals ELSE Answered(k, e)
  /\ UNCHANGED <<now, tab, pending, page, token, session, local, temp, retries, visits, faults,
                 ghosts>>

\* A removal that getCached asked for takes what is on disk by now; or it fails, or died
\* with the worker.
Remove(u) ==
  /\ removals[u] > 0
  /\ removals' = [removals EXCEPT ![u] = @ - 1]
  /\ \/ /\ local' = [local EXCEPT ![u] = None]
        /\ last' = [w \in Urls |-> IF Normal[w] = u /\ last[w] = local[u] THEN None ELSE last[w]]
     \/ UNCHANGED <<local, last>>
  /\ UNCHANGED <<now, tab, pending, page, task, token, session, temp, retries, visits, faults,
                 stamped, held>>

SwapBlocked(k) ==
  /\ At(k, "nav", "block")
  /\ Show(k, task[k].tab, "blocked", task[k].url)
  /\ UNCHANGED <<now, storage, visits, faults, ghosts>>

\* No intercept counted in the window.
Lapsed(r) == r = None \/ now - r.since > Window

\* shouldThrottleIntercept, the read; an old window starts anew.
ReadRetries(k) ==
  /\ At(k, "nav", "limit")
  /\ LET r == retries[Normal[task[k].url]] IN
     task' = [task EXCEPT ![k].pc = "count",
                ![k].got = IF Lapsed(r) THEN [count |-> 0, since |-> now] ELSE r]
  /\ UNCHANGED <<now, tab, pending, page, storage, visits, faults, ghosts>>

\* The intercepts of n since each moment, with one more.
OneMore(n) == [s \in Times |-> IF s <= now THEN held[n][s] + 1 ELSE held[n][s]]

\* Faulty variant: off by one.
CountEarly(k) ==
  /\ At(k, "nav", "count")
  /\ LET n == Normal[task[k].url]
         r == [task[k].got EXCEPT !.count = @ + 1] IN
     /\ retries' = [retries EXCEPT ![n] = r]
     /\ IF r.count >= Limit THEN End(k) /\ UNCHANGED held
        ELSE /\ task' = [task EXCEPT ![k].pc = "swap", ![k].got = None]
             /\ held' = [held EXCEPT ![n] = OneMore(n)]
  /\ UNCHANGED <<now, tab, pending, page, token, session, local, temp, removals, visits,
                 faults, stamped, last>>

\* shouldThrottleIntercept, the write; over the limit the navigation goes through.
Count(k) ==
  /\ At(k, "nav", "count")
  /\ LET n == Normal[task[k].url]
         r == [task[k].got EXCEPT !.count = @ + 1] IN
     /\ retries' = [retries EXCEPT ![n] = r]
     /\ IF r.count > Limit THEN End(k) /\ UNCHANGED held
        ELSE /\ task' = [task EXCEPT ![k].pc = "swap", ![k].got = None]
             /\ held' = [held EXCEPT ![n] = OneMore(n)]
  /\ UNCHANGED <<now, tab, pending, page, token, session, local, temp, removals, visits,
                 faults, stamped, last>>

SwapHolding(k) ==
  /\ At(k, "nav", "swap")
  /\ Show(k, task[k].tab, "holding", task[k].url)
  /\ UNCHANGED <<now, storage, visits, faults, ghosts>>

-----------------------------------------------------------------------------
(* onCreatedNavigationTarget and onErrorOccurred *)

\* A page opens a new tab on u; both handlers are called.
OpenPopup(s, t, u, j, k) ==
  /\ tab[s].show = "page" /\ tab[t] = Blank /\ pending[t] = None
  /\ visits < MaxVisits /\ visits' = visits + 1
  /\ Free(j) /\ Free(k) /\ j # k
  /\ pending' = [pending EXCEPT ![t] = u]
  /\ task' = [task EXCEPT ![j] = Task("nav", t, u, "token", None, "popup"),
                          ![k] = Task("popup", t, u, "opener", tab[s].url, "popup")]
  /\ UNCHANGED <<now, tab, page, storage, faults, ghosts>>

\* What the handler makes of the opener's entry.
OpenerAnswered(k, e) ==
  /\ Cleanup(task[k].got, e)
  /\ Goto(k, IF ~Expired(e) /\ e.v = "BLOCK" THEN "block" ELSE "swap")

\* The verdict cached for the opener: the session's.
ReadOpener(k) ==
  /\ At(k, "popup", "opener")
  /\ LET e == session[task[k].got] IN
     IF e = None THEN Goto(k, "lineage") /\ UNCHANGED removals ELSE OpenerAnswered(k, e)
  /\ UNCHANGED <<now, tab, pending, page, token, session, local, temp, retries, visits, faults,
                 ghosts>>

\* The verdict cached for the opener: the persistent one.
ReadOpenerLocal(k) ==
  /\ At(k, "popup", "lineage")
  /\ LET e == local[task[k].got] IN
     IF e = None THEN Goto(k, "swap") /\ UNCHANGED removals ELSE OpenerAnswered(k, e)
  /\ UNCHANGED <<now, tab, pending, page, token, session, local, temp, retries, visits, faults,
                 ghosts>>

\* Blocked on lineage, or held: neither token, trust nor limit is asked.
SwapPopup(k) ==
  /\ At(k, "popup", "block") \/ At(k, "popup", "swap")
  /\ Show(k, task[k].tab, IF task[k].pc = "block" THEN "blocked" ELSE "holding", task[k].url)
  /\ UNCHANGED <<now, storage, visits, faults, ghosts>>

\* The load fails: name, connection or network policy.
LoadFails(t, k) ==
  /\ "network" \in Faults /\ faults < MaxFaults /\ faults' = faults + 1
  /\ pending[t] # None /\ Free(k)
  /\ pending' = [pending EXCEPT ![t] = None]
  /\ tab' = [tab EXCEPT ![t] = Blank]
  /\ page' = [page EXCEPT ![t] = None]
  /\ task' = Orphaned([task EXCEPT ![k] = Task("error", t, pending[t], "drop", None, None)], t)
  /\ UNCHANGED <<now, storage, visits, ghosts>>

\* onErrorOccurred drops the session's verdict of the URL.
DropVerdict(k) ==
  /\ At(k, "error", "drop")
  /\ session' = [session EXCEPT ![Normal[task[k].url]] = None]
  /\ Goto(k, "swap")
  /\ UNCHANGED <<now, tab, pending, page, token, local, temp, retries, removals, visits,
                 faults, ghosts>>

SwapFailed(k) ==
  /\ At(k, "error", "swap")
  /\ Show(k, task[k].tab, "failed", task[k].url)
  /\ UNCHANGED <<now, storage, visits, faults, ghosts>>

-----------------------------------------------------------------------------
(* The messages resolve and apply *)

\* fetchVerdict; failures and timeouts are ANALYZING.
Fetch(k) ==
  /\ At(k, "resolve", "fetch")
  /\ \E v \in Answers :
       task' = [task EXCEPT ![k].got = [v |-> v, t |-> now],
                  ![k].pc = IF v = "ANALYZING" \/ task[k].url \in Sensitive
                            THEN "reply" ELSE "store"]
  /\ UNCHANGED <<now, tab, pending, page, storage, visits, faults, ghosts>>

\* setCached, under the normalised URL.
Store(k) ==
  /\ At(k, "resolve", "store")
  /\ LET e == [v |-> task[k].got.v, t |-> now] IN
     /\ session' = [session EXCEPT ![Normal[task[k].url]] = e]
     /\ task' = [task EXCEPT ![k].got = e, ![k].pc = IF e.v = "BLOCK" THEN "mirror" ELSE "reply"]
     /\ last' = IF e.v = "BLOCK" THEN last ELSE [last EXCEPT ![task[k].url] = e]
  /\ UNCHANGED <<now, tab, pending, page, token, local, temp, retries, removals, visits,
                 faults, stamped, held>>

\* Faulty variant: the persistent copy is forgotten.
MirrorNot(k) ==
  /\ At(k, "resolve", "mirror")
  /\ LET n == Normal[task[k].url] IN
     last' = IF session[n] # None /\ session[n].v # "BLOCK"
             THEN last ELSE [last EXCEPT ![task[k].url] = task[k].got]
  /\ Goto(k, "reply")
  /\ UNCHANGED <<now, tab, pending, page, storage, visits, faults, stamped, held>>

\* setCached, the persistent copy of a BLOCK.
Mirror(k) ==
  /\ At(k, "resolve", "mirror")
  /\ LET n == Normal[task[k].url] IN
     /\ local' = [local EXCEPT ![n] = task[k].got]
     /\ last' = IF session[n] # None /\ session[n].v # "BLOCK"
                THEN last ELSE [last EXCEPT ![task[k].url] = task[k].got]
  /\ Goto(k, "reply")
  /\ UNCHANGED <<now, tab, pending, page, token, session, temp, retries, removals, visits,
                 faults, stamped, held>>

\* What the script makes of an attempt that brought nothing.
Missed(p) ==
  IF p.tries < 2 THEN [p EXCEPT !.pc = "ask"] ELSE [p EXCEPT !.pc = "idle", !.choice = TRUE]

\* sendResponse; the page routes a verdict, unless it has been left or resolved.
Reply(k) ==
  /\ At(k, "resolve", "reply")
  /\ LET t == task[k].tab
         v == task[k].got.v
     IN  page' = IF ~task[k].live THEN page
                 ELSE [page EXCEPT ![t] = IF v = "ANALYZING" THEN Missed(@)
                                          ELSE [@ EXCEPT !.pc = "route", !.verdict = v]]
  /\ End(k)
  /\ UNCHANGED <<now, tab, pending, storage, visits, faults, ghosts>>

\* Only a tab that shows a page of the extension is redirected.
ApplyCheck(k) ==
  /\ At(k, "apply", "check")
  /\ IF tab[task[k].tab].show \in Interstitials
     THEN Goto(k, IF task[k].got = "ALLOW" THEN "stamp" ELSE "update")
     ELSE End(k)
  /\ UNCHANGED <<now, tab, pending, page, storage, visits, faults, ghosts>>

\* stampJustVerified.
ApplyStamp(k) ==
  /\ At(k, "apply", "stamp")
  /\ LET n == Normal[task[k].url] IN
     /\ token' = [token EXCEPT ![n] = now]
     /\ stamped' = [stamped EXCEPT ![n] = now]
  /\ Goto(k, "update")
  /\ UNCHANGED <<now, tab, pending, page, session, local, temp, retries, removals, visits,
                 faults, held, last>>

\* applyVerdict: release the tab to the URL or show the interstitial.
ApplyUpdate(k) ==
  /\ At(k, "apply", "update")
  /\ IF task[k].got = "ALLOW"
     THEN Load(task[k].tab, task[k].url, k, "release") /\ UNCHANGED <<tab, page>>
     ELSE Show(k, task[k].tab, ShownFor[task[k].got], task[k].url)
  /\ UNCHANGED <<now, storage, visits, faults, ghosts>>

\* A storage call throws, or the tabs.update of an apply.  Where nothing catches it the handler
\* ends: the apply message is answered {ok: false}, which the page does not read, and a
\* navigation goes on.
Uncaught ==
  {"apply"} \X {"stamp", "update"} \cup {"nav"} \X {"token", "consume", "session", "local"}
StorageFails(k) ==
  /\ "storage" \in Faults /\ faults < MaxFaults /\ faults' = faults + 1
  /\ ~Free(k)
  /\ \/ <<task[k].kind, task[k].pc>> \in Uncaught /\ End(k)
     \/ At(k, "resolve", "store") /\ Goto(k, "reply")
     \/ At(k, "resolve", "mirror") /\ Goto(k, "reply")
     \/ At(k, "nav", "limit") /\ Goto(k, "swap")
     \/ At(k, "nav", "count") /\ Goto(k, "swap")
     \/ At(k, "error", "drop") /\ Goto(k, "swap")
     \/ At(k, "popup", "opener") /\ Goto(k, "swap")
     \/ At(k, "popup", "lineage") /\ Goto(k, "swap")
  /\ UNCHANGED <<now, tab, pending, page, storage, visits, ghosts>>

\* chrome.tabs.update is rejected, as it is over an error page of Chrome's: caught or not,
\* the handler ends, and the tab goes on with what it shows or loads.
Swaps == {"nav", "popup"} \X {"block", "swap"} \cup {<<"error", "swap">>}
SwapRejected(k) ==
  /\ "redirect" \in Faults /\ faults < MaxFaults /\ faults' = faults + 1
  /\ ~Free(k) /\ <<task[k].kind, task[k].pc>> \in Swaps
  /\ End(k)
  /\ UNCHANGED <<now, tab, pending, page, storage, visits, ghosts>>

-----------------------------------------------------------------------------
(* The holding page *)

Script(t, pc) == page[t] # None /\ page[t].pc = pc

\* attemptResolve sends a message: at most twice.
Ask(t, k) ==
  /\ Script(t, "ask") /\ Free(k)
  /\ page' = [page EXCEPT ![t].pc = "wait", ![t].tries = @ + 1]
  /\ task' = [task EXCEPT ![k] = Task("resolve", t, tab[t].url, "fetch", None, None)]
  /\ UNCHANGED <<now, tab, pending, storage, visits, faults, ghosts>>

\* PER_ATTEMPT_MS is over, or the worker died: a later answer is ignored.
AttemptEnds(t) ==
  /\ Script(t, "wait")
  /\ page' = [page EXCEPT ![t] = Missed(@)]
  /\ task' = Orphaned(task, t)
  /\ UNCHANGED <<now, tab, pending, storage, visits, faults, ghosts>>

\* HARD_DEADLINE_MS: the choice is shown; the attempts go on behind it.
Deadline(t) ==
  /\ page[t] # None /\ page[t].pc \in {"ask", "wait", "idle"} /\ ~page[t].choice
  /\ page' = [page EXCEPT ![t].choice = TRUE]
  /\ UNCHANGED <<now, tab, pending, task, storage, visits, faults, ghosts>>

\* The buttons: allow once, allow and remember (allow_temp first), isolate, back.
Choose(t, v, remember) ==
  /\ page[t] # None /\ page[t].choice /\ page[t].pc \in {"ask", "wait", "idle"}
  /\ remember => v = "ALLOW"
  /\ page' = [page EXCEPT ![t].pc = "route", ![t].verdict = v]
  /\ temp' = IF remember THEN temp \cup {tab[t].url} ELSE temp
  /\ task' = Orphaned(task, t)
  /\ UNCHANGED <<now, tab, pending, token, session, local, retries, removals, visits, faults,
                 ghosts>>

GoBack(t) ==
  /\ page[t] # None /\ page[t].choice
  /\ tab' = [tab EXCEPT ![t] = Blank]
  /\ page' = [page EXCEPT ![t] = None]
  /\ task' = Orphaned(task, t)
  /\ UNCHANGED <<now, pending, storage, visits, faults, ghosts>>

\* applyVerdict of the page: resolved, no timer does anything any more.
Route(t, k) ==
  /\ Script(t, "route") /\ Free(k)
  /\ page' = [page EXCEPT ![t].pc = "applying"]
  /\ task' = [task EXCEPT ![k] = Task("apply", t, tab[t].url, "check", page[t].verdict, None)]
  /\ UNCHANGED <<now, tab, pending, storage, visits, faults, ghosts>>

\* Faulty variant: the rejection is only logged.
RouteDirectlyNot(t, k) ==
  /\ Script(t, "rejected") /\ Free(k)
  /\ page' = [page EXCEPT ![t].pc = "applying"]
  /\ UNCHANGED <<now, tab, pending, task, storage, visits, faults, ghosts>>

\* The apply message was rejected: the page navigates by itself.
RouteDirectly(t, k) ==
  /\ Script(t, "rejected") /\ Free(k)
  /\ page' = [page EXCEPT ![t].pc = "applying"]
  /\ Load(t, tab[t].url, k, "release")
  /\ UNCHANGED <<now, tab, storage, visits, faults, ghosts>>

-----------------------------------------------------------------------------
(* The environment *)

\* The worker is killed; open messages are rejected.
WorkerDies ==
  /\ "worker" \in Faults /\ faults < MaxFaults /\ faults' = faults + 1
  /\ \E k \in Tasks : ~Free(k)
  /\ task' = [k \in Tasks |-> None]
  /\ page' = [t \in Tabs |-> IF Script(t, "applying") THEN [page[t] EXCEPT !.pc = "rejected"]
                             ELSE page[t]]
  /\ UNCHANGED <<now, tab, pending, storage, visits, ghosts>>

\* The browser restarts: session storage and tabs are gone.
Restart ==
  /\ "restart" \in Faults /\ faults < MaxFaults /\ faults' = faults + 1
  /\ tab' = [t \in Tabs |-> Blank]
  /\ pending' = [t \in Tabs |-> None]
  /\ page' = [t \in Tabs |-> None]
  /\ task' = [k \in Tasks |-> None]
  /\ token' = [u \in Urls |-> None]
  /\ session' = [u \in Urls |-> None]
  /\ retries' = [u \in Urls |-> None]
  /\ removals' = [u \in Urls |-> 0]
  /\ held' = [u \in Urls |-> [s \in Times |-> 0]]
  /\ UNCHANGED <<now, local, temp, visits, stamped, last>>

Tick ==
  /\ now < MaxNow /\ now' = now + 1
  /\ UNCHANGED <<tab, pending, page, task, storage, visits, faults, ghosts>>

\* What the user does, and what befalls the browser.
Environment ==
  \/ Tick \/ WorkerDies \/ Restart
  \/ \E t \in Tabs, k \in Tasks :
       \/ \E u \in Urls : Navigate(t, u, k)
       \/ Proceed(t, k) \/ AllowTemp(t, k) \/ Retry(t, k) \/ LoadFails(t, k)
  \/ \E s, t \in Tabs, u \in Urls, j, k \in Tasks : OpenPopup(s, t, u, j, k)
  \/ \E t \in Tabs : GoBack(t) \/ \E v \in {"ALLOW", "ISOLATE"}, r \in BOOLEAN : Choose(t, v, r)
  \/ \E k \in Tasks : StorageFails(k) \/ SwapRejected(k)

\* The steps of the handler in k.
Handler(k) ==
  \/ ReadToken(k) \/ Consume(k) \/ ReadTemp(k) \/ ReadSession(k) \/ ReadLocal(k)
  \/ SwapBlocked(k) \/ ReadRetries(k) \/ Count(k) \/ SwapHolding(k)
  \/ ReadOpener(k) \/ ReadOpenerLocal(k) \/ SwapPopup(k) \/ DropVerdict(k) \/ SwapFailed(k)
  \/ Fetch(k) \/ Store(k) \/ Mirror(k) \/ Reply(k)
  \/ ApplyCheck(k) \/ ApplyStamp(k) \/ ApplyUpdate(k)

\* The steps of the tab's holding page.
Holding(t) ==
  \/ AttemptEnds(t) \/ Deadline(t)
  \/ \E k \in Tasks : Ask(t, k) \/ Route(t, k) \/ RouteDirectly(t, k)

Next ==
  \/ Environment
  \/ \E k \in Tasks : Handler(k)
  \/ \E t \in Tabs : Holding(t) \/ Commit(t)
  \/ \E u \in Urls : Remove(u)

Spec == Init /\ [][Next]_vars

\* A handler that can go on does, and so do the page's timers and the browser.
FairSpec ==
  /\ Spec
  /\ \A k \in Tasks : WF_vars(Handler(k))
  /\ \A t \in Tabs : WF_vars(Holding(t)) /\ WF_vars(Commit(t))

-----------------------------------------------------------------------------
Entries == [v : Verdicts, t : Times]

\* Tabs, scripts, handlers and the storage hold what the code puts there.
TypeOK ==
  /\ now \in Times /\ visits \in 0..MaxVisits /\ faults \in 0..MaxFaults
  /\ \A t \in Tabs :
       /\ tab[t].show \in Interstitials \cup {"blank", "page"}
       /\ tab[t].url \in Urls \cup {None}
       /\ pending[t] \in Urls \cup {None}
       /\ page[t] # None => /\ page[t] \in Scripts /\ tab[t].show = "holding"
                            /\ page[t].pc = "idle" => page[t].choice
  /\ \A k \in Tasks : ~Free(k) => task[k].tab \in Tabs /\ task[k].url \in Urls
  /\ \A u \in Urls :
       /\ token[u] \in Times \cup {None}
       /\ session[u] \in Entries \cup {None}
       /\ local[u] \in Entries \cup {None}
       /\ retries[u] # None => retries[u].count \in Nat \ {0} /\ retries[u].since \in Times
       /\ removals[u] \in Nat
  /\ temp \subseteq Urls

\* A navigation that passes on a token follows an applied ALLOW of the same URL by no
\* more than TokenTTL, one that passes on the cache a verdict no newer one replaced and
\* no older than AllowTTL.
PassIsEarned ==
  [][\A k \in Tasks :
       LET u == task[k].url IN
       /\ Consume(k) /\ task'[k] = None =>
            stamped[Normal[u]] # None /\ now - stamped[Normal[u]] <= TokenTTL
       /\ (ReadSession(k) \/ ReadLocal(k)) /\ task'[k] = None =>
            \E w \in Urls : /\ Normal[w] = u /\ last[w] # None
                            /\ last[w].v = "ALLOW" /\ now - last[w].t <= AllowTTL]_vars

\* background.js:639: the retry guard lets a navigation through only after Limit intercepts
\* of its URL since the window began that it counts in, though handlers count at once.
LimitOnlyAfterHolds ==
  [][\A k \in Tasks :
       Count(k) /\ task'[k] = None =>
         held[Normal[task[k].url]][task[k].got.since] >= Limit]_vars

\* The last verdict kept for u is a BLOCK that has not expired, and no removal that a reader
\* of an older entry asked for came after it.
KnownBad(u) ==
  last[u] # None /\ last[u].v = "BLOCK" /\ now - last[u].t <= BlockTTL

\* The handler in k, if it reads the cache for a URL known to be bad, blocks it or looks on.
StaysBlocked(k) ==
  (ReadSession(k) \/ ReadLocal(k)) /\ KnownBad(task[k].url) =>
    task'[k] # None /\ task'[k].pc \in {"local", "block"}

\* background.js:256: whenever a navigation reads the cache, a URL known to be bad is
\* blocked, for BlockTTL and over a restart of the browser, unless such a removal took the
\* verdict off the disk.
KnownBadStaysBlocked == [][\A k \in Tasks : StaysBlocked(k)]_vars

\* Passes are earned, in states the worker and the pages can be in.
PassesAreEarned == []TypeOK /\ PassIsEarned

\* holding.js:3: the page never hangs: it is left, or the user is given the choice.
NeverHangs ==
  \A t \in Tabs : page[t] # None ~> page[t] = None \/ page[t].choice

-----------------------------------------------------------------------------
(* What comments say; the code does otherwise *)

\* background.js:308-309: a token lets one navigation through: each that passes takes
\* one away.
TokenIsOneShot ==
  [][\A k \in Tasks :
       Consume(k) /\ task'[k] = None => token[Normal[task[k].url]] # None]_vars

\* background.js:284: getCached cleans up the stale copy: what is removed from the disk has
\* expired.
OnlyStaleRemoved ==
  [][\A u \in Urls :
       Remove(u) /\ local'[u] # local[u] => now - local[u].t > BlockTTL]_vars

\* background.js:639: at most Limit intercepts of a URL in the window.
InterceptsBounded ==
  \A u \in Urls : retries[u] # None => held[u][retries[u].since] <= Limit

\* background.js:10-12: sensitive pages are re-verified on every visit: none passes
\* without a token or the user's trust.
SensitiveRevalidated ==
  [][\A k \in Tasks : Count(k) /\ task'[k] = None => task[k].url \notin Sensitive]_vars

\* isolate.js:111, warn.js:172: the user proceeds, and the page opens.
ProceedOpens == [][\A k \in Tasks : SwapHolding(k) => task[k].by # "proceed"]_vars

\* background.js:897-898: "Try again" is not intercepted.
RetryNotIntercepted == [][\A k \in Tasks : SwapHolding(k) => task[k].by # "retry"]_vars

\* background.js:346-347: on every navigation the day's trust is checked first: a page
\* opened in a new tab is not held when its host is trusted.
TrustedNotHeld == [][\A k \in Tasks : SwapPopup(k) => task[k].url \notin temp]_vars

\* background.js:989-990: a page opened by one already BLOCKED is blocked on lineage
\* alone: the navigation's own handler does not put it on hold after all.
LineageBlocks ==
  [][\A k \in Tasks :
       SwapHolding(k) /\ task[k].by = "popup" => tab[task[k].tab].show # "blocked"]_vars

\* background.js:857: the user never sees the raw page while its verdict is pending.
RawPageNeverSeen ==
  \A k \in Tasks :
    ~Free(k) /\ task[k].kind = "nav" =>
      tab[task[k].tab] # [show |-> "page", url |-> task[k].url]
==========================================================================
