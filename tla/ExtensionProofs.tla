--------------------------- MODULE ExtensionProofs ---------------------------
(***************************************************************************)
(* Theorems about the browser extension's handling of navigations, for any *)
(* tabs, URLs, handlers and times: passes are earned, the retry guard      *)
(* opens after its intercepts only, and a page known to be bad stays so.   *)
(***************************************************************************)
EXTENDS ExtensionNav, TLAPS

Bys == NavBys \cup {None}
TaskPCs == {"token", "consume", "temp", "session", "local", "block", "limit", "count", "swap",
            "opener", "lineage", "drop", "fetch", "store", "mirror", "reply", "check", "stamp", "update"}
Kinds == {"nav", "popup", "error", "resolve", "apply"}

\* The scripts of holding pages: two attempts, then the choice.
FitScripts ==
  {p \in Scripts :
     /\ p.pc = "ask" => p.tries < 2
     /\ p.pc = "idle" => p.choice
     /\ p.pc = "route" => p.verdict \in Verdicts}

TabsFit ==
  /\ tab \in [Tabs -> [show : Interstitials \cup {"blank", "page"}, url : Urls \cup {None}]]
  /\ pending \in [Tabs -> Urls \cup {None}]
  /\ page = [t \in Tabs |-> page[t]]
  /\ \A t \in Tabs : /\ tab[t].show # "blank" => tab[t].url \in Urls
                     /\ page[t] # None => page[t] \in FitScripts /\ tab[t].show = "holding"

\* A handler's record, whatever it got.
IsTask(x) ==
  x \in [kind : Kinds, tab : Tabs, url : Urls, pc : TaskPCs, got : {x.got}, live : BOOLEAN,
         by : Bys]

\* A token that a handler read was there, though it may be another by now.
TokenWasThere(x) ==
  x.kind = "nav" /\ x.pc = "consume" =>
    x.got \in Nat /\ stamped[Normal[x.url]] \in Nat /\ x.got <= stamped[Normal[x.url]]

\* Between the token and the count a handler has nothing.
EmptyHanded(x) ==
  x.kind = "nav" => /\ x.pc \in {"token", "consume", "temp", "session", "local", "block", "limit", "count", "swap"}
                    /\ x.by \in NavBys
                    /\ x.pc \in {"token", "temp", "session", "local", "block", "limit"} => x.got = None

\* What is counted of a URL was intercepted, as far as the limit.
Counted(u, r) ==
  /\ r \in [count : Nat, since : 0..now]
  /\ r.count <= held[u][r.since] \/ Limit <= held[u][r.since]
CountIsTrue(x) == x.kind = "nav" /\ x.pc = "count" => Counted(Normal[x.url], x.got)

\* An answer on its way to the cache: of a page that is not sensitive, and on its way to the
\* disk a BLOCK that the session has, or has one that is newer.
AnswerIsHeld(x) ==
  x.kind = "resolve" /\ x.pc \in {"store", "mirror", "reply"} =>
    /\ x.got \in [v : Verdicts \cup {"ANALYZING"}, t : 0..now]
    /\ x.pc = "store" => x.got.v \in Verdicts /\ x.url \notin Sensitive
    /\ x.pc = "mirror" => /\ x.got.v = "BLOCK" /\ x.url \notin Sensitive
                          /\ session[Normal[x.url]] # None =>
                               x.got.t <= session[Normal[x.url]].t

OthersFit(x) ==
  /\ x.kind = "apply" => x.got \in Verdicts
  /\ x.kind = "popup" /\ x.pc \in {"opener", "lineage"} => x.got \in Urls

Fits(x) ==
  /\ IsTask(x) /\ TokenWasThere(x) /\ EmptyHanded(x) /\ CountIsTrue(x)
  /\ AnswerIsHeld(x) /\ OthersFit(x)

\* Who waits for an answer is there.
TasksFit ==
  /\ task = [k \in Tasks |-> task[k]]
  /\ \A k \in Tasks : task[k] # None =>
       /\ Fits(task[k])
       /\ task[k].kind = "resolve" /\ task[k].live => page[task[k].tab] \in FitScripts

TokensFit ==
  /\ token \in [Urls -> Nat \cup {None}] /\ stamped \in [Urls -> Nat \cup {None}]
  /\ \A u \in Urls : /\ token[u] # None => token[u] = stamped[u]
                     /\ stamped[u] # None => stamped[u] <= now

\* The session's verdict is the last one kept, unless it is a BLOCK, which a failed write
\* may have kept from the disk; the disk has BLOCKs only.
CacheFits ==
  /\ session \in [Urls -> [v : Verdicts, t : 0..now] \cup {None}]
  /\ local \in [Urls -> [v : {"BLOCK"}, t : 0..now] \cup {None}]
  /\ last \in [Urls -> [v : Verdicts, t : 0..now] \cup {None}]
  /\ \A u \in Urls :
       session[u] # None /\ session[u].v # "BLOCK" =>
         \E w \in Urls : Normal[w] = u /\ last[w] = session[u]

CountsFit ==
  /\ held \in [Urls -> [Times -> Nat]]
  /\ retries = [u \in Urls |-> retries[u]]
  /\ \A u \in Urls : retries[u] # None => Counted(u, retries[u]) /\ retries[u].count # 0

IInv ==
  /\ now \in Times /\ visits \in 0..MaxVisits /\ faults \in 0..MaxFaults /\ temp \subseteq Urls
  /\ TabsFit /\ TasksFit /\ TokensFit /\ CacheFits /\ CountsFit

-----------------------------------------------------------------------------
(* The initial states *)

LEMMA InitInv == Init => IInv
<1> SUFFICES ASSUME Init PROVE IInv
  OBVIOUS
<1> USE TimesAssumption, UrlsAssumption, NoneAssumption DEF Init
<1>1. TabsFit
  BY DEF TabsFit, Blank
<1>2. TasksFit
  BY DEF TasksFit
<1>3. TokensFit /\ CacheFits
  BY DEF TokensFit, CacheFits
<1>4. CountsFit
  BY DEF CountsFit, Times
<1> QED
  BY <1>1, <1>2, <1>3, <1>4 DEF IInv, Times

\* Removals that were asked for are counted.
RemovalsFit == removals \in [Urls -> Nat]

LEMMA Typed == IInv /\ RemovalsFit => TypeOK
<1> SUFFICES ASSUME IInv, RemovalsFit PROVE TypeOK
  OBVIOUS
<1> USE TimesAssumption, NoneAssumption
<1>1. \A t \in Tabs :
       /\ tab[t].show \in Interstitials \cup {"blank", "page"}
       /\ tab[t].url \in Urls \cup {None}
       /\ pending[t] \in Urls \cup {None}
       /\ page[t] # None => /\ page[t] \in Scripts /\ tab[t].show = "holding"
                            /\ page[t].pc = "idle" => page[t].choice
  BY DEF IInv, TabsFit, FitScripts, Scripts
<1>2. \A k \in Tasks : ~Free(k) => task[k].tab \in Tabs /\ task[k].url \in Urls
  BY DEF IInv, TasksFit, Fits, IsTask, Free
<1>3. \A u \in Urls : token[u] \in Times \cup {None}
  BY DEF IInv, TokensFit, Times
<1>4. \A u \in Urls : session[u] \in Entries \cup {None} /\ local[u] \in Entries \cup {None}
  <2>1. now \in 0..MaxNow /\ MaxNow \in Nat /\ \A n \in 0..now : n \in 0..MaxNow
    BY DEF IInv, Times
  <2>2. [v : Verdicts, t : 0..now] \subseteq Entries /\ [v : {"BLOCK"}, t : 0..now] \subseteq Entries
    BY <2>1 DEF Entries, Times, Verdicts
  <2> QED
    BY <2>2 DEF IInv, CacheFits
<1>5. \A u \in Urls : retries[u] # None => retries[u].count \in Nat \ {0} /\ retries[u].since \in Times
  BY DEF IInv, CountsFit, Counted, Times
<1> QED
  BY <1>1, <1>2, <1>3, <1>4, <1>5 DEF IInv, TypeOK, RemovalsFit

-----------------------------------------------------------------------------
(* What steps do to the handlers *)

\* Stamps, intercepts and verdicts only grow, or are lost.
Growing ==
  /\ now <= now' /\ now' \in Times
  /\ \A u \in Urls :
       /\ stamped[u] \in Nat => stamped'[u] \in Nat /\ stamped[u] <= stamped'[u]
       /\ \A s \in Times : held'[u][s] \in Nat /\ held[u][s] <= held'[u][s]
       /\ session'[u] # None => session'[u] = session[u] \/ session'[u].t = now'

LEMMA Quiet == IInv /\ UNCHANGED <<now, stamped, held, session>> => Growing
BY TimesAssumption DEF IInv, Growing, CountsFit, Times

\* What a handler has is not spoiled by others.
LEMMA FitsGrows ==
  ASSUME IInv, Growing, NEW k \in Tasks, task'[k] # None, Fits(task'[k])
  PROVE  Fits(task[k])'
<1> USE TimesAssumption, UrlsAssumption
<1> DEFINE x == task'[k]
<1>1. now \in Nat /\ now' \in Nat /\ now <= now' /\ now' \in 0..MaxNow
  BY DEF IInv, Growing, Times
<1>2. IsTask(x) /\ Normal[x.url] \in Urls
  BY DEF Fits, IsTask
<1>3. TokenWasThere(task[k])'
  BY <1>2 DEF Fits, TokenWasThere, Growing
<1>4. CountIsTrue(task[k])'
  <2> SUFFICES ASSUME x.kind = "nav", x.pc = "count" PROVE Counted(Normal[task[k].url], task[k].got)'
    BY DEF CountIsTrue
  <2> DEFINE u == Normal[x.url]
             r == x.got
  <2>1. r \in [count : Nat, since : 0..now] /\ (r.count <= held[u][r.since] \/ Limit <= held[u][r.since])
    BY DEF Fits, CountIsTrue, Counted
  <2>2. r.since \in Times /\ r.since \in 0..now' /\ r.count \in Nat
    BY <1>1, <2>1 DEF Times
  <2>3. held[u][r.since] <= held'[u][r.since] /\ held[u][r.since] \in Nat /\ held'[u][r.since] \in Nat
    BY <1>2, <2>2 DEF Growing, IInv, CountsFit
  <2>4. r.count <= held'[u][r.since] \/ Limit <= held'[u][r.since]
    BY <2>1, <2>2, <2>3
  <2>5. r \in [count : Nat, since : 0..now']
    BY <2>1, <2>2
  <2> QED
    BY <2>4, <2>5 DEF Counted
<1>5. AnswerIsHeld(task[k])'
  <2> SUFFICES ASSUME x.kind = "resolve", x.pc \in {"store", "mirror", "reply"}
               PROVE  /\ x.got \in [v : Verdicts \cup {"ANALYZING"}, t : 0..now']
                      /\ x.pc = "store" => x.got.v \in Verdicts /\ x.url \notin Sensitive
                      /\ x.pc = "mirror" => /\ x.got.v = "BLOCK" /\ x.url \notin Sensitive
                                            /\ session'[Normal[x.url]] # None =>
                                                 x.got.t <= session'[Normal[x.url]].t
    BY DEF AnswerIsHeld
  <2>1. /\ x.got \in [v : Verdicts \cup {"ANALYZING"}, t : 0..now]
        /\ x.pc = "store" => x.got.v \in Verdicts /\ x.url \notin Sensitive
        /\ x.pc = "mirror" => /\ x.got.v = "BLOCK" /\ x.url \notin Sensitive
                              /\ session[Normal[x.url]] # None => x.got.t <= session[Normal[x.url]].t
    BY DEF Fits, AnswerIsHeld
  <2>2. x.got.t \in 0..now' /\ x.got.t <= now'
    BY <1>1, <2>1
  <2> QED
    BY <1>2, <2>1, <2>2 DEF Growing
<1> QED
  BY <1>2, <1>3, <1>4, <1>5 DEF Fits, IsTask, EmptyHanded, OthersFit

\* A step of one handler, or a new one.
LEMMA OneTask ==
  ASSUME IInv, Growing, NEW k \in Tasks, task' = [task EXCEPT ![k] = task'[k]],
         task'[k] = None \/ Fits(task'[k]) \/ Fits(task[k])',
         task'[k] # None /\ task'[k].kind = "resolve" /\ task'[k].live =>
           page'[task'[k].tab] \in FitScripts,
         \A t \in Tabs : page[t] \in FitScripts => page'[t] \in FitScripts
  PROVE  TasksFit'
<1>1. task' = [j \in Tasks |-> task'[j]] /\ \A j \in Tasks : j # k => task'[j] = task[j]
  BY DEF IInv, TasksFit
<1>2. ASSUME NEW j \in Tasks, task'[j] # None PROVE Fits(task[j])'
  <2>1. CASE j = k
    BY <1>2, <2>1, FitsGrows
  <2>2. CASE j # k
    <3>1. Fits(task'[j])
      BY <1>1, <1>2, <2>2 DEF IInv, TasksFit
    <3> QED
      BY <1>2, <3>1, FitsGrows
  <2> QED
    BY <2>1, <2>2
<1>3. ASSUME NEW j \in Tasks, task'[j] # None, task'[j].kind = "resolve", task'[j].live
      PROVE  page'[task'[j].tab] \in FitScripts
  <2>1. CASE j # k
    <3>1. task'[j] = task[j] /\ IsTask(task[j]) /\ page[task[j].tab] \in FitScripts
      BY <1>1, <1>3, <2>1 DEF IInv, TasksFit, Fits
    <3> QED
      BY <3>1 DEF IsTask
  <2> QED
    BY <1>3, <2>1
<1> QED
  BY <1>1, <1>2, <1>3 DEF TasksFit

\* Whoever leaves a tab's page leaves its messages without an answer.
LEMMA OrphansFit ==
  ASSUME IInv, Growing, NEW t \in Tabs, NEW tasks, task' = Orphaned(tasks, t),
         \A j \in Tasks : tasks[j] # None =>
           Fits(tasks[j]) /\ (tasks[j] = task[j] \/ tasks[j].kind # "resolve"),
         \A s \in Tabs : s # t /\ page[s] \in FitScripts => page'[s] \in FitScripts
  PROVE  TasksFit'
<1> DEFINE left(j) == tasks[j].tab = t /\ tasks[j].kind \in {"resolve", "apply"}
<1>1. /\ task' = [j \in Tasks |-> task'[j]]
      /\ \A j \in Tasks : task'[j] # None =>
           /\ tasks[j] # None
           /\ left(j) => task'[j] = [tasks[j] EXCEPT !.live = FALSE]
           /\ ~left(j) => task'[j] = tasks[j]
  BY DEF Orphaned
<1>2. ASSUME NEW j \in Tasks, task'[j] # None PROVE Fits(task[j])'
  <2>1. Fits(tasks[j])
    BY <1>1, <1>2
  <2>2. CASE left(j)
    <3>1. task'[j] = [tasks[j] EXCEPT !.live = FALSE]
      BY <1>1, <1>2, <2>2
    <3> DEFINE x == tasks[j]
               y == [x EXCEPT !.live = FALSE]
    <3>2. /\ y.kind = x.kind /\ y.tab = x.tab /\ y.url = x.url /\ y.pc = x.pc /\ y.got = x.got
          /\ y.by = x.by /\ IsTask(y)
      BY <2>1 DEF Fits, IsTask
    <3>3. Fits(y)
      <4> HIDE DEF x, y
      <4>1. Fits(x)
        BY <2>1 DEF x
      <4> QED
        BY <3>2, <4>1 DEF Fits, TokenWasThere, EmptyHanded, CountIsTrue, AnswerIsHeld, OthersFit
    <3> QED
      BY <1>2, <3>1, <3>3, FitsGrows
  <2>3. CASE ~left(j)
    BY <1>1, <1>2, <2>1, <2>3, FitsGrows
  <2> QED
    BY <2>2, <2>3
<1>3. ASSUME NEW j \in Tasks, task'[j] # None, task'[j].kind = "resolve", task'[j].live
      PROVE  page'[task'[j].tab] \in FitScripts
  <2>1. Fits(tasks[j]) /\ tasks[j] # None
    BY <1>1, <1>3
  <2>2. ~left(j)
    BY <1>1, <1>3, <2>1 DEF Fits, IsTask
  <2>3. task'[j] = task[j] /\ IsTask(task[j]) /\ task[j].tab # t
    BY <1>1, <1>3, <2>1, <2>2 DEF Fits
  <2>4. page[task[j].tab] \in FitScripts
    BY <1>3, <2>3 DEF IInv, TasksFit
  <2> QED
    BY <2>3, <2>4 DEF IsTask
<1> QED
  BY <1>1, <1>2, <1>3 DEF TasksFit

-----------------------------------------------------------------------------
(* onBeforeNavigate, and the opener's handler *)

\* What stays as it is fits as before.
LEMMA SameTabs == IInv /\ UNCHANGED <<tab, pending, page>> => TabsFit' /\ \A t \in Tabs : page[t] \in FitScripts => page'[t] \in FitScripts
BY DEF IInv, TabsFit
LEMMA SameTokens == IInv /\ UNCHANGED <<now, token, stamped>> => TokensFit'
BY DEF IInv, TokensFit
LEMMA SameCache == IInv /\ UNCHANGED <<now, session, local, last>> => CacheFits'
BY DEF IInv, CacheFits
LEMMA SameCounts == IInv /\ UNCHANGED <<now, held, retries>> => CountsFit'
BY DEF IInv, CountsFit, Counted

LEMMA AtTask ==
  ASSUME IInv, NEW k \in Tasks, task[k] # None
  PROVE  /\ Fits(task[k]) /\ IsTask(task[k])
         /\ task[k].url \in Urls /\ Normal[task[k].url] \in Urls /\ task[k].tab \in Tabs
         /\ DOMAIN task = Tasks
BY UrlsAssumption DEF IInv, TasksFit, Fits, IsTask

\* A handler goes on to its next step, with what it got.
Moves(k, p, g) ==
  \/ task' = [task EXCEPT ![k].pc = p] /\ g = task[k].got
  \/ task' = [task EXCEPT ![k].pc = p, ![k].got = g]
  \/ task' = [task EXCEPT ![k].got = g, ![k].pc = p]

LEMMA Moved ==
  ASSUME IInv, NEW k \in Tasks, task[k] # None, NEW p \in TaskPCs, NEW g, Moves(k, p, g)
  PROVE  /\ task' = [task EXCEPT ![k] = task'[k]]
         /\ IsTask(task'[k]) /\ task'[k].pc = p /\ task'[k].got = g
         /\ task'[k].kind = task[k].kind /\ task'[k].url = task[k].url /\ task'[k].tab = task[k].tab
         /\ task'[k].by = task[k].by /\ task'[k].live = task[k].live
<1> USE DEF Moves
<1>1. IsTask(task[k]) /\ DOMAIN task = Tasks
  BY AtTask
<1>2. task' = [task EXCEPT ![k] = task'[k]] /\ task'[k] = [task[k] EXCEPT !.pc = p, !.got = g]
  BY <1>1 DEF IsTask
<1> QED
  BY <1>1, <1>2 DEF IsTask

\* The handler of a navigation goes on without a token or a count.
LEMMA NavMoved ==
  ASSUME IInv, NEW k \in Tasks, task[k] # None, task[k].kind = "nav", NEW p \in NavSteps, NEW g,
         Moves(k, p, g), g = None \/ p = "swap", UNCHANGED <<now, stamped, held, session, tab, pending, page>>
  PROVE  TasksFit' /\ task'[k].pc = p /\ (g = None => task'[k] # None)
<1>1. /\ task' = [task EXCEPT ![k] = task'[k]]
      /\ IsTask(task'[k]) /\ task'[k].pc = p /\ task'[k].got = g
      /\ task'[k].kind = "nav" /\ task'[k].url = task[k].url /\ task'[k].by = task[k].by
  BY Moved DEF NavSteps, TaskPCs
<1>2. task[k].by \in NavBys
  BY AtTask DEF Fits, EmptyHanded, IsTask
<1>3. g = None => task'[k] \in Navs
  BY <1>1, <1>2 DEF IsTask, Navs, NavSteps, NavBys
<1>4. Fits(task'[k])
  BY <1>1, <1>2 DEF Fits, TokenWasThere, EmptyHanded, CountIsTrue, AnswerIsHeld, OthersFit, NavSteps
<1>5. TasksFit'
  BY <1>1, <1>4, OneTask, Quiet, SameTabs
<1> QED
  BY <1>1, <1>3, <1>5, NoneAssumption

\* A handler ends.
LEMMA EndedTask ==
  ASSUME IInv, NEW k \in Tasks, End(k), Growing, \A t \in Tabs : page[t] \in FitScripts => page'[t] \in FitScripts
  PROVE  TasksFit' /\ task'[k] = None
<1>1. task' = [task EXCEPT ![k] = task'[k]] /\ task'[k] = None
  BY DEF End, IInv, TasksFit
<1> QED
  BY <1>1, OneTask

LEMMA ReadTokenInv == ASSUME IInv, NEW k \in Tasks, ReadToken(k) PROVE IInv'
<1> DEFINE n == Normal[task[k].url]
<1>1. /\ At(k, "nav", "token") /\ UNCHANGED <<now, tab, pending, page, storage, visits, faults, ghosts>>
      /\ task' = [task EXCEPT ![k].got = token[n], ![k].pc = IF token[n] = None THEN "temp" ELSE "consume"]
  BY DEF ReadToken
<1>2. Fits(task[k]) /\ IsTask(task[k]) /\ n \in Urls /\ DOMAIN task = Tasks /\ task[k].kind = "nav"
  BY <1>1, AtTask DEF At
<1>3. task' = [task EXCEPT ![k] = task'[k]]
      /\ task'[k] = [task[k] EXCEPT !.got = token[n], !.pc = IF token[n] = None THEN "temp" ELSE "consume"]
  BY <1>1, <1>2
<1>4. /\ token[n] # None => token[n] \in Nat /\ stamped[n] \in Nat /\ token[n] <= stamped[n]
  BY <1>2 DEF IInv, TokensFit
<1>5. Fits(task'[k]) /\ task'[k].kind = "nav"
  <2> DEFINE x == task'[k]
  <2>1. /\ IsTask(x) /\ x.kind = "nav" /\ x.url = task[k].url /\ x.got = token[n] /\ x.by = task[k].by
        /\ x.pc = IF token[n] = None THEN "temp" ELSE "consume"
    BY <1>2, <1>3 DEF IsTask, TaskPCs
  <2> HIDE DEF x
  <2> QED
    BY <1>2, <1>4, <2>1 DEF Fits, TokenWasThere, EmptyHanded, CountIsTrue, AnswerIsHeld, OthersFit, x
<1>6. Growing
  BY <1>1, Quiet DEF storage, ghosts
<1>7. TasksFit'
  BY <1>1, <1>3, <1>5, <1>6, OneTask, SameTabs
<1> QED
  BY <1>1, <1>7, SameTabs, SameTokens, SameCache, SameCounts DEF IInv, storage, ghosts

\* The token is taken away; within its time the navigation passes.
LEMMA ConsumeInv ==
  ASSUME IInv, NEW k \in Tasks, Consume(k)
  PROVE  IInv' /\ (task'[k] = None =>
           stamped[Normal[task[k].url]] # None /\ now - stamped[Normal[task[k].url]] <= TokenTTL)
<1> DEFINE n == Normal[task[k].url]
<1>1. /\ At(k, "nav", "consume") /\ token' = [token EXCEPT ![n] = None]
      /\ UNCHANGED <<now, tab, pending, page, session, local, temp, retries, visits, faults, stamped, held, last>>
      /\ \/ now - task[k].got <= TokenTTL /\ End(k)
         \/ Moves(k, "temp", None)
  BY DEF Consume, Moves
<1>2. /\ Fits(task[k]) /\ n \in Urls /\ task[k].kind = "nav" /\ task[k].pc = "consume"
  BY <1>1, AtTask DEF At
<1>3. task[k].got \in Nat /\ stamped[n] \in Nat /\ task[k].got <= stamped[n] /\ now \in Nat
  BY <1>2, TimesAssumption DEF Fits, TokenWasThere, IInv, Times
<1>4. Growing
  BY <1>1, Quiet
<1>5. CASE now - task[k].got <= TokenTTL /\ End(k)
  <2>1. TasksFit'
    BY <1>1, <1>4, <1>5, EndedTask, SameTabs
  <2>2. now - stamped[n] <= TokenTTL /\ stamped[n] # None
    BY <1>3, <1>5, NoneAssumption, TimesAssumption
  <2> QED
    BY <1>1, <2>1, <2>2, SameTabs, SameCache, SameCounts DEF IInv, TokensFit
<1>6. CASE Moves(k, "temp", None)
  <2>1. TasksFit' /\ task'[k] # None
    BY <1>1, <1>2, <1>6, NavMoved DEF At, NavSteps
  <2> QED
    BY <1>1, <2>1, SameTabs, SameCache, SameCounts DEF IInv, TokensFit
<1> QED
  BY <1>1, <1>5, <1>6

LEMMA ReadTempInv == ASSUME IInv, NEW k \in Tasks, ReadTemp(k) PROVE IInv'
<1>1. /\ At(k, "nav", "temp") /\ UNCHANGED <<now, tab, pending, page, storage, visits, faults, ghosts>>
      /\ End(k) \/ Moves(k, "limit", task[k].got) \/ Moves(k, "session", task[k].got)
  BY DEF ReadTemp, Moves, Goto
<1>2. task[k].got = None
  BY <1>1, AtTask DEF At, Fits, EmptyHanded
<1>3. Growing
  BY <1>1, Quiet DEF storage, ghosts
<1>4. CASE End(k)
  BY <1>1, <1>3, <1>4, EndedTask, SameTabs, SameTokens, SameCache, SameCounts DEF IInv, storage, ghosts
<1>5. CASE Moves(k, "limit", task[k].got) \/ Moves(k, "session", task[k].got)
  <2>1. TasksFit'
    BY <1>1, <1>2, <1>5, NavMoved DEF At, NavSteps, storage, ghosts
  <2> QED
    BY <1>1, <2>1, SameTabs, SameTokens, SameCache, SameCounts DEF IInv, storage, ghosts
<1> QED
  BY <1>1, <1>4, <1>5

\* What the cache says, and does not say, of a navigation.
Allowed(u) ==
  \E w \in Urls : /\ Normal[w] = u /\ last[w] # None
                 /\ last[w].v = "ALLOW" /\ now - last[w].t <= AllowTTL

LEMMA AnsweredInv ==
  ASSUME IInv, NEW k \in Tasks, At(k, "nav", "session") \/ At(k, "nav", "local"),
         NEW e \in [v : Verdicts, t : 0..now], Answered(k, e),
         UNCHANGED <<now, tab, pending, page, token, session, local, temp, retries, visits, faults, ghosts>>
  PROVE  /\ IInv'
         /\ task'[k] = None => e.v = "ALLOW" /\ now - e.t <= AllowTTL
         /\ e.v = "BLOCK" /\ now - e.t <= BlockTTL => task'[k] # None /\ task'[k].pc = "block"
<1>1. /\ task[k].got = None /\ task[k].kind = "nav" /\ task[k] # None /\ task[k].url \in Urls
  BY AtTask DEF At, Fits, EmptyHanded
<1>2. Growing
  BY Quiet DEF ghosts
<1>4. CacheFits'
  BY SameCache DEF ghosts
<1>5. \/ e.v = "ALLOW" /\ now - e.t <= AllowTTL /\ End(k)
      \/ e.v = "BLOCK" /\ now - e.t <= BlockTTL /\ Moves(k, "block", None)
      \/ (e.v = "BLOCK" => ~(now - e.t <= BlockTTL)) /\ Moves(k, "limit", None)
  <2>1. now \in Nat /\ e.t \in Nat /\ \A n \in Nat : now - e.t > n <=> ~(now - e.t <= n)
    BY TimesAssumption DEF IInv, Times
  <2>2. BlockTTL \in Nat /\ WarnTTL \in Nat /\ AllowTTL \in Nat
    BY TimesAssumption
  <2>3. CASE now - e.t > TTLOf(e.v)
    <3>1. Moves(k, "limit", None)
      BY <1>1, <2>3 DEF Answered, Expired, Moves, Goto
    <3>2. e.v = "BLOCK" => now - e.t > BlockTTL
      BY <2>3 DEF TTLOf
    <3> QED
      BY <2>1, <2>2, <3>1, <3>2
  <2>4. CASE ~(now - e.t > TTLOf(e.v)) /\ e.v = "ALLOW"
    <3>1. now - e.t <= AllowTTL
      BY <2>1, <2>2, <2>4 DEF TTLOf
    <3> QED
      BY <2>4, <3>1 DEF Answered, Expired
  <2>5. CASE ~(now - e.t > TTLOf(e.v)) /\ e.v = "BLOCK"
    <3>1. now - e.t <= BlockTTL
      BY <2>1, <2>2, <2>5 DEF TTLOf
    <3> QED
      BY <1>1, <2>5, <3>1 DEF Answered, Expired, Moves, Goto
  <2>6. CASE ~(now - e.t > TTLOf(e.v)) /\ e.v \notin {"ALLOW", "BLOCK"}
    BY <1>1, <2>6 DEF Answered, Expired, Moves, Goto
  <2> QED
    BY <2>3, <2>4, <2>5, <2>6
<1>6. CASE End(k) /\ e.v = "ALLOW" /\ now - e.t <= AllowTTL
  <2>1. TasksFit'
    BY <1>2, <1>6, EndedTask, SameTabs
  <2> QED
    BY <1>4, <1>6, <2>1, SameTabs, SameTokens, SameCounts DEF IInv, ghosts
<1>7. ASSUME NEW p \in {"block", "limit"}, Moves(k, p, None)
      PROVE  IInv' /\ task'[k] # None /\ task'[k].pc = p
  <2>1. TasksFit' /\ task'[k] # None /\ task'[k].pc = p
    BY <1>1, <1>7, NavMoved DEF NavSteps, ghosts
  <2> QED
    BY <1>4, <2>1, SameTabs, SameTokens, SameCounts DEF IInv, ghosts
<1>8. CASE e.v = "BLOCK" /\ Moves(k, "block", None)
  BY <1>7, <1>8
<1>9. CASE (e.v = "BLOCK" => ~(now - e.t <= BlockTTL)) /\ Moves(k, "limit", None)
  BY <1>7, <1>9
<1> QED
  BY <1>5, <1>6, <1>8, <1>9

LEMMA ReadCacheInv ==
  ASSUME IInv, NEW k \in Tasks, ReadSession(k) \/ ReadLocal(k)
  PROVE  IInv' /\ (task'[k] = None => Allowed(task[k].url))
<1> DEFINE u == task[k].url
<1>1. /\ At(k, "nav", "session") \/ At(k, "nav", "local")
      /\ UNCHANGED <<now, tab, pending, page, token, session, local, temp, retries, visits, faults, ghosts>>
  BY DEF ReadSession, ReadLocal
<1>2. u \in Urls /\ task[k] # None /\ task[k].kind = "nav" /\ task[k].got = None
  BY <1>1, AtTask DEF At, Fits, EmptyHanded
<1>3. \/ \E p \in {"local", "limit"} : Moves(k, p, None)
      \/ \E e \in [v : Verdicts, t : 0..now] :
           /\ Answered(k, e)
           /\ \/ e = session[u] /\ session[u] # None
              \/ e = local[u] /\ local[u] # None /\ e.v = "BLOCK"
  <2>1. CASE ReadSession(k) /\ session[u] = None
    BY <1>2, <2>1 DEF ReadSession, Goto, Moves
  <2>4. CASE ReadSession(k) /\ session[u] # None
    <3>1. session[u] \in [v : Verdicts, t : 0..now]
      BY <1>2, <2>4 DEF IInv, CacheFits
    <3> QED
      BY <2>4, <3>1 DEF ReadSession
  <2>2. CASE ReadLocal(k) /\ local[u] = None
    BY <1>2, <2>2 DEF ReadLocal, Goto, Moves
  <2>3. CASE ReadLocal(k) /\ local[u] # None
    <3>1. local[u] \in [v : {"BLOCK"}, t : 0..now]
      BY <1>2, <2>3 DEF IInv, CacheFits
    <3>2. local[u] \in [v : Verdicts, t : 0..now] /\ local[u].v = "BLOCK"
      BY <3>1 DEF Verdicts
    <3> QED
      BY <2>3, <3>2 DEF ReadLocal
  <2> QED
    BY <2>1, <2>2, <2>3, <2>4
<1>4. ASSUME NEW p \in {"local", "limit"}, Moves(k, p, None)
      PROVE  IInv' /\ task'[k] # None
  <2>1. TasksFit' /\ task'[k] # None
    BY <1>1, <1>2, <1>4, NavMoved DEF NavSteps, ghosts
  <2> QED
    BY <1>1, <1>4, <2>1, SameTabs, SameTokens, SameCache, SameCounts DEF IInv, ghosts
<1>5. ASSUME NEW e \in [v : Verdicts, t : 0..now], Answered(k, e),
             \/ e = session[u] /\ session[u] # None
             \/ e = local[u] /\ local[u] # None /\ e.v = "BLOCK"
      PROVE  IInv' /\ (task'[k] = None => Allowed(u))
  <2>1. IInv' /\ (task'[k] = None => e.v = "ALLOW" /\ now - e.t <= AllowTTL)
    BY <1>1, <1>5, AnsweredInv
  <2>2. e.v = "ALLOW" => \E w \in Urls : Normal[w] = u /\ last[w] = session[u] /\ session[u] = e /\ session[u] # None
    BY <1>2, <1>5 DEF IInv, CacheFits
  <2> QED
    BY <2>1, <2>2 DEF Allowed
<1> QED
  BY <1>3, <1>4, <1>5

\* A window that is over starts anew, and nothing is counted in it yet.
LEMMA ReadRetriesInv == ASSUME IInv, NEW k \in Tasks, ReadRetries(k) PROVE IInv'
<1> DEFINE n == Normal[task[k].url]
           r == IF Lapsed(retries[n]) THEN [count |-> 0, since |-> now] ELSE retries[n]
<1>1. /\ At(k, "nav", "limit") /\ UNCHANGED <<now, tab, pending, page, storage, visits, faults, ghosts>>
      /\ Moves(k, "count", r)
  BY DEF ReadRetries, Moves
<1>2. /\ Fits(task[k]) /\ n \in Urls /\ task[k].kind = "nav" /\ task[k] # None
  BY <1>1, AtTask DEF At
<1>3. Counted(n, r)
  <2>1. CASE Lapsed(retries[n])
    <3>1. now \in Times /\ now \in Nat /\ held[n][now] \in Nat /\ 0 <= held[n][now]
      BY <1>2, TimesAssumption DEF IInv, CountsFit, Times
    <3>2. [count |-> 0, since |-> now] \in [count : Nat, since : 0..now]
      BY <3>1
    <3> QED
      BY <2>1, <3>1, <3>2 DEF Counted
  <2>2. CASE ~Lapsed(retries[n])
    BY <1>2, <2>2 DEF Lapsed, IInv, CountsFit
  <2> QED
    BY <2>1, <2>2
<1> HIDE DEF r
<1>4. /\ task' = [task EXCEPT ![k] = task'[k]]
      /\ IsTask(task'[k]) /\ task'[k].pc = "count" /\ task'[k].got = r
      /\ task'[k].kind = "nav" /\ task'[k].url = task[k].url /\ task'[k].by = task[k].by
  BY <1>1, <1>2, Moved DEF TaskPCs
<1>5. Fits(task'[k])
  BY <1>2, <1>3, <1>4 DEF Fits, TokenWasThere, EmptyHanded, CountIsTrue, AnswerIsHeld, OthersFit
<1>6. TasksFit'
  BY <1>1, <1>4, <1>5, OneTask, Quiet, SameTabs DEF storage, ghosts
<1> QED
  BY <1>1, <1>6, SameTabs, SameTokens, SameCache, SameCounts DEF IInv, storage, ghosts

\* Each intercept is counted in all that began before; over the limit none is.
LEMMA CountInv ==
  ASSUME IInv, NEW k \in Tasks, Count(k)
  PROVE  IInv' /\ (task'[k] = None => held[Normal[task[k].url]][task[k].got.since] >= Limit)
<1> DEFINE n == Normal[task[k].url]
           g == task[k].got
           r == [g EXCEPT !.count = @ + 1]
<1>1. /\ At(k, "nav", "count") /\ retries' = [retries EXCEPT ![n] = r]
      /\ UNCHANGED <<now, tab, pending, page, token, session, local, temp, visits, faults, stamped, last>>
      /\ \/ r.count > Limit /\ End(k) /\ UNCHANGED held
         \/ ~(r.count > Limit) /\ Moves(k, "swap", None) /\ held' = [held EXCEPT ![n] = OneMore(n)]
  BY DEF Count, Moves
<1>2. /\ Fits(task[k]) /\ n \in Urls /\ task[k].kind = "nav" /\ task[k].pc = "count" /\ task[k] # None
  BY <1>1, AtTask DEF At
<1>3. g \in [count : Nat, since : 0..now] /\ (g.count <= held[n][g.since] \/ Limit <= held[n][g.since])
  BY <1>2 DEF Fits, CountIsTrue, Counted
<1>4. /\ now \in Nat /\ MaxNow \in Nat /\ now <= MaxNow /\ g.since \in Times /\ g.since <= now /\ g.since \in Nat
      /\ g.count \in Nat /\ Limit \in Nat
  BY <1>3, TimesAssumption DEF IInv, Times
<1>5. held[n][g.since] \in Nat
  BY <1>2, <1>4 DEF IInv, CountsFit
<1>6. r \in [count : Nat, since : 0..now] /\ r.count = g.count + 1 /\ r.since = g.since /\ r.count # 0
  BY <1>3, <1>4
<1> HIDE DEF r
<1>7. CASE r.count > Limit /\ End(k) /\ UNCHANGED held
  <2>1. held[n][g.since] >= Limit
    BY <1>3, <1>4, <1>5, <1>6, <1>7
  <2>2. TasksFit'
    BY <1>1, <1>7, EndedTask, Quiet, SameTabs
  <2>3. Counted(n, r)
    BY <1>4, <1>5, <1>6, <2>1 DEF Counted
  <2>4. CountsFit'
    BY <1>1, <1>2, <1>6, <1>7, <2>3 DEF IInv, CountsFit, Counted
  <2> QED
    BY <1>1, <2>1, <2>2, <2>4, SameTabs, SameTokens, SameCache DEF IInv
<1>8. CASE ~(r.count > Limit) /\ Moves(k, "swap", None) /\ held' = [held EXCEPT ![n] = OneMore(n)]
  <2>1. /\ held' \in [Urls -> [Times -> Nat]]
        /\ \A u \in Urls, s \in Times : held'[u][s] \in Nat /\ held[u][s] \in Nat /\ held[u][s] <= held'[u][s]
        /\ held'[n][g.since] = held[n][g.since] + 1
    <3>1. OneMore(n) \in [Times -> Nat] /\ \A s \in Times : OneMore(n)[s] \in Nat /\ held[n][s] \in Nat /\ held[n][s] <= OneMore(n)[s]
      BY <1>2 DEF OneMore, IInv, CountsFit
    <3>2. OneMore(n)[g.since] = held[n][g.since] + 1
      BY <1>4 DEF OneMore
    <3>3. held' \in [Urls -> [Times -> Nat]] /\ held'[n] = OneMore(n) /\ \A u \in Urls : u # n => held'[u] = held[u]
      BY <1>2, <1>8, <3>1 DEF IInv, CountsFit
    <3>4. \A u \in Urls, s \in Times : held[u][s] \in Nat
      BY DEF IInv, CountsFit
    <3> QED
      BY <1>2, <3>1, <3>2, <3>3, <3>4
  <2>2. Growing
    BY <1>1, <1>4, <2>1 DEF Growing, IInv
  <2>3. CountsFit'
    <3>2. ASSUME NEW u \in Urls, u # n, retries[u] # None PROVE Counted(u, retries[u])' /\ retries'[u] = retries[u]
      <4>1. retries'[u] = retries[u]
        BY <1>1, <3>2 DEF IInv, CountsFit
      <4>2. Counted(u, retries[u])
        BY <3>2 DEF IInv, CountsFit
      <4>3. retries[u].since \in Times /\ retries[u].count \in Nat
        BY <1>4, <4>2 DEF Counted, Times
      <4>4. held[u][retries[u].since] \in Nat /\ held'[u][retries[u].since] \in Nat /\ held[u][retries[u].since] <= held'[u][retries[u].since]
        BY <2>1, <4>3
      <4> QED
        BY <1>1, <1>4, <4>1, <4>2, <4>3, <4>4 DEF Counted
    <3>3. retries' = [u \in Urls |-> retries'[u]] /\ retries'[n] = r /\ \A u \in Urls : u # n => retries'[u] = retries[u]
      BY <1>1, <1>2 DEF IInv, CountsFit
    <3>4. \A u \in Urls : retries'[u] # None => retries'[u].count # 0
      BY <1>6, <3>3 DEF IInv, CountsFit
    <3>5. ASSUME NEW u \in Urls, retries'[u] # None PROVE Counted(u, retries[u])'
      <4>1. CASE u = n
        <5>1. retries'[u] = r /\ now' = now
          BY <1>1, <3>3, <4>1
        <5>2. held'[u][r.since] = held[n][g.since] + 1
          BY <1>6, <2>1, <4>1
        <5>3. r.count <= held'[u][r.since] \/ Limit <= held'[u][r.since]
          BY <1>3, <1>4, <1>5, <1>6, <5>2
        <5> QED
          BY <1>6, <5>1, <5>3 DEF Counted
      <4>2. CASE u # n
        BY <3>2, <3>3, <3>5, <4>2
      <4> QED
        BY <4>1, <4>2
    <3> QED
      BY <2>1, <3>3, <3>4, <3>5 DEF CountsFit
  <2>4. /\ task' = [task EXCEPT ![k] = task'[k]]
        /\ IsTask(task'[k]) /\ task'[k].pc = "swap" /\ task'[k].got = None
        /\ task'[k].kind = "nav" /\ task'[k].url = task[k].url /\ task'[k].by = task[k].by
    BY <1>2, <1>8, Moved DEF TaskPCs
  <2>5. task[k].by \in NavBys
    BY <1>2, AtTask DEF Fits, EmptyHanded, IsTask
  <2>6. Fits(task'[k]) /\ task'[k] \in Navs
    BY <2>4, <2>5 DEF Fits, TokenWasThere, EmptyHanded, CountIsTrue, AnswerIsHeld, OthersFit, Navs, IsTask, NavBys, NavSteps
  <2>7. TasksFit' /\ task'[k] # None
    BY <1>1, <2>2, <2>4, <2>6, OneTask, SameTabs, NoneAssumption
  <2> QED
    BY <1>1, <2>3, <2>7, SameTabs, SameTokens, SameCache DEF IInv
<1> QED
  BY <1>1, <1>7, <1>8

\* The opener's verdict is looked up.
LEMMA ReadOpenerInv ==
  ASSUME IInv, NEW k \in Tasks, ReadOpener(k) \/ ReadOpenerLocal(k) PROVE IInv'
<1> DEFINE u == task[k].got
<1>1. /\ At(k, "popup", "opener") \/ At(k, "popup", "lineage")
      /\ UNCHANGED <<now, tab, pending, page, token, session, local, temp, retries, visits, faults, ghosts>>
      /\ Moves(k, "block", u) \/ Moves(k, "swap", u) \/ Moves(k, "lineage", u)
  BY DEF ReadOpener, ReadOpenerLocal, OpenerAnswered, Goto, Moves
<1>2. Fits(task[k]) /\ task[k].kind = "popup" /\ task[k] # None /\ u \in Urls
  BY <1>1, AtTask DEF At, Fits, OthersFit
<1>3. /\ task' = [task EXCEPT ![k] = task'[k]] /\ IsTask(task'[k]) /\ task'[k].kind = "popup"
      /\ task'[k].pc \in {"block", "swap", "lineage"} /\ task'[k].got = u
  BY <1>1, <1>2, Moved DEF TaskPCs
<1>4. Fits(task'[k])
  BY <1>2, <1>3 DEF Fits, TokenWasThere, EmptyHanded, CountIsTrue, AnswerIsHeld, OthersFit
<1>5. TasksFit'
  BY <1>1, <1>3, <1>4, OneTask, Quiet, SameTabs DEF ghosts
<1> QED
  BY <1>1, <1>5, SameTabs, SameTokens, SameCache, SameCounts DEF IInv, ghosts

\* A removal leaves what the session says of a verdict that is no BLOCK.
LEMMA RemoveInv == ASSUME IInv, NEW u \in Urls, Remove(u) PROVE IInv'
<1>1. /\ UNCHANGED <<now, tab, pending, page, task, token, session, temp, retries, visits, faults, stamped, held>>
      /\ \/ /\ local' = [local EXCEPT ![u] = None]
            /\ last' = [w \in Urls |-> IF Normal[w] = u /\ last[w] = local[u] THEN None ELSE last[w]]
         \/ UNCHANGED <<local, last>>
  BY DEF Remove
<1>2. CacheFits'
  <2>1. local' \in [Urls -> [v : {"BLOCK"}, t : 0..now] \cup {None}]
    BY <1>1 DEF IInv, CacheFits
  <2>2. last' \in [Urls -> [v : Verdicts, t : 0..now] \cup {None}]
    BY <1>1 DEF IInv, CacheFits
  <2>3. ASSUME NEW n \in Urls, session[n] # None, session[n].v # "BLOCK"
        PROVE  \E w \in Urls : Normal[w] = n /\ last'[w] = session[n]
    <3>1. PICK w \in Urls : Normal[w] = n /\ last[w] = session[n]
      BY <2>3 DEF IInv, CacheFits
    <3>2. local[u] # last[w]
      BY <2>3, <3>1 DEF IInv, CacheFits
    <3> QED
      BY <1>1, <3>1, <3>2
  <2> QED
    BY <1>1, <2>1, <2>2, <2>3 DEF IInv, CacheFits
<1>3. TasksFit'
  <2>1. Growing
    BY <1>1, Quiet
  <2>2. \A k \in Tasks : task[k] # None => Fits(task[k])'
    BY <1>1, <2>1, AtTask, FitsGrows
  <2> QED
    BY <1>1, <2>2 DEF IInv, TasksFit
<1> QED
  BY <1>1, <1>2, <1>3, SameTabs, SameTokens, SameCounts DEF IInv

-----------------------------------------------------------------------------
(* Tabs *)

LEMMA SameStorage ==
  IInv /\ UNCHANGED <<now, token, session, local, retries, ghosts>> =>
    TokensFit' /\ CacheFits' /\ CountsFit' /\ Growing
BY SameTokens, SameCache, SameCounts, Quiet DEF ghosts

\* A tab turns to a page of the extension.
LEMMA ShowInv ==
  ASSUME IInv, NEW k \in Tasks, NEW t \in Tabs, NEW show \in Interstitials, NEW u \in Urls,
         Show(k, t, show, u), UNCHANGED <<now, storage, visits, faults, ghosts>>
  PROVE  IInv'
<1>1. TabsFit'
  <2> DEFINE script == [pc |-> "ask", tries |-> 0, choice |-> FALSE, verdict |-> None]
  <2>1. script \in FitScripts
    BY DEF FitScripts, Scripts
  <2>2. /\ tab' = [tab EXCEPT ![t] = [show |-> show, url |-> u]]
        /\ pending' = [pending EXCEPT ![t] = None]
        /\ page' = [page EXCEPT ![t] = IF show = "holding" THEN script ELSE None]
    BY DEF Show
  <2>3. /\ tab' \in [Tabs -> [show : Interstitials \cup {"blank", "page"}, url : Urls \cup {None}]]
        /\ pending' \in [Tabs -> Urls \cup {None}]
    BY <2>2 DEF IInv, TabsFit
  <2>4. page' = [s \in Tabs |-> page'[s]] /\ page'[t] = (IF show = "holding" THEN script ELSE None)
        /\ tab'[t].show = show /\ tab'[t].url = u
        /\ \A s \in Tabs : s # t => page'[s] = page[s] /\ tab'[s] = tab[s]
    BY <2>2 DEF IInv, TabsFit
  <2> HIDE DEF script
  <2> QED
    BY <2>1, <2>3, <2>4 DEF IInv, TabsFit
<1>2. TasksFit'
  <2> DEFINE tasks == [task EXCEPT ![k] = None]
  <2>1. /\ task' = Orphaned(tasks, t)
        /\ \A s \in Tabs : s # t /\ page[s] \in FitScripts => page'[s] \in FitScripts
    BY DEF Show, IInv, TabsFit
  <2>2. \A j \in Tasks : tasks[j] # None => Fits(tasks[j]) /\ tasks[j] = task[j]
    BY DEF IInv, TasksFit
  <2>3. Growing
    BY Quiet DEF storage, ghosts
  <2> HIDE DEF tasks
  <2> QED
    BY <2>1, <2>2, <2>3, OrphansFit
<1> QED
  BY <1>1, <1>2, SameStorage DEF IInv, storage

LEMMA SwapInv ==
  ASSUME IInv, NEW k \in Tasks,
         SwapBlocked(k) \/ SwapHolding(k) \/ SwapPopup(k) \/ SwapFailed(k)
  PROVE  IInv'
<1>1. task[k] # None
  BY DEF SwapBlocked, SwapHolding, SwapPopup, SwapFailed, At
<1>2. task[k].url \in Urls /\ task[k].tab \in Tabs
  BY <1>1, AtTask
<1>3. UNCHANGED <<now, storage, visits, faults, ghosts>>
      /\ \E show \in Interstitials : Show(k, task[k].tab, show, task[k].url)
  BY DEF SwapBlocked, SwapHolding, SwapPopup, SwapFailed, Interstitials
<1> QED
  BY <1>2, <1>3, ShowInv

\* The browser starts loading a URL into a tab.
LEMMA NewTaskFits ==
  ASSUME IInv, NEW t \in Tabs, NEW u \in Urls, NEW by \in Bys
  PROVE  /\ by \in NavBys => Fits(Task("nav", t, u, "token", None, by))
         /\ Fits(Task("error", t, u, "drop", None, by))
         /\ Fits(Task("resolve", t, u, "fetch", None, by))
         /\ \A s \in Urls : Fits(Task("popup", t, u, "opener", s, by))
         /\ \A v \in Verdicts : Fits(Task("apply", t, u, "check", v, by))
<1> USE DEF Fits, TokenWasThere, EmptyHanded, CountIsTrue, AnswerIsHeld, OthersFit
<1>1. ASSUME NEW kind \in Kinds, NEW pc \in TaskPCs, NEW got PROVE IsTask(Task(kind, t, u, pc, got, by))
  BY DEF IsTask, Task
<1>2. \A kind, pc, got : /\ Task(kind, t, u, pc, got, by).kind = kind /\ Task(kind, t, u, pc, got, by).pc = pc
                         /\ Task(kind, t, u, pc, got, by).got = got /\ Task(kind, t, u, pc, got, by).by = by
                         /\ Task(kind, t, u, pc, got, by).url = u
  BY DEF Task
<1> QED
  BY <1>1, <1>2 DEF Kinds, TaskPCs

LEMMA LoadInv ==
  ASSUME IInv, NEW k \in Tasks, NEW t \in Tabs, NEW u \in Urls, NEW by \in NavBys,
         Load(t, u, k, by), UNCHANGED <<now, tab, token, session, local, retries, ghosts>>,
         visits' \in 0..MaxVisits, faults' \in 0..MaxFaults, temp' \subseteq Urls,
         page' = page \/ (page[t] # None /\ page' = [page EXCEPT ![t].pc = "applying"])
  PROVE  IInv'
<1>1. TabsFit' /\ \A s \in Tabs : page[s] \in FitScripts => page'[s] \in FitScripts
  <2>1. pending' \in [Tabs -> Urls \cup {None}] /\ tab' = tab
    BY DEF Load, IInv, TabsFit
  <2>2. CASE page' = page
    BY <2>1, <2>2 DEF IInv, TabsFit
  <2>3. CASE page[t] # None /\ page' = [page EXCEPT ![t].pc = "applying"]
    <3>1. page[t] \in FitScripts /\ DOMAIN page = Tabs
      BY <2>3 DEF IInv, TabsFit
    <3>2. [page[t] EXCEPT !.pc = "applying"] \in FitScripts
      BY <3>1 DEF FitScripts, Scripts
    <3> QED
      BY <2>1, <2>3, <3>1, <3>2 DEF IInv, TabsFit
  <2> QED
    BY <2>2, <2>3
<1>2. TasksFit'
  <2>1. task' = [task EXCEPT ![k] = task'[k]] /\ task'[k] = Task("nav", t, u, "token", None, by)
    BY DEF Load, IInv, TasksFit
  <2>2. Fits(task'[k])
    BY <2>1, NewTaskFits DEF Bys
  <2>3. task'[k].kind = "nav"
    BY <2>1 DEF Task
  <2> QED
    BY <1>1, <2>1, <2>2, <2>3, OneTask, SameStorage
<1> QED
  BY <1>1, <1>2, SameStorage DEF IInv

LEMMA VisitInv ==
  ASSUME IInv, NEW t \in Tabs, NEW k \in Tasks,
         \/ \E u \in Urls : Navigate(t, u, k)
         \/ Proceed(t, k) \/ AllowTemp(t, k) \/ Retry(t, k)
  PROVE  IInv'
<1>1. tab[t].show # "blank" => tab[t].url \in Urls
  BY DEF IInv, TabsFit
<1>2. PICK u \in Urls, by \in NavBys :
        /\ Visit(t, u, by, k) /\ UNCHANGED <<token, session, local, retries>>
        /\ temp' \in {temp, temp \cup {u}}
  <2>1. {"link", "proceed", "trust", "retry"} \subseteq NavBys
    BY DEF NavBys
  <2>2. CASE \E u \in Urls : Navigate(t, u, k)
    BY <2>1, <2>2 DEF Navigate, storage
  <2>3. CASE Proceed(t, k)
    BY <1>1, <2>1, <2>3 DEF Proceed, storage
  <2>4. CASE AllowTemp(t, k)
    BY <1>1, <2>1, <2>4 DEF AllowTemp, storage
  <2>5. CASE Retry(t, k)
    BY <1>1, <2>1, <2>5 DEF Retry, storage
  <2> QED
    BY <2>2, <2>3, <2>4, <2>5
<1>3. visits' \in 0..MaxVisits /\ temp' \subseteq Urls /\ faults' \in 0..MaxFaults
  BY <1>2, TimesAssumption DEF Visit, IInv
<1>4. Load(t, u, k, by) /\ UNCHANGED <<now, tab, page, ghosts>>
  BY <1>2 DEF Visit
<1> QED
  BY <1>2, <1>3, <1>4, LoadInv

LEMMA OpenPopupInv ==
  ASSUME IInv, NEW s \in Tabs, NEW t \in Tabs, NEW u \in Urls, NEW j \in Tasks, NEW k \in Tasks,
         OpenPopup(s, t, u, j, k)
  PROVE  IInv'
<1> DEFINE nav == Task("nav", t, u, "token", None, "popup")
           popup == Task("popup", t, u, "opener", tab[s].url, "popup")
<1>1. /\ tab[s].show = "page" /\ visits < MaxVisits /\ visits' = visits + 1 /\ j # k
      /\ pending' = [pending EXCEPT ![t] = u] /\ task' = [task EXCEPT ![j] = nav, ![k] = popup]
      /\ UNCHANGED <<now, tab, page, storage, faults, ghosts>>
  BY DEF OpenPopup
<1>2. tab[s].url \in Urls /\ visits' \in 0..MaxVisits
  BY <1>1, TimesAssumption DEF IInv, TabsFit
<1>3. TabsFit'
  BY <1>1 DEF IInv, TabsFit
<1>4. Fits(nav) /\ Fits(popup) /\ nav.kind = "nav" /\ popup.kind = "popup"
  BY <1>2, NewTaskFits DEF NavBys, Bys, Task
<1>5. Growing
  BY <1>1, Quiet DEF ghosts, storage
<1> HIDE DEF nav, popup
<1>6. /\ task' = [i \in Tasks |-> task'[i]]
      /\ \A i \in Tasks : task'[i] \in {nav, popup} \/ task'[i] = task[i]
  BY <1>1 DEF IInv, TasksFit
<1>7. ASSUME NEW i \in Tasks, task'[i] # None PROVE Fits(task[i])'
  <2>1. Fits(task'[i])
    BY <1>4, <1>6, <1>7 DEF IInv, TasksFit
  <2> QED
    BY <1>5, <1>7, <2>1, FitsGrows
<1>8. \A i \in Tasks : task'[i] # None /\ task'[i].kind = "resolve" /\ task'[i].live => page'[task'[i].tab] \in FitScripts
  BY <1>1, <1>4, <1>6 DEF IInv, TasksFit
<1>9. TasksFit'
  BY <1>6, <1>7, <1>8 DEF TasksFit
<1> QED
  BY <1>1, <1>2, <1>3, <1>9, SameStorage DEF IInv, storage

\* A tab leaves its page.
LEMMA LeaveInv ==
  ASSUME IInv, NEW t \in Tabs, NEW shown \in [show : {"blank", "page"}, url : Urls \cup {None}],
         shown.show = "page" => shown.url \in Urls,
         tab' = [tab EXCEPT ![t] = shown], page' = [page EXCEPT ![t] = None],
         pending' = pending \/ pending' = [pending EXCEPT ![t] = None],
         NEW tasks, task' = Orphaned(tasks, t),
         \A j \in Tasks : tasks[j] # None =>
           Fits(tasks[j]) /\ (tasks[j] = task[j] \/ tasks[j].kind # "resolve"),
         UNCHANGED <<now, storage, visits, ghosts>>, faults' \in 0..MaxFaults
  PROVE  IInv'
<1>1. TabsFit' /\ \A s \in Tabs : s # t /\ page[s] \in FitScripts => page'[s] \in FitScripts
  <2>1. tab' \in [Tabs -> [show : Interstitials \cup {"blank", "page"}, url : Urls \cup {None}]]
    BY DEF IInv, TabsFit
  <2>2. pending' \in [Tabs -> Urls \cup {None}]
    BY DEF IInv, TabsFit
  <2>3. /\ page' = [s \in Tabs |-> page'[s]] /\ page'[t] = None /\ tab'[t] = shown
        /\ \A s \in Tabs : s # t => page'[s] = page[s] /\ tab'[s] = tab[s]
    BY DEF IInv, TabsFit
  <2> QED
    BY <2>1, <2>2, <2>3 DEF IInv, TabsFit
<1>2. TasksFit'
  BY <1>1, OrphansFit, Quiet DEF storage, ghosts
<1> QED
  BY <1>1, <1>2, SameStorage DEF IInv, storage

LEMMA TasksAsTheyAre ==
  IInv => \A j \in Tasks : task[j] # None => Fits(task[j]) /\ (task[j] = task[j] \/ task[j].kind # "resolve")
BY DEF IInv, TasksFit

LEMMA CommitInv == ASSUME IInv, NEW t \in Tabs, Commit(t) PROVE IInv'
<1> DEFINE shown == [show |-> "page", url |-> pending[t]]
<1>1. shown \in [show : {"blank", "page"}, url : Urls \cup {None}] /\ shown.url \in Urls
  BY DEF Commit, IInv, TabsFit
<1>2. /\ tab' = [tab EXCEPT ![t] = shown] /\ page' = [page EXCEPT ![t] = None] /\ task' = Orphaned(task, t)
      /\ pending' = [pending EXCEPT ![t] = None] /\ UNCHANGED <<now, storage, visits, ghosts>> /\ faults' = faults
  BY DEF Commit
<1>3. faults' \in 0..MaxFaults
  BY <1>2 DEF IInv
<1> HIDE DEF shown
<1> QED
  BY <1>1, <1>2, <1>3, LeaveInv, TasksAsTheyAre

LEMMA GoBackInv == ASSUME IInv, NEW t \in Tabs, GoBack(t) PROVE IInv'
<1>1. Blank \in [show : {"blank", "page"}, url : Urls \cup {None}] /\ Blank.show # "page"
  BY DEF Blank
<1>2. /\ tab' = [tab EXCEPT ![t] = Blank] /\ page' = [page EXCEPT ![t] = None] /\ task' = Orphaned(task, t)
      /\ pending' = pending /\ UNCHANGED <<now, storage, visits, ghosts>> /\ faults' = faults
  BY DEF GoBack
<1>3. faults' \in 0..MaxFaults
  BY <1>2 DEF IInv
<1> QED
  BY <1>1, <1>2, <1>3, LeaveInv, TasksAsTheyAre

LEMMA LoadFailsInv == ASSUME IInv, NEW t \in Tabs, NEW k \in Tasks, LoadFails(t, k) PROVE IInv'
<1> DEFINE error == Task("error", t, pending[t], "drop", None, None)
           tasks == [task EXCEPT ![k] = error]
<1>1. Blank \in [show : {"blank", "page"}, url : Urls \cup {None}] /\ Blank.show # "page"
  BY DEF Blank
<1>2. pending[t] \in Urls
  BY DEF LoadFails, IInv, TabsFit
<1>3. Fits(error) /\ error.kind = "error"
  BY <1>2, NewTaskFits DEF Bys, Task
<1>4. /\ tab' = [tab EXCEPT ![t] = Blank] /\ page' = [page EXCEPT ![t] = None] /\ task' = Orphaned(tasks, t)
      /\ pending' = [pending EXCEPT ![t] = None] /\ UNCHANGED <<now, storage, visits, ghosts>>
      /\ faults < MaxFaults /\ faults' = faults + 1
  BY DEF LoadFails
<1>5. faults' \in 0..MaxFaults
  BY <1>4, TimesAssumption DEF IInv
<1> HIDE DEF error
<1>6. \A j \in Tasks : tasks[j] # None =>
        Fits(tasks[j]) /\ (tasks[j] = task[j] \/ tasks[j].kind # "resolve")
  BY <1>3 DEF IInv, TasksFit
<1> HIDE DEF tasks
<1> QED
  BY <1>1, <1>4, <1>5, <1>6, LeaveInv

-----------------------------------------------------------------------------
(* The holding page *)

LEMMA PageFits ==
  ASSUME IInv, NEW t \in Tabs, page[t] # None, NEW p \in FitScripts, page' = [page EXCEPT ![t] = p],
         UNCHANGED <<tab, pending>>
  PROVE  TabsFit' /\ \A s \in Tabs : page[s] \in FitScripts => page'[s] \in FitScripts
<1>1. page' = [s \in Tabs |-> page'[s]] /\ page'[t] = p /\ \A s \in Tabs : s # t => page'[s] = page[s]
  BY DEF IInv, TabsFit
<1> QED
  BY <1>1 DEF IInv, TabsFit

LEMMA OnHold ==
  ASSUME IInv, NEW t \in Tabs, page[t] # None
  PROVE  page[t] \in FitScripts /\ tab[t].url \in Urls /\ DOMAIN page = Tabs
BY DEF IInv, TabsFit

LEMMA MissedFits == \A p \in FitScripts : Missed(p) \in FitScripts
BY DEF Missed, FitScripts, Scripts

LEMMA AskInv == ASSUME IInv, NEW t \in Tabs, NEW k \in Tasks, Ask(t, k) PROVE IInv'
<1> DEFINE p == [page[t] EXCEPT !.pc = "wait", !.tries = @ + 1]
<1>1. page[t] # None /\ page[t].pc = "ask" /\ UNCHANGED <<now, tab, pending, storage, visits, faults, ghosts>>
      /\ task' = [task EXCEPT ![k] = Task("resolve", t, tab[t].url, "fetch", None, None)]
  BY DEF Ask, Script
<1>2. page[t] \in FitScripts /\ tab[t].url \in Urls /\ DOMAIN page = Tabs
  BY <1>1, OnHold
<1>3. page' = [page EXCEPT ![t] = p]
  BY <1>2 DEF Ask
<1>4. p \in FitScripts
  <2>1. page[t] \in Scripts
        /\ page[t].tries < 2
    BY <1>1, <1>2 DEF FitScripts
  <2>2. page[t].tries \in 0..2 /\ page[t].tries + 1 \in 0..2
    BY <2>1 DEF Scripts
  <2>3. p \in Scripts /\ p.pc = "wait"
    BY <2>1, <2>2 DEF Scripts
  <2> QED
    BY <2>3 DEF FitScripts
<1> HIDE DEF p
<1>5. TabsFit' /\ page'[t] \in FitScripts /\ \A s \in Tabs : page[s] \in FitScripts => page'[s] \in FitScripts
  BY <1>1, <1>2, <1>3, <1>4, PageFits
<1>6. /\ task' = [task EXCEPT ![k] = task'[k]] /\ task'[k] = Task("resolve", t, tab[t].url, "fetch", None, None)
  BY <1>1 DEF IInv, TasksFit
<1>7. Fits(task'[k]) /\ task'[k].tab = t
  <2>1. Fits(task'[k])
    BY <1>2, <1>6, NewTaskFits DEF Bys
  <2>2. task'[k].tab = t
    BY <1>6 DEF Task
  <2> QED
    BY <2>1, <2>2
<1>8. TasksFit'
  BY <1>1, <1>5, <1>6, <1>7, OneTask, Quiet DEF storage, ghosts
<1> QED
  BY <1>1, <1>5, <1>8, SameStorage DEF IInv, storage

LEMMA RouteInv == ASSUME IInv, NEW t \in Tabs, NEW k \in Tasks, Route(t, k) PROVE IInv'
<1> DEFINE p == [page[t] EXCEPT !.pc = "applying"]
           apply == Task("apply", t, tab[t].url, "check", page[t].verdict, None)
<1>1. page[t] # None /\ page[t].pc = "route" /\ UNCHANGED <<now, tab, pending, storage, visits, faults, ghosts>>
      /\ task' = [task EXCEPT ![k] = apply]
  BY DEF Route, Script
<1>2. page[t] \in FitScripts /\ tab[t].url \in Urls /\ DOMAIN page = Tabs
  BY <1>1, OnHold
<1>3. page' = [page EXCEPT ![t] = p]
  BY <1>2 DEF Route
<1>4. p \in FitScripts /\ page[t].verdict \in Verdicts
  BY <1>1, <1>2 DEF FitScripts, Scripts
<1>5. Fits(apply) /\ apply.kind = "apply"
  BY <1>2, <1>4, NewTaskFits DEF Bys, Task
<1> HIDE DEF p, apply
<1>6. TabsFit' /\ \A s \in Tabs : page[s] \in FitScripts => page'[s] \in FitScripts
  BY <1>1, <1>2, <1>3, <1>4, PageFits
<1>7. /\ task' = [task EXCEPT ![k] = task'[k]] /\ task'[k] = apply
  BY <1>1 DEF IInv, TasksFit
<1>8. TasksFit'
  BY <1>1, <1>5, <1>6, <1>7, OneTask, Quiet DEF storage, ghosts
<1> QED
  BY <1>1, <1>6, <1>8, SameStorage DEF IInv, storage

LEMMA RouteDirectlyInv == ASSUME IInv, NEW t \in Tabs, NEW k \in Tasks, RouteDirectly(t, k) PROVE IInv'
<1>1. page[t] # None
  BY DEF RouteDirectly, Script
<1>2. tab[t].url \in Urls /\ "release" \in NavBys
  BY <1>1, OnHold DEF NavBys
<1>3. visits' \in 0..MaxVisits /\ faults' \in 0..MaxFaults /\ temp' \subseteq Urls
  BY DEF RouteDirectly, IInv, storage
<1> QED
  BY <1>1, <1>2, <1>3, LoadInv DEF RouteDirectly, storage

LEMMA DeadlineInv == ASSUME IInv, NEW t \in Tabs, Deadline(t) PROVE IInv'
<1> DEFINE p == [page[t] EXCEPT !.choice = TRUE]
<1>1. page[t] # None /\ UNCHANGED <<now, tab, pending, task, storage, visits, faults, ghosts>>
  BY DEF Deadline
<1>2. page[t] \in FitScripts /\ DOMAIN page = Tabs
  BY <1>1, OnHold
<1>3. page' = [page EXCEPT ![t] = p] /\ p \in FitScripts
  BY <1>2 DEF Deadline, FitScripts, Scripts
<1> HIDE DEF p
<1>4. TabsFit' /\ \A s \in Tabs : page[s] \in FitScripts => page'[s] \in FitScripts
  BY <1>1, <1>3, PageFits
<1>5. TasksFit'
  <2>1. Growing
    BY <1>1, Quiet DEF storage, ghosts
  <2>2. \A k \in Tasks : task[k] # None => Fits(task[k])' /\ task[k].tab \in Tabs
    BY <1>1, <2>1, AtTask, FitsGrows
  <2> QED
    BY <1>1, <1>4, <2>2 DEF IInv, TasksFit
<1> QED
  BY <1>1, <1>4, <1>5, SameStorage DEF IInv, storage

LEMMA ChooseInv ==
  ASSUME IInv, NEW t \in Tabs, NEW v \in {"ALLOW", "ISOLATE"}, NEW r \in BOOLEAN, Choose(t, v, r)
  PROVE  IInv'
<1> DEFINE p == [page[t] EXCEPT !.pc = "route", !.verdict = v]
<1>1. page[t] # None /\ task' = Orphaned(task, t)
      /\ UNCHANGED <<now, tab, pending, token, session, local, retries, visits, faults, ghosts>>
  BY DEF Choose
<1>2. page[t] \in FitScripts /\ DOMAIN page = Tabs /\ tab[t].url \in Urls
  BY <1>1, OnHold
<1>3. page' = [page EXCEPT ![t] = p] /\ p \in FitScripts
  BY <1>2 DEF Choose, FitScripts, Scripts, Verdicts
<1> HIDE DEF p
<1>4. TabsFit' /\ \A s \in Tabs : page[s] \in FitScripts => page'[s] \in FitScripts
  BY <1>1, <1>3, PageFits
<1>5. TasksFit'
  BY <1>1, <1>4, OrphansFit, TasksAsTheyAre, Quiet DEF ghosts
<1>6. temp' \subseteq Urls
  BY <1>2 DEF Choose, IInv
<1> QED
  BY <1>1, <1>4, <1>5, <1>6, SameStorage DEF IInv

LEMMA AttemptEndsInv == ASSUME IInv, NEW t \in Tabs, AttemptEnds(t) PROVE IInv'
<1>1. page[t] # None /\ task' = Orphaned(task, t) /\ page' = [page EXCEPT ![t] = Missed(page[t])]
      /\ UNCHANGED <<now, tab, pending, storage, visits, faults, ghosts>>
  BY OnHold DEF AttemptEnds, Script
<1>2. Missed(page[t]) \in FitScripts
  BY <1>1, OnHold, MissedFits
<1>3. TabsFit' /\ \A s \in Tabs : page[s] \in FitScripts => page'[s] \in FitScripts
  BY <1>1, <1>2, PageFits
<1>4. TasksFit'
  BY <1>1, <1>3, OrphansFit, TasksAsTheyAre, Quiet DEF storage, ghosts
<1> QED
  BY <1>1, <1>3, <1>4, SameStorage DEF IInv, storage

-----------------------------------------------------------------------------
(* The messages resolve and apply, and failed loads *)

\* A handler that is no navigation goes on; what it changes grows.
LEMMA OtherMoved ==
  ASSUME IInv, Growing, NEW k \in Tasks, task[k] # None, task[k].kind # "nav", NEW p \in TaskPCs, NEW g,
         Moves(k, p, g), UNCHANGED <<tab, pending, page>>,
         task[k].kind = "resolve" /\ p \in {"store", "mirror", "reply"} =>
           /\ g \in [v : Verdicts \cup {"ANALYZING"}, t : 0..now']
           /\ p = "store" => g.v \in Verdicts /\ task[k].url \notin Sensitive
           /\ p = "mirror" => /\ g.v = "BLOCK" /\ task[k].url \notin Sensitive
                              /\ session'[Normal[task[k].url]] # None => g.t <= session'[Normal[task[k].url]].t,
         task[k].kind = "apply" => g \in Verdicts, task[k].kind = "popup" => p \notin {"opener", "lineage"}
  PROVE  TasksFit'
<1>1. /\ task' = [task EXCEPT ![k] = task'[k]]
      /\ IsTask(task'[k]) /\ task'[k].pc = p /\ task'[k].got = g
      /\ task'[k].kind = task[k].kind /\ task'[k].url = task[k].url /\ task'[k].tab = task[k].tab
      /\ task'[k].live = task[k].live
  BY Moved
<1>2. Fits(task[k])'
  BY <1>1 DEF Fits, IsTask, TokenWasThere, EmptyHanded, CountIsTrue, AnswerIsHeld, OthersFit
<1>3. task'[k] # None /\ task'[k].kind = "resolve" /\ task'[k].live => page'[task'[k].tab] \in FitScripts
  BY <1>1 DEF IInv, TasksFit
<1> QED
  BY <1>1, <1>2, <1>3, OneTask, SameTabs

LEMMA DropVerdictInv == ASSUME IInv, NEW k \in Tasks, DropVerdict(k) PROVE IInv'
<1> DEFINE n == Normal[task[k].url]
<1>1. /\ At(k, "error", "drop") /\ session' = [session EXCEPT ![n] = None] /\ Moves(k, "swap", task[k].got)
      /\ UNCHANGED <<now, tab, pending, page, token, local, temp, retries, visits, faults, ghosts>>
  BY DEF DropVerdict, Goto, Moves
<1>2. n \in Urls /\ session' = [u \in Urls |-> IF u = n THEN None ELSE session[u]]
  BY <1>1, AtTask DEF At, IInv, CacheFits
<1>3. CacheFits'
  BY <1>1, <1>2 DEF IInv, CacheFits, ghosts
<1>4. Growing
  <2>1. now \in Times /\ now \in Nat /\ now <= now /\ now' = now
    BY <1>1, TimesAssumption DEF IInv, Times
  <2>2. \A u \in Urls, s \in Times : held'[u][s] \in Nat /\ held[u][s] <= held'[u][s]
    BY <1>1 DEF IInv, CountsFit, ghosts
  <2> QED
    BY <1>1, <1>2, <2>1, <2>2 DEF Growing, ghosts
<1>5. TasksFit'
  BY <1>1, <1>4, OtherMoved DEF At, TaskPCs
<1> QED
  BY <1>1, <1>3, <1>5, SameTabs, SameTokens, SameCounts DEF IInv, ghosts

LEMMA FetchInv == ASSUME IInv, NEW k \in Tasks, Fetch(k) PROVE IInv'
<1>1. /\ At(k, "resolve", "fetch") /\ UNCHANGED <<now, tab, pending, page, storage, visits, faults, ghosts>>
      /\ \E v \in Answers :
           \/ Moves(k, "reply", [v |-> v, t |-> now])
           \/ Moves(k, "store", [v |-> v, t |-> now]) /\ v # "ANALYZING" /\ task[k].url \notin Sensitive
  BY DEF Fetch, Moves
<1>2. PICK v \in Answers :
           \/ Moves(k, "reply", [v |-> v, t |-> now])
           \/ Moves(k, "store", [v |-> v, t |-> now]) /\ v # "ANALYZING" /\ task[k].url \notin Sensitive
  BY <1>1
<1> DEFINE g == [v |-> v, t |-> now]
<1>3. g \in [v : Verdicts \cup {"ANALYZING"}, t : 0..now'] /\ (v # "ANALYZING" => g.v \in Verdicts)
  BY <1>1, AnswersAssumption, TimesAssumption DEF IInv, Times
<1>4. Growing
  BY <1>1, Quiet DEF storage, ghosts
<1>5. PICK p \in {"reply", "store"} :
        Moves(k, p, g) /\ (p = "store" => g.v \in Verdicts /\ task[k].url \notin Sensitive)
  BY <1>2, <1>3
<1> HIDE DEF g
<1>6. TasksFit'
  BY <1>1, <1>3, <1>4, <1>5, OtherMoved DEF At, TaskPCs
<1> QED
  BY <1>1, <1>6, SameTabs, SameStorage DEF IInv, storage

\* What the session is given is the last verdict kept, unless the disk is to have it too.
LEMMA StoreInv == ASSUME IInv, NEW k \in Tasks, Store(k) PROVE IInv'
<1> DEFINE u == task[k].url
           n == Normal[u]
           e == [v |-> task[k].got.v, t |-> now]
<1>1. /\ At(k, "resolve", "store") /\ session' = [session EXCEPT ![n] = e]
      /\ Moves(k, IF e.v = "BLOCK" THEN "mirror" ELSE "reply", e)
      /\ last' = IF e.v = "BLOCK" THEN last ELSE [last EXCEPT ![u] = e]
      /\ UNCHANGED <<now, tab, pending, page, token, local, temp, retries, visits, faults, stamped, held>>
  BY DEF Store, Moves
<1>2. u \in Urls /\ n \in Urls /\ task[k].got.v \in Verdicts /\ u \notin Sensitive /\ task[k].kind = "resolve" /\ task[k] # None
  BY <1>1, AtTask DEF At, Fits, AnswerIsHeld
<1>3. now \in Times /\ now \in 0..now /\ now <= now
  BY TimesAssumption DEF IInv, Times
<1>4. e \in [v : Verdicts, t : 0..now] /\ e \in [v : Verdicts \cup {"ANALYZING"}, t : 0..now'] /\ e.t = now
  BY <1>1, <1>2, <1>3
<1> HIDE DEF e
<1>5. CacheFits'
  <2>1. /\ session' \in [Urls -> [v : Verdicts, t : 0..now] \cup {None}]
        /\ last' \in [Urls -> [v : Verdicts, t : 0..now] \cup {None}]
        /\ session'[n] = e /\ \A w \in Urls : w # n => session'[w] = session[w]
        /\ \A w \in Urls : w # u => last'[w] = last[w]
        /\ e.v # "BLOCK" => last'[u] = e
    BY <1>1, <1>2, <1>4 DEF IInv, CacheFits
  <2>2. ASSUME NEW x \in Urls, session'[x] # None, session'[x].v # "BLOCK"
        PROVE  \E w \in Urls : Normal[w] = x /\ last'[w] = session'[x]
    <3>1. CASE x = n
      BY <1>2, <2>1, <2>2, <3>1
    <3>2. CASE x # n
      <4>1. PICK w \in Urls : Normal[w] = x /\ last[w] = session[x]
        BY <2>1, <2>2, <3>2 DEF IInv, CacheFits
      <4>2. w # u
        BY <3>2, <4>1
      <4> QED
        BY <2>1, <3>2, <4>1, <4>2
    <3> QED
      BY <3>1, <3>2
  <2> QED
    BY <1>1, <2>1, <2>2 DEF IInv, CacheFits
<1>6. Growing
  <2>1. \A w \in Urls : session'[w] = session[w] \/ session'[w].t = now'
    BY <1>1, <1>2, <1>4 DEF IInv, CacheFits
  <2>2. \A w \in Urls, s \in Times : held'[w][s] \in Nat /\ held[w][s] <= held'[w][s]
    BY <1>1 DEF IInv, CountsFit
  <2>3. \A w \in Urls : stamped[w] \in Nat => stamped'[w] \in Nat /\ stamped[w] <= stamped'[w]
    BY <1>1
  <2> QED
    BY <1>1, <1>3, <2>1, <2>2, <2>3 DEF Growing
<1>7. session'[n] = e /\ e.t <= session'[n].t
  BY <1>1, <1>2, <1>3, <1>4 DEF IInv, CacheFits
<1>8. TasksFit'
  <2>1. CASE e.v = "BLOCK"
    BY <1>1, <1>2, <1>4, <1>6, <1>7, <2>1, OtherMoved DEF TaskPCs
  <2>2. CASE e.v # "BLOCK"
    BY <1>1, <1>2, <1>4, <1>6, <2>2, OtherMoved DEF TaskPCs
  <2> QED
    BY <2>1, <2>2
<1> QED
  BY <1>1, <1>5, <1>8, SameTabs, SameTokens, SameCounts DEF IInv

LEMMA MirrorInv == ASSUME IInv, NEW k \in Tasks, Mirror(k) PROVE IInv'
<1> DEFINE u == task[k].url
           n == Normal[u]
           g == task[k].got
<1>1. /\ At(k, "resolve", "mirror") /\ local' = [local EXCEPT ![n] = g] /\ Moves(k, "reply", g)
      /\ last' = IF session[n] # None /\ session[n].v # "BLOCK" THEN last ELSE [last EXCEPT ![u] = g]
      /\ UNCHANGED <<now, tab, pending, page, token, session, temp, retries, visits, faults, stamped, held>>
  BY DEF Mirror, Goto, Moves
<1>2. u \in Urls /\ n \in Urls /\ task[k].kind = "resolve" /\ task[k] # None
      /\ g \in [v : Verdicts \cup {"ANALYZING"}, t : 0..now] /\ g.v = "BLOCK"
  BY <1>1, AtTask DEF At, Fits, AnswerIsHeld
<1>3. g \in [v : {"BLOCK"}, t : 0..now] /\ g \in [v : Verdicts, t : 0..now]
  BY <1>2 DEF Verdicts
<1>4. CacheFits'
  <2>1. /\ local' \in [Urls -> [v : {"BLOCK"}, t : 0..now] \cup {None}]
        /\ last' \in [Urls -> [v : Verdicts, t : 0..now] \cup {None}]
    BY <1>1, <1>2, <1>3 DEF IInv, CacheFits
  <2>2. ASSUME NEW x \in Urls, session[x] # None, session[x].v # "BLOCK"
        PROVE  \E w \in Urls : Normal[w] = x /\ last'[w] = session[x]
    <3>1. PICK w \in Urls : Normal[w] = x /\ last[w] = session[x]
      BY <2>2 DEF IInv, CacheFits
    <3>2. last'[w] = last[w]
      BY <1>1, <2>2, <3>1 DEF IInv, CacheFits
    <3> QED
      BY <3>1, <3>2
  <2> QED
    BY <1>1, <2>1, <2>2 DEF IInv, CacheFits
<1>5. TasksFit'
  <2>1. Growing
    BY <1>1, Quiet
  <2> HIDE DEF g
  <2> QED
    BY <1>1, <1>2, <2>1, OtherMoved DEF TaskPCs
<1> QED
  BY <1>1, <1>4, <1>5, SameTabs, SameTokens, SameCounts DEF IInv

LEMMA ReplyInv == ASSUME IInv, NEW k \in Tasks, Reply(k) PROVE IInv'
<1> DEFINE t == task[k].tab
           v == task[k].got.v
<1>1. /\ At(k, "resolve", "reply") /\ End(k)
      /\ UNCHANGED <<now, tab, pending, storage, visits, faults, ghosts>>
  BY DEF Reply
<1>2. /\ task[k] # None /\ task[k].kind = "resolve" /\ t \in Tabs
      /\ v \in Verdicts \cup {"ANALYZING"}
  BY <1>1, AtTask DEF At, Fits, AnswerIsHeld
<1>3. \/ UNCHANGED page
      \/ page[t] \in FitScripts /\ \E p \in FitScripts : page' = [page EXCEPT ![t] = p]
  <2>1. CASE ~task[k].live
    BY <2>1 DEF Reply
  <2>2. CASE task[k].live
    <3>1. page[t] \in FitScripts
      BY <1>2, <2>2 DEF IInv, TasksFit
    <3>2. DOMAIN page = Tabs
      BY DEF IInv, TabsFit
    <3>3. CASE v = "ANALYZING"
      BY <1>2, <2>2, <3>1, <3>2, <3>3, MissedFits DEF Reply
    <3>4. CASE v # "ANALYZING"
      <4>1. page' = [page EXCEPT ![t] = [page[t] EXCEPT !.pc = "route", !.verdict = v]]
        BY <1>2, <2>2, <3>2, <3>4 DEF Reply
      <4>2. [page[t] EXCEPT !.pc = "route", !.verdict = v] \in FitScripts
        BY <1>2, <3>1, <3>4 DEF FitScripts, Scripts
      <4> QED
        BY <3>1, <4>1, <4>2
    <3> QED
      BY <3>3, <3>4
  <2> QED
    BY <1>2, <2>1, <2>2 DEF IInv, TasksFit, Fits, IsTask
<1>4. TabsFit' /\ \A s \in Tabs : page[s] \in FitScripts => page'[s] \in FitScripts
  <2>1. CASE page' = page
    BY <1>1, <2>1, SameTabs
  <2>2. ASSUME page[t] \in FitScripts, NEW p \in FitScripts, page' = [page EXCEPT ![t] = p]
        PROVE  TabsFit' /\ \A s \in Tabs : page[s] \in FitScripts => page'[s] \in FitScripts
    <3>1. page' = [s \in Tabs |-> page'[s]] /\ page'[t] = p /\ \A s \in Tabs : s # t => page'[s] = page[s]
      BY <1>2, <2>2 DEF IInv, TabsFit
    <3>2. tab[t].show = "holding"
      BY <1>2, <2>2, NoneAssumption DEF IInv, TabsFit, FitScripts
    <3> QED
      BY <1>1, <1>2, <2>2, <3>1, <3>2 DEF IInv, TabsFit
  <2> QED
    BY <1>3, <2>1, <2>2
<1>5. TasksFit'
  BY <1>1, <1>4, EndedTask, Quiet DEF storage, ghosts
<1> QED
  BY <1>1, <1>4, <1>5, SameStorage DEF IInv, storage

LEMMA ApplyCheckInv == ASSUME IInv, NEW k \in Tasks, ApplyCheck(k) PROVE IInv'
<1>1. /\ At(k, "apply", "check") /\ UNCHANGED <<now, tab, pending, page, storage, visits, faults, ghosts>>
      /\ End(k) \/ \E p \in {"stamp", "update"} : Moves(k, p, task[k].got)
  BY DEF ApplyCheck, Goto, Moves
<1>2. task[k] # None /\ task[k].kind = "apply" /\ task[k].got \in Verdicts
  BY <1>1, AtTask DEF At, Fits, OthersFit
<1>3. Growing
  BY <1>1, Quiet DEF storage, ghosts
<1>4. TasksFit'
  <2>1. CASE End(k)
    BY <1>1, <1>3, <2>1, EndedTask
  <2>2. CASE \E p \in {"stamp", "update"} : Moves(k, p, task[k].got)
    BY <1>1, <1>2, <1>3, <2>2, OtherMoved DEF TaskPCs
  <2> QED
    BY <1>1, <2>1, <2>2
<1> QED
  BY <1>1, <1>4, SameTabs, SameStorage DEF IInv, storage

LEMMA ApplyStampInv == ASSUME IInv, NEW k \in Tasks, ApplyStamp(k) PROVE IInv'
<1> DEFINE n == Normal[task[k].url]
<1>1. /\ At(k, "apply", "stamp") /\ Moves(k, "update", task[k].got)
      /\ token' = [token EXCEPT ![n] = now] /\ stamped' = [stamped EXCEPT ![n] = now]
      /\ UNCHANGED <<now, tab, pending, page, session, local, temp, retries, visits, faults, held, last>>
  BY DEF ApplyStamp, Goto, Moves
<1>2. task[k] # None /\ task[k].kind = "apply" /\ task[k].got \in Verdicts /\ n \in Urls
  BY <1>1, AtTask DEF At, Fits, OthersFit
<1>3. now \in Times /\ now \in Nat /\ now <= now
  BY TimesAssumption DEF IInv, Times
<1>4. TokensFit'
  BY <1>1, <1>2, <1>3 DEF IInv, TokensFit
<1>5. Growing
  <2>1. \A u \in Urls : stamped[u] \in Nat => stamped'[u] \in Nat /\ stamped[u] <= stamped'[u]
    BY <1>1, <1>2, <1>3, NoneAssumption DEF IInv, TokensFit
  <2>2. \A u \in Urls, s \in Times : held'[u][s] \in Nat /\ held[u][s] <= held'[u][s]
    BY <1>1 DEF IInv, CountsFit
  <2> QED
    BY <1>1, <1>3, <2>1, <2>2 DEF Growing
<1>6. TasksFit'
  BY <1>1, <1>2, <1>5, OtherMoved DEF TaskPCs
<1> QED
  BY <1>1, <1>4, <1>6, SameTabs, SameCache, SameCounts DEF IInv

LEMMA ApplyUpdateInv == ASSUME IInv, NEW k \in Tasks, ApplyUpdate(k) PROVE IInv'
<1>1. At(k, "apply", "update") /\ UNCHANGED <<now, storage, visits, faults, ghosts>>
  BY DEF ApplyUpdate
<1>2. task[k].got \in Verdicts /\ task[k].url \in Urls /\ task[k].tab \in Tabs
  BY <1>1, AtTask DEF At, Fits, OthersFit
<1>3. CASE task[k].got = "ALLOW"
  <2>1. Load(task[k].tab, task[k].url, k, "release") /\ UNCHANGED <<tab, page>> /\ "release" \in NavBys
    BY <1>3 DEF ApplyUpdate, NavBys
  <2>2. visits' \in 0..MaxVisits /\ faults' \in 0..MaxFaults /\ temp' \subseteq Urls
    BY <1>1 DEF IInv, storage
  <2> QED
    BY <1>1, <1>2, <2>1, <2>2, LoadInv DEF storage
<1>4. CASE task[k].got # "ALLOW"
  <2>1. ShownFor[task[k].got] \in Interstitials
    BY <1>2, <1>4 DEF ShownFor, Verdicts, Interstitials
  <2>2. Show(k, task[k].tab, ShownFor[task[k].got], task[k].url)
    BY <1>4 DEF ApplyUpdate
  <2> QED
    BY <1>1, <1>2, <2>1, <2>2, ShowInv
<1> QED
  BY <1>3, <1>4

\* A handler whose call failed ends, or does without.
LEMMA StorageFailsInv == ASSUME IInv, NEW k \in Tasks, StorageFails(k) PROVE IInv'
<1>1. /\ task[k] # None /\ faults < MaxFaults /\ faults' = faults + 1
      /\ UNCHANGED <<now, tab, pending, page, storage, visits, ghosts>>
  BY DEF StorageFails, Free
<1>2. faults' \in 0..MaxFaults
  BY <1>1, TimesAssumption DEF IInv
<1>3. Growing /\ Fits(task[k]) /\ IsTask(task[k])
  BY <1>1, AtTask, Quiet DEF storage, ghosts
<1>4. \/ End(k)
      \/ task[k].kind = "resolve" /\ task[k].pc \in {"store", "mirror"} /\ Moves(k, "reply", task[k].got)
      \/ task[k].kind = "nav" /\ Moves(k, "swap", task[k].got)
      \/ task[k].kind \in {"error", "popup"} /\ Moves(k, "swap", task[k].got)
  BY DEF StorageFails, At, Goto, Moves
<1>5. TasksFit'
  <2>1. CASE End(k)
    BY <1>1, <1>3, <2>1, EndedTask
  <2>2. CASE task[k].kind = "resolve" /\ task[k].pc \in {"store", "mirror"} /\ Moves(k, "reply", task[k].got)
    <3>1. task[k].got \in [v : Verdicts \cup {"ANALYZING"}, t : 0..now]
      BY <1>3, <2>2 DEF Fits, AnswerIsHeld
    <3> QED
      BY <1>1, <1>3, <2>2, <3>1, OtherMoved DEF TaskPCs
  <2>3. CASE task[k].kind = "nav" /\ Moves(k, "swap", task[k].got)
    BY <1>1, <2>3, NavMoved DEF NavSteps, storage, ghosts
  <2>4. CASE task[k].kind \in {"error", "popup"} /\ Moves(k, "swap", task[k].got)
    BY <1>1, <1>3, <2>4, OtherMoved DEF TaskPCs
  <2> QED
    BY <1>4, <2>1, <2>2, <2>3, <2>4
<1> QED
  BY <1>1, <1>2, <1>5, SameTabs, SameStorage DEF IInv, storage

LEMMA SwapRejectedInv == ASSUME IInv, NEW k \in Tasks, SwapRejected(k) PROVE IInv'
<1>1. /\ faults' \in 0..MaxFaults /\ End(k)
      /\ UNCHANGED <<now, tab, pending, page, storage, visits, ghosts>>
  BY TimesAssumption DEF SwapRejected, IInv
<1>2. TasksFit'
  BY <1>1, EndedTask, Quiet, SameTabs DEF storage, ghosts
<1> QED
  BY <1>1, <1>2, SameTabs, SameStorage DEF IInv, storage

-----------------------------------------------------------------------------
(* The browser *)

LEMMA WorkerDiesInv == ASSUME IInv, WorkerDies PROVE IInv'
<1>1. /\ faults' \in 0..MaxFaults /\ task' = [k \in Tasks |-> None]
      /\ page' = [t \in Tabs |-> IF Script(t, "applying") THEN [page[t] EXCEPT !.pc = "rejected"] ELSE page[t]]
      /\ UNCHANGED <<now, tab, pending, storage, visits, ghosts>>
  BY TimesAssumption DEF WorkerDies, IInv
<1>2. TabsFit'
  <2>1. \A p \in FitScripts : [p EXCEPT !.pc = "rejected"] \in FitScripts
    BY DEF FitScripts, Scripts
  <2>2. page' = [t \in Tabs |-> page'[t]]
        /\ \A t \in Tabs : page'[t] # None => page[t] # None /\ page'[t] \in {page[t], [page[t] EXCEPT !.pc = "rejected"]}
    BY <1>1 DEF Script
  <2> QED
    BY <1>1, <2>1, <2>2 DEF IInv, TabsFit
<1>3. TasksFit'
  BY <1>1 DEF TasksFit
<1> QED
  BY <1>1, <1>2, <1>3, SameStorage DEF IInv, storage

LEMMA RestartInv == ASSUME IInv, Restart PROVE IInv'
<1>1. /\ faults' \in 0..MaxFaults /\ UNCHANGED <<now, local, temp, visits, stamped, last>>
      /\ tab' = [t \in Tabs |-> Blank] /\ pending' = [t \in Tabs |-> None] /\ page' = [t \in Tabs |-> None]
      /\ task' = [k \in Tasks |-> None] /\ token' = [u \in Urls |-> None]
      /\ session' = [u \in Urls |-> None] /\ retries' = [u \in Urls |-> None]
      /\ held' = [u \in Urls |-> [s \in Times |-> 0]]
  BY TimesAssumption DEF Restart, IInv
<1>2. TabsFit' /\ TasksFit'
  BY <1>1 DEF TabsFit, TasksFit, Blank
<1>3. TokensFit' /\ CacheFits'
  BY <1>1 DEF IInv, TokensFit, CacheFits
<1>4. CountsFit'
  BY <1>1 DEF CountsFit
<1> QED
  BY <1>1, <1>2, <1>3, <1>4 DEF IInv

LEMMA TickInv == ASSUME IInv, Tick PROVE IInv'
<1>1. now \in Nat /\ now' = now + 1 /\ now' \in Times /\ 0..now \subseteq 0..now'
      /\ UNCHANGED <<tab, pending, page, task, storage, visits, faults, ghosts>>
  BY TimesAssumption DEF Tick, IInv, Times
<1>2. Growing
  BY <1>1 DEF Growing, IInv, CountsFit, storage, ghosts
<1>3. TasksFit'
  <2>1. \A k \in Tasks : task[k] # None => Fits(task[k])'
    BY <1>1, <1>2, AtTask, FitsGrows
  <2> QED
    BY <1>1, <2>1 DEF IInv, TasksFit
<1>4. TokensFit'
  BY <1>1 DEF IInv, TokensFit, storage, ghosts
<1>5. CacheFits'
  <2>1. /\ [v : Verdicts, t : 0..now] \subseteq [v : Verdicts, t : 0..now']
        /\ [v : {"BLOCK"}, t : 0..now] \subseteq [v : {"BLOCK"}, t : 0..now']
    BY <1>1
  <2>2. /\ session \in [Urls -> [v : Verdicts, t : 0..now'] \cup {None}]
        /\ local \in [Urls -> [v : {"BLOCK"}, t : 0..now'] \cup {None}]
        /\ last \in [Urls -> [v : Verdicts, t : 0..now'] \cup {None}]
    BY <2>1 DEF IInv, CacheFits
  <2> QED
    BY <1>1, <2>2 DEF IInv, CacheFits, storage, ghosts
<1>6. CountsFit'
  BY <1>1 DEF IInv, CountsFit, Counted, storage, ghosts
<1> QED
  BY <1>1, <1>3, <1>4, <1>5, <1>6, SameTabs DEF IInv, storage

LEMMA StutterInv == IInv /\ UNCHANGED vars => IInv'
<1> SUFFICES ASSUME IInv, UNCHANGED vars PROVE IInv'
  OBVIOUS
<1>1. UNCHANGED <<now, tab, pending, page, task, storage, visits, faults, ghosts>>
  BY DEF vars
<1>2. TasksFit'
  <2>1. Growing
    BY <1>1, Quiet DEF storage, ghosts
  <2>2. \A k \in Tasks : task[k] # None => Fits(task[k])'
    BY <1>1, <2>1, AtTask, FitsGrows
  <2> QED
    BY <1>1, <2>2 DEF IInv, TasksFit
<1> QED
  BY <1>1, <1>2, SameTabs, SameStorage DEF IInv, storage

LEMMA StepInv == IInv /\ [Next]_vars => IInv'
<1> SUFFICES ASSUME IInv, [Next]_vars PROVE IInv'
  OBVIOUS
<1>1. CASE Environment
  BY <1>1, TickInv, WorkerDiesInv, RestartInv, VisitInv, LoadFailsInv, OpenPopupInv, GoBackInv,
     ChooseInv, StorageFailsInv, SwapRejectedInv DEF Environment
<1>2. ASSUME NEW k \in Tasks, Handler(k) PROVE IInv'
  BY <1>2, ReadTokenInv, ConsumeInv, ReadTempInv, ReadCacheInv, SwapInv, ReadRetriesInv, CountInv,
     ReadOpenerInv, DropVerdictInv, FetchInv, StoreInv, MirrorInv, ReplyInv, ApplyCheckInv,
     ApplyStampInv, ApplyUpdateInv DEF Handler
<1>3. ASSUME NEW t \in Tabs, Holding(t) \/ Commit(t) PROVE IInv'
  BY <1>3, AttemptEndsInv, DeadlineInv, AskInv, RouteInv, RouteDirectlyInv, CommitInv DEF Holding
<1>4. CASE UNCHANGED vars
  BY <1>4, StutterInv
<1>5. ASSUME NEW u \in Urls, Remove(u) PROVE IInv'
  BY <1>5, RemoveInv
<1> QED
  BY <1>1, <1>2, <1>3, <1>4, <1>5 DEF Next

LEMMA Invariance == Spec => []IInv
BY InitInv, StepInv, PTL DEF Spec

LEMMA RemovalsStep == RemovalsFit /\ [Next]_vars => RemovalsFit'
<1> SUFFICES ASSUME RemovalsFit, [Next]_vars PROVE RemovalsFit'
  OBVIOUS
<1> USE DEF RemovalsFit, storage
<1>1. CASE UNCHANGED removals
  BY <1>1
<1>2. CASE Environment
  <2>1. CASE Restart
    BY <2>1 DEF Restart
  <2>2. /\ Tick \/ WorkerDies \/ (\E k \in Tasks : StorageFails(k) \/ SwapRejected(k)) => UNCHANGED removals
        /\ \A t \in Tabs : GoBack(t) \/ (\E v \in {"ALLOW", "ISOLATE"}, r \in BOOLEAN : Choose(t, v, r)) =>
             UNCHANGED removals
    BY DEF Tick, WorkerDies, StorageFails, SwapRejected, GoBack, Choose
  <2>3. \A t \in Tabs, k \in Tasks :
          (\E u \in Urls : Navigate(t, u, k)) \/ Proceed(t, k) \/ AllowTemp(t, k) \/ Retry(t, k) \/ LoadFails(t, k) =>
            UNCHANGED removals
    BY DEF Navigate, Proceed, AllowTemp, Retry, LoadFails
  <2>4. \A s, t \in Tabs, u \in Urls, j, k \in Tasks : OpenPopup(s, t, u, j, k) => UNCHANGED removals
    BY DEF OpenPopup
  <2> QED
    BY <1>1, <1>2, <2>1, <2>2, <2>3, <2>4 DEF Environment
<1>3. ASSUME NEW k \in Tasks, Handler(k) PROVE RemovalsFit'
  <2>1. CASE ReadSession(k) \/ ReadLocal(k) \/ ReadOpener(k) \/ ReadOpenerLocal(k)
    BY <2>1 DEF ReadSession, ReadLocal, ReadOpener, ReadOpenerLocal, Answered, OpenerAnswered, Cleanup
  <2>2. CASE \/ ReadToken(k) \/ Consume(k) \/ ReadTemp(k) \/ SwapBlocked(k) \/ ReadRetries(k) \/ Count(k)
             \/ SwapHolding(k) \/ SwapPopup(k) \/ DropVerdict(k) \/ SwapFailed(k)
    BY <1>1, <2>2 DEF ReadToken, Consume, ReadTemp, SwapBlocked, ReadRetries, Count, SwapHolding, SwapPopup,
       DropVerdict, SwapFailed
  <2>3. CASE Fetch(k) \/ Store(k) \/ Mirror(k) \/ Reply(k) \/ ApplyCheck(k) \/ ApplyStamp(k) \/ ApplyUpdate(k)
    BY <1>1, <2>3 DEF Fetch, Store, Mirror, Reply, ApplyCheck, ApplyStamp, ApplyUpdate
  <2> QED
    BY <1>3, <2>1, <2>2, <2>3 DEF Handler
<1>4. CASE \E t \in Tabs : Holding(t) \/ Commit(t)
  BY <1>1, <1>4 DEF Holding, AttemptEnds, Deadline, Ask, Route, RouteDirectly, Commit
<1>5. ASSUME NEW u \in Urls, Remove(u) PROVE RemovalsFit'
  BY <1>5 DEF Remove
<1>6. CASE UNCHANGED vars
  BY <1>1, <1>6 DEF vars
<1> QED
  BY <1>2, <1>3, <1>4, <1>5, <1>6 DEF Next

-----------------------------------------------------------------------------
(* What is known to be bad *)

\* Only u itself is kept under u: no URL has the slash or the fragment that
\* normalizeForToken takes off, and u has none.
OwnKey(u) == Normal[u] = u /\ \A w \in Urls : Normal[w] = u => w = u

\* A BLOCK kept last is on disk until it expires, unless a removal took it, and the session has none that is older.
BlockIsHeld(u) ==
  /\ KnownBad(u) => local[u] = last[u]
  /\ session[u] # None /\ session[u].v = "BLOCK" /\ last[u] # None /\ last[u].v = "BLOCK" =>
       last[u].t <= session[u].t
BlocksHold == \A u \in Urls : OwnKey(u) => BlockIsHeld(u)

LEMMA InitBlocks == Init => BlocksHold
BY DEF Init, BlocksHold, BlockIsHeld, KnownBad

\* What the cache and the ghost of u hold.
LEMMA Kept ==
  ASSUME IInv, NEW u \in Urls
  PROVE  /\ session[u] # None => session[u].v \in Verdicts /\ session[u].t \in Nat /\ session[u].t <= now
         /\ local[u] # None => local[u].v = "BLOCK" /\ local[u].t \in Nat /\ local[u].t <= now
         /\ last[u] # None => last[u].v \in Verdicts /\ last[u].t \in Nat /\ last[u].t <= now
         /\ now \in Nat /\ BlockTTL \in Nat
         /\ OwnKey(u) /\ session[u] # None /\ session[u].v # "BLOCK" => last[u] = session[u]
BY TimesAssumption DEF IInv, CacheFits, Times, OwnKey

\* A BLOCK that is known is found.
LEMMA Found ==
  ASSUME IInv, BlocksHold, NEW u \in Urls, OwnKey(u), KnownBad(u)
  PROVE  /\ session[u] # None => session[u].v = "BLOCK" /\ now - session[u].t <= BlockTTL
         /\ local[u] # None /\ local[u].v = "BLOCK" /\ now - local[u].t <= BlockTTL
BY Kept DEF BlocksHold, BlockIsHeld, KnownBad

LEMMA ReadCacheBlocks ==
  ASSUME IInv, BlocksHold, NEW k \in Tasks, ReadSession(k) \/ ReadLocal(k), OwnKey(task[k].url)
  PROVE  StaysBlocked(k)
<1> DEFINE u == task[k].url
<1>1. At(k, "nav", "session") \/ At(k, "nav", "local")
  BY DEF ReadSession, ReadLocal
<1>2. u \in Urls /\ task[k] # None
  BY <1>1, AtTask DEF At
<1>3. ASSUME NEW e, e = session[u] \/ e = local[u], e # None, Answered(k, e), KnownBad(u),
             UNCHANGED <<now, tab, pending, page, token, session, local, temp, retries, visits, faults, ghosts>>
      PROVE  task'[k] # None /\ task'[k].pc = "block"
  <2>1. e \in [v : Verdicts, t : 0..now] /\ e.v = "BLOCK" /\ now - e.t <= BlockTTL
    BY <1>2, <1>3, Found DEF IInv, CacheFits, Verdicts
  <2> QED
    BY <1>1, <1>3, <2>1, AnsweredInv
<1>4. CASE ReadSession(k) /\ session[u] = None
  <2>1. task' = [task EXCEPT ![k].pc = "local"]
    BY <1>4 DEF ReadSession, Goto
  <2>2. task'[k].pc = "local" /\ task'[k] # None
    <3>1. IsTask(task'[k]) /\ task'[k].pc = "local" /\ task'[k].got = None /\ task'[k].kind = "nav" /\ task'[k].by = task[k].by
      <4>1. task[k].got = None /\ task[k].kind = "nav"
        BY <1>2, <1>4, AtTask DEF ReadSession, At, Fits, EmptyHanded
      <4>2. Moves(k, "local", None) /\ "local" \in TaskPCs
        BY <2>1, <4>1 DEF Moves, TaskPCs
      <4> QED
        BY <1>2, <4>1, <4>2, Moved
    <3>2. task[k].by \in NavBys
      BY <1>2, <1>4, AtTask DEF ReadSession, At, Fits, EmptyHanded
    <3>3. task'[k] \in Navs
      BY <3>1, <3>2 DEF IsTask, Navs, NavSteps
    <3> QED
      BY <3>1, <3>3, NoneAssumption
  <2> QED
    BY <2>2 DEF StaysBlocked
<1>5. CASE ReadLocal(k) /\ local[u] = None
  BY <1>2, <1>5, Found DEF ReadLocal, StaysBlocked
<1>6. CASE ReadSession(k) /\ session[u] # None
  BY <1>3, <1>6 DEF ReadSession, StaysBlocked
<1>7. CASE ReadLocal(k) /\ local[u] # None
  BY <1>3, <1>7 DEF ReadLocal, StaysBlocked
<1> QED
  BY <1>4, <1>5, <1>6, <1>7

\* What a removal takes is not the last verdict any more.
LEMMA RemoveBlocks ==
  ASSUME IInv, BlocksHold, NEW n \in Urls, Remove(n) PROVE BlocksHold'
<1>1. /\ UNCHANGED <<now, session>>
      /\ \/ /\ local' = [local EXCEPT ![n] = None]
            /\ last' = [w \in Urls |-> IF Normal[w] = n /\ last[w] = local[n] THEN None ELSE last[w]]
         \/ UNCHANGED <<local, last>>
  BY DEF Remove
<1>2. ASSUME NEW u \in Urls, OwnKey(u) PROVE BlockIsHeld(u)'
  <2>1. last'[u] = last[u] \/ last'[u] = None
    BY <1>1
  <2>2. u # n => local'[u] = local[u]
    BY <1>1 DEF IInv, CacheFits
  <2>3. u = n => local'[u] = local[u] \/ last[u] # local[u] \/ last'[u] = None
    BY <1>1, <1>2 DEF OwnKey
  <2> QED
    BY <1>1, <1>2, <2>1, <2>2, <2>3 DEF BlocksHold, BlockIsHeld, KnownBad
<1> QED
  BY <1>2 DEF BlocksHold, OwnKey

LEMMA StoreBlocks ==
  ASSUME IInv, BlocksHold, NEW k \in Tasks, Store(k) PROVE BlocksHold'
<1> DEFINE n == Normal[task[k].url]
           e == [v |-> task[k].got.v, t |-> now]
<1>1. /\ At(k, "resolve", "store") /\ session' = [session EXCEPT ![n] = e]
      /\ last' = IF e.v = "BLOCK" THEN last ELSE [last EXCEPT ![task[k].url] = e]
      /\ UNCHANGED <<now, local>>
  BY DEF Store
<1>2. task[k].url \in Urls /\ n \in Urls /\ e.t = now
  BY <1>1, AtTask DEF At
<1> HIDE DEF e
<1>3. ASSUME NEW u \in Urls, OwnKey(u) PROVE BlockIsHeld(u)'
  <2>1. last[u] # None => last[u].t <= now
    BY Kept
  <2>2. CASE n = u
    <3>1. task[k].url = u /\ session'[u] = e
      BY <1>1, <1>2, <1>3, <2>2 DEF OwnKey, IInv, CacheFits
    <3>2. CASE e.v = "BLOCK"
      BY <1>1, <1>2, <1>3, <2>1, <3>1, <3>2 DEF BlocksHold, BlockIsHeld, KnownBad
    <3>3. CASE e.v # "BLOCK"
      <4>1. last'[u] = e
        BY <1>1, <3>1, <3>3 DEF IInv, CacheFits
      <4> QED
        BY <3>1, <3>3, <4>1 DEF BlockIsHeld, KnownBad
    <3> QED
      BY <3>2, <3>3
  <2>3. CASE n # u
    <3>1. session'[u] = session[u] /\ last'[u] = last[u]
      BY <1>1, <1>2, <1>3, <2>3 DEF OwnKey, IInv, CacheFits
    <3> QED
      BY <1>1, <1>3, <3>1 DEF BlocksHold, BlockIsHeld, KnownBad
  <2> QED
    BY <2>2, <2>3
<1> QED
  BY <1>3 DEF BlocksHold, OwnKey

\* A BLOCK on its way to the disk is no newer than the session's.
LEMMA MirrorBlocks ==
  ASSUME IInv, BlocksHold, NEW k \in Tasks, Mirror(k) PROVE BlocksHold'
<1> DEFINE n == Normal[task[k].url]
           g == task[k].got
<1>1. /\ At(k, "resolve", "mirror") /\ local' = [local EXCEPT ![n] = g]
      /\ last' = IF session[n] # None /\ session[n].v # "BLOCK" THEN last
                 ELSE [last EXCEPT ![task[k].url] = g]
      /\ UNCHANGED <<now, session>>
  BY DEF Mirror
<1>2. task[k].url \in Urls /\ n \in Urls /\ (session[n] # None => g.t <= session[n].t)
  BY <1>1, AtTask DEF At, Fits, AnswerIsHeld
<1> HIDE DEF g
<1>3. ASSUME NEW u \in Urls, OwnKey(u) PROVE BlockIsHeld(u)'
  <2>1. CASE n = u
    <3>1. task[k].url = u /\ local'[u] = g
      BY <1>1, <1>2, <1>3, <2>1 DEF OwnKey, IInv, CacheFits
    <3>2. CASE session[u] # None /\ session[u].v # "BLOCK"
      <4>1. last'[u] = session[u]
        BY <1>1, <1>3, <2>1, <3>2, Kept
      <4> QED
        BY <1>1, <3>2, <4>1 DEF BlockIsHeld, KnownBad
    <3>3. CASE ~(session[u] # None /\ session[u].v # "BLOCK")
      <4>1. last'[u] = g
        BY <1>1, <2>1, <3>1, <3>3 DEF IInv, CacheFits
      <4> QED
        BY <1>1, <1>2, <2>1, <3>1, <4>1 DEF BlockIsHeld, KnownBad
    <3> QED
      BY <3>2, <3>3
  <2>2. CASE n # u
    <3>1. local'[u] = local[u] /\ last'[u] = last[u]
      BY <1>1, <1>2, <1>3, <2>2 DEF OwnKey, IInv, CacheFits
    <3> QED
      BY <1>1, <1>3, <3>1 DEF BlocksHold, BlockIsHeld, KnownBad
  <2> QED
    BY <2>1, <2>2
<1> QED
  BY <1>3 DEF BlocksHold, OwnKey

\* Time and the loss of the session's verdicts leave the disk as it is.
LEMMA CacheLost ==
  ASSUME IInv, BlocksHold, UNCHANGED <<local, last>>, now' \in Nat, now <= now',
         \A u \in Urls : session'[u] \in {session[u], None}
  PROVE  BlocksHold'
<1>1. \A u \in Urls : KnownBad(u)' => KnownBad(u)
  BY Kept DEF KnownBad
<1> QED
  BY <1>1 DEF BlocksHold, BlockIsHeld, OwnKey

LEMMA StepBlocks ==
  IInv /\ BlocksHold /\ [Next]_vars => BlocksHold' /\ \A k \in Tasks : OwnKey(task[k].url) => StaysBlocked(k)
<1> SUFFICES ASSUME IInv, BlocksHold, [Next]_vars PROVE BlocksHold'
  BY ReadCacheBlocks DEF StaysBlocked
<1>1. now \in Nat /\ now <= now
  BY TimesAssumption DEF IInv, Times
<1>2. CASE UNCHANGED <<now, session, local, last>>
  BY <1>1, <1>2, CacheLost
<1>3. CASE Environment
  <2>1. CASE Tick
    BY <1>1, <2>1, CacheLost DEF Tick, storage, ghosts
  <2>2. CASE Restart
    BY <1>1, <2>2, CacheLost DEF Restart
  <2>3. CASE ~Tick /\ ~Restart
    <3>1. \A t \in Tabs, k \in Tasks :
            (\E u \in Urls : Navigate(t, u, k)) \/ Proceed(t, k) \/ AllowTemp(t, k) \/ Retry(t, k) \/ LoadFails(t, k) =>
              UNCHANGED <<now, session, local, last>>
      BY DEF Navigate, Proceed, AllowTemp, Retry, Visit, LoadFails, storage, ghosts
    <3>2. \A s, t \in Tabs, u \in Urls, j, k \in Tasks :
            OpenPopup(s, t, u, j, k) => UNCHANGED <<now, session, local, last>>
      BY DEF OpenPopup, storage, ghosts
    <3>3. /\ WorkerDies \/ (\E k \in Tasks : StorageFails(k)) => UNCHANGED <<now, session, local, last>>
          /\ \A k \in Tasks : SwapRejected(k) => UNCHANGED <<now, session, local, last>>
          /\ \A t \in Tabs : GoBack(t) \/ (\E v \in {"ALLOW", "ISOLATE"}, r \in BOOLEAN : Choose(t, v, r)) =>
               UNCHANGED <<now, session, local, last>>
      BY DEF WorkerDies, StorageFails, SwapRejected, GoBack, Choose, storage, ghosts
    <3> QED
      BY <1>2, <1>3, <2>3, <3>1, <3>2, <3>3 DEF Environment
  <2> QED
    BY <2>1, <2>2, <2>3
<1>4. ASSUME NEW k \in Tasks, Handler(k) PROVE BlocksHold'
  <2>1. CASE DropVerdict(k)
    <3>1. \A u \in Urls : session'[u] \in {session[u], None}
      BY <2>1 DEF DropVerdict, IInv, CacheFits
    <3> QED
      BY <1>1, <2>1, <3>1, CacheLost DEF DropVerdict, ghosts
  <2>2. CASE ReadSession(k) \/ ReadLocal(k) \/ ReadOpener(k) \/ ReadOpenerLocal(k)
    BY <1>2, <2>2 DEF ReadSession, ReadLocal, ReadOpener, ReadOpenerLocal, ghosts
  <2>3. CASE Store(k) \/ Mirror(k)
    BY <2>3, StoreBlocks, MirrorBlocks
  <2>4. CASE \/ ReadToken(k) \/ Consume(k) \/ ReadTemp(k) \/ SwapBlocked(k) \/ ReadRetries(k) \/ Count(k)
             \/ SwapHolding(k) \/ SwapPopup(k) \/ SwapFailed(k) \/ Fetch(k) \/ Reply(k)
             \/ ApplyCheck(k) \/ ApplyStamp(k) \/ ApplyUpdate(k)
    BY <1>2, <2>4 DEF ReadToken, Consume, ReadTemp, SwapBlocked, ReadRetries, Count, SwapHolding, SwapPopup,
       SwapFailed, Fetch, Reply, ApplyCheck, ApplyStamp, ApplyUpdate, storage, ghosts
  <2> QED
    BY <1>4, <2>1, <2>2, <2>3, <2>4 DEF Handler
<1>5. CASE \E t \in Tabs : Holding(t) \/ Commit(t)
  BY <1>2, <1>5 DEF Holding, AttemptEnds, Deadline, Ask, Route, RouteDirectly, Commit, storage, ghosts
<1>6. CASE UNCHANGED vars
  BY <1>2, <1>6 DEF vars, storage, ghosts
<1>7. ASSUME NEW u \in Urls, Remove(u) PROVE BlocksHold'
  BY <1>7, RemoveBlocks
<1> QED
  BY <1>3, <1>4, <1>5, <1>6, <1>7 DEF Next

LEMMA BlocksInvariance == Spec => []BlocksHold
<1>1. IInv /\ BlocksHold /\ [Next]_vars => BlocksHold'
  BY StepBlocks
<1> QED
  BY <1>1, InitBlocks, Invariance, PTL DEF Spec

-----------------------------------------------------------------------------
(* The theorems *)

\* Tabs, scripts, handlers and the storage hold what the code puts there.
THEOREM TypesHold == Spec => []TypeOK
<1>1. Init => RemovalsFit
  BY DEF Init, RemovalsFit
<1> QED
  BY <1>1, Invariance, RemovalsStep, Typed, PTL DEF Spec

\* A navigation passes on a token within TokenTTL of the last applied ALLOW of its URL, or on
\* a cached verdict ALLOW that is the last one kept and not older than AllowTTL, whatever
\* other handlers write between its reads.
THEOREM PassesEarned == Spec => PassesAreEarned
<1>1. IInv /\ [Next]_vars => [\A k \in Tasks :
       LET u == task[k].url IN
       /\ Consume(k) /\ task'[k] = None =>
            stamped[Normal[u]] # None /\ now - stamped[Normal[u]] <= TokenTTL
       /\ (ReadSession(k) \/ ReadLocal(k)) /\ task'[k] = None =>
            \E w \in Urls : /\ Normal[w] = u /\ last[w] # None
                            /\ last[w].v = "ALLOW" /\ now - last[w].t <= AllowTTL]_vars
  BY ConsumeInv, ReadCacheInv DEF Allowed
<1>2. Spec => PassIsEarned
  BY <1>1, Invariance, PTL DEF Spec, PassIsEarned
<1> QED
  BY <1>2, TypesHold DEF PassesAreEarned

\* The retry guard lets a navigation through only after Limit intercepts since the window began
\* that it counts in, though handlers read the counter before others write it.
THEOREM GuardOpensLate == Spec => LimitOnlyAfterHolds
<1>1. IInv /\ [Next]_vars => [\A k \in Tasks :
       Count(k) /\ task'[k] = None => held[Normal[task[k].url]][task[k].got.since] >= Limit]_vars
  BY CountInv
<1> QED
  BY <1>1, Invariance, PTL DEF Spec, LimitOnlyAfterHolds

\* For a URL that alone is kept under its key, a BLOCK is found by whoever reads the cache while
\* it is fresh, over restarts and whatever is written or dropped between the two writes, unless a
\* removal that a reader of an older entry asked for took it off the disk.
THEOREM OwnKeysStayBlocked ==
  Spec => [][\A k \in Tasks : OwnKey(task[k].url) => StaysBlocked(k)]_vars
<1>1. IInv /\ BlocksHold /\ [Next]_vars => [\A k \in Tasks : OwnKey(task[k].url) => StaysBlocked(k)]_vars
  BY StepBlocks
<1> QED
  BY <1>1, Invariance, BlocksInvariance, PTL DEF Spec

\* Where no URL has a slash or a fragment to take off, a page known to be bad stays blocked, with
\* the same exception.
THEOREM BlocksSurvive ==
  ASSUME \A u \in Urls : Normal[u] = u
  PROVE  Spec => KnownBadStaysBlocked
<1>1. ASSUME IInv, BlocksHold, [Next]_vars, NEW k \in Tasks PROVE StaysBlocked(k)
  <2>1. CASE ReadSession(k) \/ ReadLocal(k)
    <3>1. OwnKey(task[k].url)
      BY <1>1, <2>1, AtTask DEF ReadSession, ReadLocal, At, OwnKey
    <3> QED
      BY <1>1, <3>1, StepBlocks
  <2>2. CASE ~(ReadSession(k) \/ ReadLocal(k))
    BY <2>2 DEF StaysBlocked
  <2> QED
    BY <2>1, <2>2
<1>2. IInv /\ BlocksHold /\ [Next]_vars => [\A k \in Tasks : StaysBlocked(k)]_vars
  BY <1>1
<1> QED
  BY <1>2, Invariance, BlocksInvariance, PTL DEF Spec, KnownBadStaysBlocked
=============================================================================
