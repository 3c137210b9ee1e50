------------------------------ MODULE DeepScan ------------------------------
(***************************************************************************)
(* /v1/deep-scan: a crawl from a root page, breadth first, along the links *)
(* that each page's cached render lists.  Pages are capped, and so is the  *)
(* depth and the number of pages on other hosts than the root's.  The      *)
(* cache keeps renders by page and by host: where a page's own is gone,    *)
(* that of another page of its host may stand in.                          *)
(***************************************************************************)
EXTENDS Integers, Sequences, FiniteSets, SequencesExt

CONSTANTS
  WebPages,   \* page |-> [host, links: sequence of pages]
  Root,
  SensitivePages, \* pages whose path asks for a render of their own
  Depths,     \* max_depth that is asked for, the cap of 2 being applied
  PageLimits, \* max_pages, likewise (15)
  MaxCross    \* deepScanMaxCross (5)

ASSUME DeepBounds ==
  /\ Root \in DOMAIN WebPages /\ SensitivePages \subseteq DOMAIN WebPages
  /\ Depths \subseteq Nat \ {0} /\ PageLimits \subseteq Nat \ {0}
  /\ \A p \in DOMAIN WebPages : /\ Len(WebPages[p].links) \in Nat
                               /\ WebPages[p].links \in [1..Len(WebPages[p].links) -> DOMAIN WebPages]
  /\ MaxCross \in Nat

VARIABLES
  asked,   \* [depth, pages, same]: same_origin_only
  visited, \* pages queued so far, the root among them
  todo,    \* queue of [page, depth]
  crossed, \* crossOriginCrawled
  done,    \* pages that got a verdict, in order, as [page, depth, links its render lists]
  ended

deepVars == <<asked, visited, todo, crossed, done, ended>>

Cross(p) == WebPages[p].host # WebPages[Root].host

DeepInit ==
  /\ asked \in [depth : Depths, pages : PageLimits, same : BOOLEAN]
  /\ visited = {Root} /\ todo = <<[page |-> Root, depth |-> 0]>>
  /\ crossed = 0 /\ done = <<>> /\ ended = FALSE

-----------------------------------------------------------------------------
\* Links that are passed over: of other hosts, where they may not or no longer be followed.
Barred(st, p) == Cross(p) /\ (asked.same \/ st.crossed >= MaxCross)
Counted(st, p) == [st EXCEPT !.crossed = @ + IF Cross(p) THEN 1 ELSE 0]
Full(st) == Cardinality(st.visited) >= asked.pages
Queued(st, p, depth) ==
  [Counted(st, p) EXCEPT !.visited = @ \cup {p}, !.todo = Append(@, [page |-> p, depth |-> depth])]

\* Faulty variant: the budget for other hosts is spent before the page is known to be new.
EnqueueCounted(st, p, depth) ==
  IF Barred(st, p) THEN st
  ELSE IF p \in st.visited THEN Counted(st, p)
  ELSE IF Full(st) THEN [Counted(st, p) EXCEPT !.stop = TRUE]
  ELSE Queued(st, p, depth)

\* One link of a page.  The count of pages on other hosts goes up before the page limit is
\* looked at, so that it may count a page that is not queued; the limit ends the loop.
Enqueue(st, p, depth) ==
  IF p \in st.visited \/ Barred(st, p) THEN st
  ELSE IF Full(st) THEN [Counted(st, p) EXCEPT !.stop = TRUE]
  ELSE Queued(st, p, depth)

\* The loop over the links of a page, while depth remains: what is left after n of them.
Follow(item, links) ==
  LET followed == IF item.depth < asked.depth THEN links ELSE <<>>
      after[n \in 0..Len(followed)] ==
        IF n = 0 THEN [visited |-> visited, crossed |-> crossed, todo |-> Tail(todo), stop |-> FALSE]
        ELSE IF after[n - 1].stop THEN after[n - 1]
        ELSE Enqueue(after[n - 1], followed[n], item.depth + 1)
  IN after[Len(followed)]

\* getRenderCache: the pages whose render may be found for this one.
StandIns(p) ==
  {p} \cup {q \in DOMAIN WebPages : WebPages[q].host = WebPages[p].host /\ p \notin SensitivePages}

\* One page: its verdict, then the links of the render that the cache has for it, if any.
ScanPage ==
  /\ ~ended /\ todo # <<>> /\ Cardinality(visited) <= asked.pages
  /\ LET item == Head(todo) IN
       \E links \in {<<>>} \cup {WebPages[p].links : p \in StandIns(item.page)} :
         LET st == Follow(item, links) IN
            /\ visited' = st.visited /\ crossed' = st.crossed /\ todo' = st.todo
            /\ done' = Append(done, [page |-> item.page, depth |-> item.depth, links |-> links])
  /\ UNCHANGED <<asked, ended>>

\* The queue is empty, or the 60 s are over.
EndScan ==
  /\ ~ended
  /\ ended' = TRUE
  /\ UNCHANGED <<asked, visited, todo, crossed, done>>

DeepNext == ScanPage \/ EndScan
DeepSpec == DeepInit /\ [][DeepNext]_deepVars /\ WF_deepVars(ScanPage)

-----------------------------------------------------------------------------
Scanned == {done[n].page : n \in DOMAIN done}

DeepTypeOK ==
  /\ visited \subseteq DOMAIN WebPages /\ Root \in visited
  /\ \A n \in DOMAIN todo : todo[n].page \in visited /\ todo[n].depth \in 0..asked.depth
  /\ crossed \in 0..MaxCross /\ ended \in BOOLEAN

\* A page is rendered once, and never are there more renders than pages asked for, nor
\* more of other hosts than their budget: each render costs a sandbox.
RendersAreBounded ==
  /\ \A m, n \in DOMAIN done : done[m].page = done[n].page => m = n
  /\ Len(done) + Len(todo) <= asked.pages
  /\ Cardinality({p \in Scanned : Cross(p)}) <= IF asked.same THEN 0 ELSE MaxCross

\* Pages that can be reached over the renders that were seen, each taken for that of the
\* page it was found for, in at most n links.
Within ==
  LET reach[n \in 0..asked.depth] ==
        IF n = 0 THEN {Root}
        ELSE reach[n - 1] \cup
             UNION {ToSet(done[m].links) : m \in {k \in DOMAIN done : done[k].page \in reach[n - 1]}}
  IN reach

\* Shallow pages come first: while one that was queued at a lesser depth waits, no deeper
\* one is rendered, and a page that is rendered is so at the least depth it can be reached at,
\* even when the budgets have turned down links to it.
ShallowFirst ==
  /\ \A m, n \in DOMAIN done : m < n => done[m].depth <= done[n].depth
  /\ \A n \in DOMAIN done : done[n].depth > 0 => done[n].page \notin Within[done[n].depth - 1]

\* deepscan.go:9: a link of a rendered page that may still be followed is turned down only
\* for want of pages, or of MaxCross pages on other hosts.  The counter may run ahead of
\* the queue, but only once no page can be queued any more.
RefusedForCause ==
  \A n \in DOMAIN done : done[n].depth < asked.depth =>
    \A p \in ToSet(done[n].links) \ visited :
      \/ Cross(p) /\ asked.same
      \/ Cardinality(visited) >= asked.pages
      \/ Cross(p) /\ Cardinality({q \in visited : Cross(q)}) >= MaxCross
\* The crawl keeps to its three budgets, goes breadth first, and turns down nothing that
\* they leave room for.
CrawlIsFair == DeepTypeOK /\ RendersAreBounded /\ ShallowFirst /\ RefusedForCause
=============================================================================
