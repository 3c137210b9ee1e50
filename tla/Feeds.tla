-------------------------------- MODULE Feeds --------------------------------
(***************************************************************************)
(* What fills feed_entries, the table of listed urls: the feeds (URLhaus,  *)
(* OpenPhish, PhishTank), each fetched whole once a day, and the weekly    *)
(* subjack sweep over the domains that ct-monitor has queued.  A feed is   *)
(* entered row by row in one transaction, while the other feeds wait.      *)
(***************************************************************************)
EXTENDS Integers, FiniteSets

CONSTANTS
  FeedRows,      \* feed |-> the rows its copies may have: [source, url, live]
  QueuedDomains, \* domains that ct-monitor may queue
  Vulnerable,    \* those with a dangling CNAME and the marker of its provider
  SweepLimit     \* candidates of a sweep (5,000)

\* Each feed writes rows of its own source, and none is called as the sweep's.
ASSUME FeedBounds ==
  /\ Vulnerable \subseteq QueuedDomains /\ SweepLimit \in Nat \ {0}
  /\ "subjack" \notin DOMAIN FeedRows
  /\ \A f \in DOMAIN FeedRows : \A r \in FeedRows[f] : r.source = f

VARIABLES
  candidates, \* prescan_queue: domains of the last 60 days
  entering,   \* the upsert under way: [feed, left, rows], rows to enter and entered, or Idle
  listed,     \* feed_entries: [source, url]
  fetched     \* history: feed |-> what was taken of each of its copies

feedVars == <<candidates, entering, listed, fetched>>

Idle == [feed |-> "none", left |-> {}, rows |-> {}]

FeedInit ==
  /\ candidates = {} /\ entering = Idle /\ listed = {}
  /\ fetched = [f \in DOMAIN FeedRows |-> {}]

\* ct-monitor queues a domain; the nightly cleanup drops it.
QueueDomain(d) ==
  /\ candidates' = IF d \in candidates THEN candidates \ {d} ELSE candidates \cup {d}
  /\ UNCHANGED <<entering, listed, fetched>>

\* subjack.Run: up to the limit of the queue's domains, in no order; of those whose lookups
\* answer, the vulnerable are entered in one transaction.
Subjack ==
  \E picked \in SUBSET candidates : \E answered \in SUBSET picked :
    /\ Cardinality(picked) <= SweepLimit
    /\ listed' = listed \cup {[source |-> "subjack", url |-> d] : d \in answered \cap Vulnerable}
    /\ UNCHANGED <<candidates, entering, fetched>>

\* Rows of a copy that are taken: URLhaus's that are online, PhishTank's that are verified
\* and online, all of OpenPhish's.
Taken(copy) == {[source |-> r.source, url |-> r.url] : r \in {q \in copy : q.live}}

\* A copy is fetched and a transaction begun; with no row to take there is none.
Fetch(f) ==
  /\ entering = Idle
  /\ \E copy \in SUBSET FeedRows[f] :
       /\ Taken(copy) # {}
       /\ entering' = [feed |-> f, left |-> Taken(copy), rows |-> {}]
       /\ fetched' = [fetched EXCEPT ![f] = @ \cup {Taken(copy)}]
  /\ UNCHANGED <<candidates, listed>>

\* Faulty variant: each row is entered for itself, with no transaction around it.
UpsertAlone(r) ==
  /\ r \in entering.left
  /\ entering' = [entering EXCEPT !.left = @ \ {r}, !.rows = @ \cup {r}]
  /\ listed' = listed \cup {r}
  /\ UNCHANGED <<candidates, fetched>>

\* upsert: one row within the transaction.
Upsert(r) ==
  /\ r \in entering.left
  /\ entering' = [entering EXCEPT !.left = @ \ {r}, !.rows = @ \cup {r}]
  /\ UNCHANGED <<candidates, listed, fetched>>

\* Postgres refuses a row or the commit, or is gone, or the scheduler ends: rolled back.
RollBack ==
  /\ entering # Idle
  /\ entering' = Idle
  /\ UNCHANGED <<candidates, listed, fetched>>

\* The rows become those of the table; the answer may be lost, which is only logged.
Commit ==
  /\ entering # Idle /\ entering.left = {}
  /\ listed' = listed \cup entering.rows
  /\ entering' = Idle
  /\ UNCHANGED <<candidates, fetched>>

FeedNext ==
  \/ \E d \in QueuedDomains : QueueDomain(d)
  \/ Subjack
  \/ \E f \in DOMAIN FeedRows : Fetch(f)
  \/ \E r \in entering.left : Upsert(r)
  \/ RollBack \/ Commit
FeedSpec == FeedInit /\ [][FeedNext]_feedVars

-----------------------------------------------------------------------------
FeedTypeOK ==
  /\ candidates \subseteq QueuedDomains
  /\ entering = Idle \/ entering.feed \in DOMAIN FeedRows
  /\ DOMAIN fetched = DOMAIN FeedRows

\* Each row that feed_entries holds of a feed came with a copy all of whose rows are there:
\* a copy that cannot be entered to its last row leaves nothing behind, however many of its
\* rows went well and whatever the sweep enters meanwhile.
CopiesAreWhole ==
  \A f \in DOMAIN FeedRows : \A r \in listed :
    r.source = f => \E copy \in fetched[f] : r \in copy /\ copy \subseteq listed

\* The table holds whole copies, in states the feeds and the sweep can be in.
FeedsAreWhole == FeedTypeOK /\ CopiesAreWhole
=============================================================================
