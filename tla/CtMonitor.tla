------------------------------ MODULE CtMonitor ------------------------------
(***************************************************************************)
(* ct-monitor watches certificates: a live stream (CertStream) and, as a   *)
(* fallback, a search of crt.sh for a few brand keywords in turn each      *)
(* cycle.  Domains that resemble a brand go to prescan_queue.              *)
(*                                                                         *)
(* Time counts cycles of the crt.sh poll (15 min).  The keywords are held  *)
(* in a slice that one goroutine assigns and two read with no lock: a      *)
(* reader may see the old slice or the new one, or one's address with the  *)
(* other's length, which the process need not survive.                     *)
(***************************************************************************)
EXTENDS Integers, Sequences, FiniteSets, SequencesExt

CONSTANTS
  Keywords,     \* keywords of brands, of at least four letters
  CertDomains,  \* domains that get a certificate
  Holds,        \* <<domain, keyword>>: the name contains it, which crt.sh looks for
  Resembles,    \* <<domain, keyword>>: its first label contains it, or nearly is it
  PerKeyword,   \* rows of crt.sh's answer that are read (crtshPerKeyword, 200)
  Others,       \* keyword |-> rows of the answer that tell of no domain for the first time
  PerCycle,     \* keywords searched in a cycle (10)
  Lookback      \* cycles crt.sh looks back (24 h)

ASSUME CtBounds ==
  /\ IsFiniteSet(Keywords) /\ IsFiniteSet(CertDomains)
  /\ Holds \subseteq CertDomains \X Keywords /\ Resembles \subseteq CertDomains \X Keywords
  /\ PerKeyword \in Nat /\ Others \in [Keywords -> Nat]
  /\ PerCycle \in Nat \ {0} /\ Lookback \in Nat \ {0}

VARIABLES
  keywords, \* ct-monitor: sequence of the keywords it has
  monitor,  \* ct-monitor runs
  stream,   \* "down", "open" or "silent": open, but nothing comes any more
  next,     \* index of the rotation
  sought,   \* the keywords of the last cycle
  age,      \* domain |-> cycles since its certificate, NoCert, up to Lookback
  queue,    \* prescan_queue: [domain, hint]
  disturbed \* history: keywords moved, a search failed or ct-monitor ended

ctVars == <<keywords, monitor, stream, next, sought, age, queue, disturbed>>
monitorVars == <<keywords, monitor, stream, next, sought>>

NoCert == -1
Orders(set) == SetToSeqs(set)

CtInit ==
  /\ keywords = <<>> /\ monitor = FALSE /\ stream = "down"
  /\ next = 0 /\ sought = {}
  /\ age = [d \in CertDomains |-> NoCert]
  /\ queue = {} /\ disturbed = FALSE

-----------------------------------------------------------------------------
\* main: no keywords, no start.  The rows come in no order.
StartMonitor ==
  /\ ~monitor
  /\ keywords' \in Orders(Keywords)
  /\ monitor' = TRUE /\ stream' = "down" /\ next' = 0
  /\ UNCHANGED <<sought, age, queue, disturbed>>

\* It ends: by a signal, or by the slice that was read while it was assigned.
StopMonitor ==
  /\ monitor
  /\ monitor' = FALSE /\ stream' = "down" /\ keywords' = <<>> /\ next' = 0
  /\ disturbed' = TRUE
  /\ UNCHANGED <<sought, age, queue>>

\* reloadKeywordsLoop: in whatever order the rows now come; a failed query changes nothing,
\* and rows.Err is not asked, so that a part of the rows may be all.
Reload ==
  /\ monitor
  /\ \E found \in SUBSET Keywords : keywords' \in Orders(found)
  /\ disturbed' = (disturbed \/ keywords' # keywords)
  /\ UNCHANGED <<monitor, stream, next, sought, age, queue>>

\* streamLoop: connected, cut off (and tried again in 5 s), or silent: no deadline is set.
Connect ==
  /\ monitor /\ stream = "down"
  /\ stream' = "open"
  /\ UNCHANGED <<keywords, monitor, next, sought, age, queue, disturbed>>
Disconnect ==
  /\ stream = "open"
  /\ stream' = "down"
  /\ UNCHANGED <<keywords, monitor, next, sought, age, queue, disturbed>>
Stall ==
  /\ stream = "open"
  /\ stream' = "silent"
  /\ UNCHANGED <<keywords, monitor, next, sought, age, queue, disturbed>>

\* matches: the first keyword of the slice that fits.
Hint(d, kws) ==
  LET fit == {n \in DOMAIN kws : <<d, kws[n]>> \in Resembles}
  IN IF fit = {} THEN "none" ELSE kws[CHOOSE n \in fit : \A m \in fit : n <= m]

\* INSERT ... ON CONFLICT DO NOTHING; an error is only logged.
Enqueued(d, kws) == IF Hint(d, kws) = "none" THEN {} ELSE {[domain |-> d, hint |-> Hint(d, kws)]}

\* A certificate is logged, and reaches the stream or does not.
Certify(d) ==
  /\ age[d] = NoCert
  /\ age' = [age EXCEPT ![d] = 0]
  /\ queue' \in {queue} \cup IF stream = "open" THEN {queue \cup Enqueued(d, keywords)} ELSE {}
  /\ UNCHANGED <<monitorVars, disturbed>>

Older == [d \in CertDomains |-> IF age[d] \in 0..(Lookback - 1) THEN age[d] + 1 ELSE age[d]]

\* crt.sh's answer has the domains whose certificates hold the keyword, and other rows, in
\* an order of its own; old certificates are in it until they expire.
Listed(k) == {d \in CertDomains : age[d] # NoCert /\ <<d, k>> \in Holds}

\* The domains that the first PerKeyword rows may be about: all of them, if there is room.
FirstRows(k) ==
  {read \in SUBSET Listed(k) :
     \/ read = Listed(k) /\ Cardinality(read) <= PerKeyword
     \/ Cardinality(read) <= PerKeyword /\ PerKeyword <= Cardinality(read) + Others[k]}

\* crtshQuery: of the rows it reads, those of recent certificates.  The cap comes first.
Search(k) == {{d \in read : age[d] < Lookback} : read \in FirstRows(k)}

\* Faulty variant: the rotation begins anew with each cycle.
SoughtFirst == [n \in 1..IF PerCycle < Len(keywords) THEN PerCycle ELSE Len(keywords) |-> keywords[n]]

\* The keywords of a cycle: the next few, once round at most.
Sought ==
  [n \in 1..IF PerCycle < Len(keywords) THEN PerCycle ELSE Len(keywords)
     |-> keywords[((next + n - 1) % Len(keywords)) + 1]]

\* Where the rotation goes on.
Advanced == (next + Len(Sought)) % Len(keywords)

\* A cycle of crt.sh: each search may fail, and is not repeated before its turn comes again.
Cycle(failing) ==
  /\ monitor
  /\ \E found \in [ToSet(Sought) \ failing -> SUBSET CertDomains] :
       /\ \A k \in ToSet(Sought) \ failing : found[k] \in Search(k)
       /\ queue' = queue \cup
            UNION {Enqueued(d, keywords) : d \in UNION {found[k] : k \in ToSet(Sought) \ failing}}
  /\ next' = IF keywords = <<>> THEN next ELSE Advanced
  /\ sought' = IF keywords = <<>> THEN sought ELSE ToSet(Sought)
  /\ age' = Older
  /\ disturbed' = (disturbed \/ failing # {})
  /\ UNCHANGED <<keywords, monitor, stream>>

\* A cycle's time passes with no ct-monitor.
QuietCycle ==
  /\ ~monitor /\ Older # age
  /\ age' = Older
  /\ disturbed' = TRUE
  /\ UNCHANGED <<monitorVars, queue>>

CtNext ==
  \/ StartMonitor \/ StopMonitor \/ Reload
  \/ Connect \/ Disconnect \/ Stall
  \/ \E d \in CertDomains : Certify(d)
  \/ \E failing \in SUBSET ToSet(Sought) : Cycle(failing)
  \/ QuietCycle

\* The tickers of ct-monitor go on.
CtFairness == WF_ctVars(\E failing \in SUBSET ToSet(Sought) : Cycle(failing))
CtSpec == CtInit /\ [][CtNext]_ctVars /\ CtFairness

-----------------------------------------------------------------------------
CtTypeOK ==
  /\ ToSet(keywords) \subseteq Keywords
  /\ monitor \in BOOLEAN /\ stream \in {"down", "open", "silent"}
  /\ next \in 0..Cardinality(Keywords) /\ sought \subseteq Keywords
  /\ age \in [CertDomains -> NoCert..Lookback]
  /\ \A q \in queue : q.domain \in CertDomains /\ q.hint \in Keywords
  /\ disturbed \in BOOLEAN

\* All that crt.sh may ever have for the keyword is read.
FitsCap(k) == Cardinality({d \in CertDomains : <<d, k>> \in Holds}) + Others[k] <= PerKeyword

\* Domains that the keywords ct-monitor has would put into the queue, and crt.sh finds:
\* under a keyword whose answer is read to its end.
Listable(d) == Hint(d, keywords) # "none" /\ \E k \in ToSet(keywords) : <<d, k>> \in Holds
Findable(d) ==
  /\ Hint(d, keywords) # "none"
  /\ \E k \in ToSet(keywords) : <<d, k>> \in Holds /\ FitsCap(k)

\* main.go:36-37, 134-136: what the stream missed is found by the searches before crt.sh no
\* longer looks back so far, if the keywords can all have their turn by then and one of
\* those it is listed under has no more rows than are read: whatever the index was when the
\* certificate was logged, and whatever the cap cut off of the other keywords' answers.
MissedIsCaught ==
  (~disturbed /\ Cardinality(Keywords) <= PerCycle * Lookback) =>
    \A d \in CertDomains : age[d] = Lookback /\ Findable(d) => \E q \in queue : q.domain = d

\* What the stream missed is caught, in states ct-monitor can be in.
MissedAreCaught == CtTypeOK /\ MissedIsCaught

\* While the slice stays the same, each of its keywords is searched again and again,
\* although some searches fail and their number is no multiple of a cycle's.
EachHasItsTurn ==
  \A k \in Keywords :
    <>[][FALSE]_keywords /\ <>[](k \in ToSet(keywords)) => []<>(k \in sought)

\* The same for any slice with the keyword in it: but Postgres gives the rows in no order,
\* and a keyword may change places each time before its turn.
EachBrandHasItsTurn ==
  \A k \in Keywords : <>[](k \in ToSet(keywords)) => []<>(k \in sought)

\* main.go:36 "catch certs CertStream missed": any that resembles a brand.
AllMissedAreCaught ==
  (~disturbed /\ Cardinality(Keywords) <= PerCycle * Lookback) =>
    \A d \in CertDomains : age[d] = Lookback /\ Hint(d, keywords) # "none" =>
      \E q \in queue : q.domain = d

\* main.go:36 "catch certs CertStream missed", of any that crt.sh lists: not one that more
\* rows than the cap stand before, though they be of old certificates (main.go:216-219).
ListedAreCaught ==
  (~disturbed /\ Cardinality(Keywords) <= PerCycle * Lookback) =>
    \A d \in CertDomains : age[d] = Lookback /\ Listable(d) => \E q \in queue : q.domain = d

\* main.go:290-291: any label of the name may resemble the keyword, not the first alone.
AnyLabelCounts ==
  \A d \in CertDomains, k \in Keywords : <<d, k>> \in Holds => Hint(d, keywords) # "none" \/ keywords = <<>>
=============================================================================
