------------------------------- MODULE Ledger -------------------------------
(***************************************************************************)
(* The ledger of returned addresses: the resolver pushes what it answered  *)
(* to a client for a domain onto a Redis list of that pair, and            *)
(* verdict-api compares with it the address the browser connected to.      *)
(*                                                                         *)
(* An address is [kind, n]: its kind is the class that the resolver's      *)
(* rebinding filter and verdict-api's IsPrivateIP tell apart.  A ledger    *)
(* write is a goroutine of its own, so that writes take effect in any      *)
(* order; its pipeline is no transaction and may be cut off anywhere.      *)
(***************************************************************************)
EXTENDS Integers, Sequences, FiniteSets

CONSTANTS
  Clients, Domains,
  Answers,    \* what upstream may answer: sequences of [ip, ttl]
  MinTTL, MaxTTL, \* clamp of the writer (60 s, 24 h)
  Grace,      \* it adds to the life of a list (300 s)
  MaxEntries, \* length of a list (10)
  MaxNow,     \* bound on the clock
  MaxAnswers  \* bound on the answers

ASSUME LedgerBounds ==
  /\ \A a \in Answers : /\ Len(a) \in Nat /\ DOMAIN a = 1..Len(a)
                        /\ \A n \in DOMAIN a : a[n].ttl \in Nat
  /\ MaxNow \in Nat /\ MaxAnswers \in Nat
  /\ MinTTL \in Nat \ {0} /\ MaxTTL \in Nat /\ MinTTL <= MaxTTL
  /\ Grace \in Nat /\ MaxEntries \in Nat \ {0}

VARIABLES
  now,
  writes, \* ledger writes under way: [no, key, ips, ttl]
  lists,  \* Redis: key |-> sequence of [ip, ttl, ts]
  expiry, \* when the list goes, or Never
  told,   \* history: [key, ip] of every address given to a client
  answers \* given so far

ledgerVars == <<now, writes, lists, expiry, told, answers>>

Addresses == UNION {{a[n].ip : n \in DOMAIN a} : a \in Answers}

\* Key: of the pair, the same in both services.
Keys == Clients \X Domains
Never == -1

-----------------------------------------------------------------------------
(* Addresses *)

\* isPrivateOrReserved
Reserved(ip) ==
  ip.kind \in {"rfc1918", "ula", "loopback", "link_local", "multicast", "unspecified",
               "cgnat", "protocol", "documentation", "benchmark", "class_e"}

\* connid.IsPrivateIP: fewer kinds, for the rule that blocks a public name on them.
IsPrivateIP(ip) == ip.kind \in {"rfc1918", "ula", "loopback", "link_local", "cgnat"}

\* Filter: what remains of an answer.  With nothing left the client gets NXDOMAIN.
Filter(answer) ==
  LET upTo[n \in 0..Len(answer)] ==
        IF n = 0 THEN <<>>
        ELSE IF Reserved(answer[n].ip) THEN upTo[n - 1] ELSE Append(upTo[n - 1], answer[n])
  IN upTo[Len(answer)]

\* extractAnswers: the least TTL, but a minimum of zero counts as none yet.
MinOf(answer) ==
  LET upTo[n \in 0..Len(answer)] ==
        IF n = 0 THEN 0
        ELSE IF upTo[n - 1] = 0 \/ answer[n].ttl < upTo[n - 1] THEN answer[n].ttl ELSE upTo[n - 1]
  IN upTo[Len(answer)]

Clamp(ttl) == IF ttl < MinTTL THEN MinTTL ELSE IF ttl > MaxTTL THEN MaxTTL ELSE ttl

-----------------------------------------------------------------------------
LedgerInit ==
  /\ now = 0 /\ writes = {} /\ told = {} /\ answers = 0
  /\ lists = [k \in Keys |-> <<>>]
  /\ expiry = [k \in Keys |-> Never]

\* resolve: a query that is not sinkholed is answered with what upstream said, filtered,
\* and the addresses are handed to a goroutine.
Answer(k) ==
  /\ answers < MaxAnswers /\ answers' = answers + 1
  /\ \E answer \in Answers :
       LET given == Filter(answer) IN
       /\ given # <<>>
       /\ told' = told \cup {[key |-> k, ip |-> given[n].ip] : n \in DOMAIN given}
       /\ writes' = writes \cup
            {[no |-> answers, key |-> k, ttl |-> Clamp(MinOf(given)),
              ips |-> [n \in DOMAIN given |-> given[n].ip]]}
  /\ UNCHANGED <<now, lists, expiry>>

\* LPUSH of each address in turn.
Pushed(list, w, n) ==
  [m \in 1..n |-> [ip |-> w.ips[n + 1 - m], ttl |-> w.ttl, ts |-> now]] \o list
Cut(list) == SubSeq(list, 1, IF Len(list) > MaxEntries THEN MaxEntries ELSE Len(list))

\* Faulty variant: the list is that of the domain.
WriteShared(w) ==
  /\ lists' = [k \in Keys |-> IF k[2] = w.key[2] THEN Cut(Pushed(lists[k], w, Len(w.ips))) ELSE lists[k]]
  /\ expiry' = [k \in Keys |-> IF k[2] = w.key[2] THEN now + w.ttl + Grace ELSE expiry[k]]
  /\ writes' = writes \ {w}
  /\ UNCHANGED <<now, told, answers>>

\* Write: LPUSH, LTRIM, EXPIRE.
Write(w) ==
  /\ lists' = [lists EXCEPT ![w.key] = Cut(Pushed(@, w, Len(w.ips)))]
  /\ expiry' = [expiry EXCEPT ![w.key] = now + w.ttl + Grace]
  /\ writes' = writes \ {w}
  /\ UNCHANGED <<now, told, answers>>

\* The connection is lost, or the 500 ms are over, after n pushes and perhaps the trim.
WriteCut(w) ==
  /\ \E n \in 0..Len(w.ips) :
       \E list \in {Pushed(lists[w.key], w, n)}
                     \cup IF n = Len(w.ips) THEN {Cut(Pushed(lists[w.key], w, n))} ELSE {} :
         lists' = [lists EXCEPT ![w.key] = list]
  /\ writes' = writes \ {w}
  /\ UNCHANGED <<now, expiry, told, answers>>

\* Time passes; Redis drops the lists that have expired.
Tick ==
  /\ now < MaxNow
  /\ now' = now + 1
  /\ LET gone == {k \in Keys : expiry[k] # Never /\ expiry[k] <= now + 1} IN
       /\ lists' = [k \in Keys |-> IF k \in gone THEN <<>> ELSE lists[k]]
       /\ expiry' = [k \in Keys |-> IF k \in gone THEN Never ELSE expiry[k]]
  /\ UNCHANGED <<writes, told, answers>>

\* Redis restarts without its lists; the resolver restarts without its goroutines.
RedisLost ==
  /\ lists' = [k \in Keys |-> <<>>] /\ expiry' = [k \in Keys |-> Never]
  /\ UNCHANGED <<now, writes, told, answers>>
ResolverLost == writes' = {} /\ UNCHANGED <<now, lists, expiry, told, answers>>

LedgerNext ==
  \/ \E k \in Keys : Answer(k)
  \/ \E w \in writes : Write(w) \/ WriteCut(w)
  \/ Tick \/ RedisLost \/ ResolverLost
LedgerSpec == LedgerInit /\ [][LedgerNext]_ledgerVars

-----------------------------------------------------------------------------
(* verdict-api *)

\* iledger.Recent: entries inside their own TTL.
Recent(k) == {e \in {lists[k][n] : n \in DOMAIN lists[k]} : e.ts + e.ttl >= now}

\* CompareLedger, with the opt-in that is always off.
Compare(k, ip) ==
  CASE Recent(k) = {} -> "cold"
    [] \E e \in Recent(k) : e.ip = ip -> "match"
    [] OTHER -> "mismatch"

-----------------------------------------------------------------------------
LedgerTypeOK ==
  /\ now \in 0..MaxNow
  /\ \A w \in writes : w.key \in Keys /\ w.ttl \in MinTTL..MaxTTL
  /\ \A k \in Keys : /\ \A n \in DOMAIN lists[k] : lists[k][n].ip \in Addresses
                     /\ expiry[k] = Never \/ expiry[k] > now

\* A browser's address that "matches" is one the resolver gave to this very client for
\* this very domain, whatever was answered to others, however late the writes came.
\* (Its TTL then may be over: the ledger counts from the write, not from the answer.)
MatchWasTold ==
  \A k \in Keys, ip \in Addresses :
    Compare(k, ip) = "match" => \E t \in told : t.key = k /\ t.ip = ip

\* Nothing counts as a match for longer than the clamp allows after it was written.
MatchIsRecent ==
  \A k \in Keys, ip \in Addresses :
    Compare(k, ip) = "match" =>
      \E n \in DOMAIN lists[k] : lists[k][n].ip = ip /\ now - lists[k][n].ts <= MaxTTL

\* The two services' lists of address classes are separate: an address on which
\* verdict-api blocks a public name is never one the resolver vouches for.
PrivateNeverMatches ==
  \A k \in Keys, ip \in Addresses : IsPrivateIP(ip) => Compare(k, ip) # "match"

\* An entry never goes from stale to fresh: an address that stopped to match does so
\* again only if a write brings it.
StaleStaysStale ==
  [][\A k \in Keys, ip \in Addresses :
       (Compare(k, ip) # "match" /\ Compare(k, ip)' = "match")
         => \E w \in writes \ writes' : w.key = k /\ \E n \in DOMAIN w.ips : w.ips[n] = ip]_ledgerVars

\* The ledger vouches for an address only as the resolver did: to the client it was told,
\* for as long as that may be believed, and never for an address that is blocked.
LedgerIsFaithful ==
  /\ [](LedgerTypeOK /\ MatchWasTold /\ MatchIsRecent /\ PrivateNeverMatches)
  /\ StaleStaysStale

\* iledger.go:36 "The grace window lets verdict-api still find the entry when the browser
\* connects right at TTL expiry": an entry the list holds is found for the grace, too.
GraceIsUsed ==
  \A k \in Keys : \A n \in DOMAIN lists[k] :
    LET e == lists[k][n] IN now <= e.ts + e.ttl + Grace => e \in Recent(k)

\* iledger.go:34-35: EXPIRE to the max observed TTL plus GraceSeconds.
OutlivesItsEntries ==
  \A k \in Keys : expiry[k] # Never =>
    \A n \in DOMAIN lists[k] : expiry[k] >= lists[k][n].ts + lists[k][n].ttl + Grace
=============================================================================
