----------------------------- MODULE Registries -----------------------------
(***************************************************************************)
(* The registries verdict-api keeps in memory: brand_hosts (brandgraph     *)
(* Store), brands (registry Cache) and oauth_clients (oauthreg Cache), each *)
(* a copy of a Postgres table; and the lookups that decide whether a host  *)
(* is a brand's own, over that copy and over the curated lists that are    *)
(* compiled in: brandgraph's stub maps, which give a host to a scope, and  *)
(* trustreg, which knows none, and from which they are filled up.          *)
(*                                                                         *)
(* A host is the sequence of its labels.  A Postgres connection may be     *)
(* lost while the rows are read: the loop then just ends, and nobody asks  *)
(* rows.Err, so that what came so far is taken for the table.              *)
(***************************************************************************)
EXTENDS Integers, Sequences, FiniteSets

CONSTANTS
  HostRows,   \* rows brand_hosts may have: [brand, key: labels, wild, scope]
  OtherRows,  \* rows brands and oauth_clients may have
  Scoped,     \* brandgraph's own stub maps: [brand, key, wild, scope]
  Curated,    \* trustreg's list, of the same form: as rows of the stub, of full trust
  Local,      \* the operator's hosts (XGG_LOCAL_TRUSTED_HOSTS), of the same form
  AskedHosts, \* hosts that are asked about
  LabelTails, \* pairs of different labels of which the first ends in the second
  MaxEdits    \* bound on the changes of the tables

AllScopes == {"full-trust", "login", "docs"}
ASSUME CuratedAssumption ==
  /\ \A r \in Curated \cup Local : r.scope = "full-trust"
  /\ \A r \in Scoped \cup Curated : r.wild \in BOOLEAN
ASSUME EditsAssumption == MaxEdits \in Nat

VARIABLES
  table,   \* Postgres: table name |-> rows
  cache,   \* verdict-api: table name |-> rows in memory
  enabled, \* the caches consulted
  ticking, \* the caches with a goroutine that reloads them
  up,      \* the process runs
  changes  \* of the tables so far

regVars == <<table, cache, enabled, ticking, up, changes>>

Tables == {"brand_hosts", "brands", "oauth_clients"}
Tickers == {"brands", "oauth_clients"}
RowsOf(t) == IF t = "brand_hosts" THEN HostRows ELSE OtherRows

-----------------------------------------------------------------------------
(* Lookups *)

\* strings.HasSuffix, a key without its dot in front: the first label may be longer.
EndsIn(h, key) ==
  /\ Len(h) >= Len(key)
  /\ \A n \in 2..Len(key) : h[Len(h) - Len(key) + n] = key[n]
  /\ LET l == h[Len(h) - Len(key) + 1] IN l = key[1] \/ <<l, key[1]>> \in LabelTails
\* The same with a key that begins with a dot.
Under(h, key) ==
  Len(h) > Len(key) /\ SubSeq(h, Len(h) - Len(key) + 1, Len(h)) = key

Serves(r, scope) == r.scope \in {"full-trust", scope}
ExactIn(rows, h) == {r \in rows : ~r.wild /\ r.key = h}
SuffixIn(rows, h) == {r \in rows : r.wild /\ EndsIn(h, r.key)}

\* backfillFromTrustreg: what the stub maps have of their own is preserved.
Backfilled == {r \in Curated : ~\E own \in Scoped : own.key = r.key /\ own.wild = r.wild}
Stub == Scoped \cup Backfilled
StubExact(h) == {r \in Stub : ~r.wild /\ r.key = h}
StubSuffix(h) == {r \in Stub : r.wild /\ Under(h, r.key)}

\* The rows of the store, if there is one.
Store == IF "brand_hosts" \in enabled THEN cache["brand_hosts"] ELSE {}

\* Store.trust: brands it may answer, since a map is walked in any order.
StoreTrust(h, scope) ==
  LET exact == {r \in ExactIn(Store, h) : Serves(r, scope)}
      suffix == {r \in SuffixIn(Store, h) : Serves(r, scope)}
  IN {r.brand : r \in IF exact # {} THEN exact ELSE suffix}

\* The rest of Trust: brands the stub maps may answer, for the scope only.
StubTrust(h, scope) ==
  LET exact == {r \in StubExact(h) : Serves(r, scope)}
      suffix == {r \in StubSuffix(h) : Serves(r, scope)}
  IN {r.brand : r \in IF exact # {} THEN exact ELSE suffix}

\* Faulty variant: the store, once there is one, is all that is asked.
TrustStoreOnly(h, scope) ==
  IF "brand_hosts" \in enabled THEN StoreTrust(h, scope)
  ELSE StubTrust(h, scope)

\* Trust
Trust(h, scope) ==
  IF StoreTrust(h, scope) # {} THEN StoreTrust(h, scope) ELSE StubTrust(h, scope)

\* IsAnyTrust
IsAnyTrust(h) ==
  ExactIn(Store, h) \cup SuffixIn(Store, h) \cup StubExact(h) \cup StubSuffix(h) # {}

\* BrandFor
BrandFor(h) ==
  {r.brand : r \in IF ExactIn(Store, h) # {} THEN ExactIn(Store, h)
                   ELSE IF SuffixIn(Store, h) # {} THEN SuffixIn(Store, h)
                   ELSE IF StubExact(h) # {} THEN StubExact(h) ELSE StubSuffix(h)}

\* trustreg.IsTrusted: with the operator's hosts, which no other registry knows.
Lists(r, h) == IF r.wild THEN Under(h, r.key) ELSE r.key = h
IsTrusted(h) == \E r \in Curated \cup Local : Lists(r, h)

\* TrustedBrandMatch, as buildPolicyInputs asks for it.
TrustedAny(h) == IsAnyTrust(h) \/ IsTrusted(h)

\* oauthreg.Inspect: a client that is asked about is known; with no cache nobody asks.
ClientAccepted(c) == "oauth_clients" \notin enabled \/ c \in cache["oauth_clients"]

-----------------------------------------------------------------------------
RegInit ==
  /\ table = [t \in Tables |-> {}]
  /\ cache = [t \in Tables |-> {}]
  /\ enabled = {} /\ ticking = {}
  /\ up = FALSE
  /\ changes = 0

\* An operator or the migrator writes or deletes a row.
ChangeTable(t) ==
  /\ changes < MaxEdits
  /\ \E r \in RowsOf(t) :
       table' = [table EXCEPT ![t] = IF r \in @ THEN @ \ {r} ELSE @ \cup {r}]
  /\ changes' = changes + 1
  /\ UNCHANGED <<cache, enabled, ticking, up>>

\* What a load may find: all rows, or those before the connection was lost.
Found(t) == SUBSET table[t]

\* Start: a load that fails returns before the ticker is started.
Ticking(loaded) == loaded \cap Tickers

\* main: each registry is loaded once; if that fails it stays empty (brands) or is not
\* consulted (the others), and none is tried again.  Only two have a ticker.
Boot ==
  /\ ~up
  /\ \E loaded \in SUBSET Tables, hosts \in Found("brand_hosts"), brands \in Found("brands"),
        clients \in Found("oauth_clients") :
       /\ cache' = [t \in Tables |-> IF t \notin loaded THEN {}
                                     ELSE CASE t = "brand_hosts" -> hosts
                                            [] t = "brands" -> brands
                                            [] t = "oauth_clients" -> clients]
       /\ enabled' = loaded \cup {"brands"}
       /\ ticking' = Ticking(loaded)
  /\ up' = TRUE
  /\ UNCHANGED <<table, changes>>

\* Faulty variant: it reloads only when there are more rows than before.
RefreshIfMore(t) ==
  /\ up /\ t \in ticking
  /\ Cardinality(table[t]) > Cardinality(cache[t])
  /\ cache' = [cache EXCEPT ![t] = table[t]]
  /\ UNCHANGED <<table, enabled, ticking, up, changes>>

\* The ticker fires and the query succeeds to the end.
Refresh(t) ==
  /\ up /\ t \in ticking
  /\ cache' = [cache EXCEPT ![t] = table[t]]
  /\ UNCHANGED <<table, enabled, ticking, up, changes>>

\* It breaks off: the rows read so far are the new cache.
RefreshCut(t) ==
  /\ up /\ t \in ticking
  /\ \E found \in Found(t) : cache' = [cache EXCEPT ![t] = found]
  /\ UNCHANGED <<table, enabled, ticking, up, changes>>

\* The process ends, and with it all it had in memory.
Crash ==
  /\ up
  /\ up' = FALSE
  /\ cache' = [t \in Tables |-> {}] /\ enabled' = {} /\ ticking' = {}
  /\ UNCHANGED <<table, changes>>

RegNext ==
  \/ \E t \in Tables : ChangeTable(t) \/ Refresh(t) \/ RefreshCut(t)
  \/ Boot \/ Crash

\* The tickers go on, and now and then a query gets through.
RegFairness == \A t \in Tickers : SF_regVars(Refresh(t))
RegSpec == RegInit /\ [][RegNext]_regVars /\ RegFairness

-----------------------------------------------------------------------------
RegTypeOK ==
  /\ \A t \in Tables : table[t] \subseteq RowsOf(t) /\ cache[t] \subseteq RowsOf(t)
  /\ ticking \subseteq enabled /\ enabled \subseteq Tables
  /\ up \in BOOLEAN /\ ~up => enabled = {}
  /\ changes \in 0..MaxEdits

\* The three lookups are separate code over the same maps: what is trusted for any
\* scope is known at all, and what is known has a brand.
LookupsAgree ==
  \A h \in AskedHosts :
    /\ \A s \in AllScopes : Trust(h, s) # {} => IsAnyTrust(h)
    /\ IsAnyTrust(h) <=> BrandFor(h) # {}

\* What the compiled-in maps give a host for a scope it keeps, and who is on trustreg's
\* list is known (backfill_test.go:13), whatever the tables hold, however much of them was
\* read, before the first load and after a crash.
CompiledInServes ==
  \A h \in AskedHosts :
    /\ \A s \in AllScopes :
         (\E r \in StubExact(h) \cup StubSuffix(h) : Serves(r, s)) =>
           Trust(h, s) # {} /\ TrustedAny(h)
    /\ (\E r \in Curated : Lists(r, h)) => IsAnyTrust(h)

\* brandgraph_test.go:24, backfill_test.go:31: trust for one scope is none for another: a row
\* of the store or of the compiled-in maps gives the scope, and a row that those maps have of
\* their own is not widened by trustreg's of the same name.
ScopesAreKept ==
  \A h \in AskedHosts, s \in AllScopes :
    Trust(h, s) # {} =>
      \/ \E r \in ExactIn(Store, h) \cup SuffixIn(Store, h) : Serves(r, s)
      \/ \E r \in Scoped : Lists(r, h) /\ Serves(r, s)
      \/ \E r \in Curated : Lists(r, h) /\ ~\E own \in Scoped : own.key = r.key /\ own.wild = r.wild

\* Through loads cut short, changes and crashes, the lookups agree with one another, and the
\* compiled-in maps give what they are for and no more.
RegistriesHold == RegTypeOK /\ LookupsAgree /\ CompiledInServes /\ ScopesAreKept

\* What stays in a table is served in the end by a cache with a ticker, however many
\* of its reloads are cut short.
TickingCatchesUp ==
  \A t \in Tables : \A r \in RowsOf(t) :
    <>[](t \in ticking /\ r \in table[t]) => []<>(r \in cache[t])

\* store.go:3-4: brand_hosts is loaded at startup and refreshed periodically.
BrandHostsCatchUp ==
  \A r \in HostRows :
    <>[]("brand_hosts" \in enabled /\ r \in table["brand_hosts"])
      => []<>(r \in cache["brand_hosts"])

\* store.go:124-125: the longest suffix wins.
LongestSuffixWins ==
  \A h \in AskedHosts : Cardinality(BrandFor(h)) <= 1

\* A client that the table has had since before the last load is known.
KnownClientAccepted ==
  [][\A c \in OtherRows : ClientAccepted(c) /\ c \in table["oauth_clients"] => ClientAccepted(c)']_regVars
=============================================================================
