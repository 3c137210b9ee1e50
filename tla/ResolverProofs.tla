--------------------------- MODULE ResolverProofs ---------------------------
(***************************************************************************)
(* Theorems about the resolver of Resolver.                                *)
(***************************************************************************)
EXTENDS Resolver, TLAPS

\* A listed name is in the filter, unless its line was cut in two when the filter was
\* built from the file and no other name happens to collide with it.
Cut == Split \ Collisions

\* A query that saw the lists at rest, and Redis answer, for a name on both of them.
OnTheLists(r) ==
  r.calm /\ ~r.erred /\ r.domain \in (strict \cap filter) \ (NeverBlock \cup Cut)

\* Such a query is refused, or has not been past the strict list yet.
ListedGoesNoFurther(r) ==
  OnTheLists(r) => r.pc \in {"strict", "strictSet"} \/ (r.pc = "done" /\ r.answer = "nx")

\* What is stored is an answer of verdict-api.
StoresAnAnswer(r) == r.pc = "store" => r.kind \in Kinds

\* What a query found in the cache and did not use was no verdict, and is none later.
MissedForCause(r) == r.missed # None => r.missed.kind = "unknown" \/ ~Valid(r.missed)

QueriesAreSound ==
  \A q \in Queries : query[q] # None =>
    ListedGoesNoFurther(query[q]) /\ StoresAnAnswer(query[q]) /\ MissedForCause(query[q])

\* A fetch that nothing disturbs has brought this far what it got.
FetchIsThisFar ==
  faults = 0 =>
    /\ fetcher \in {"idle", "addWeak", "write", "signal"} => strict = fetched.strict
    /\ fetcher \in {"idle", "write", "signal"} => weak = fetched.weak
    /\ fetcher \in {"idle", "signal"} => file = fetched.strict

\* Unless a signal is still to be sent, the file is in the filter, or in what a reload
\* has read, or a signal waits.
FileIsLoaded ==
  faults = 0 /\ fetcher # "signal" =>
    hup \/ (loading # None /\ loading.from = file) \/ (loading = None /\ filter = file)

IInv == TypeOK /\ QueriesAreSound /\ FetchIsThisFar /\ FileIsLoaded

-----------------------------------------------------------------------------
(* Queries, and what the steps make of them *)

LEMMA Parts ==
  ASSUME NEW r \in QueryRecords
  PROVE  /\ r.domain \in Domains /\ r.popular \in BOOLEAN /\ r.pc \in Steps
         /\ r.used \in Kinds /\ r.answer \in OrNone(Replies) /\ r.calm \in BOOLEAN
         /\ r.erred \in BOOLEAN /\ r.kind \in OrNone(Kinds) /\ r.missed \in OrNone(Entries)
         /\ r # None
BY NoneAssumption DEF QueryRecords

\* Where Goto and a read that failed leave a query, what a decision makes of it, and what
\* a change of the lists does.
Gone(r, pc, erred) == [r EXCEPT !.pc = pc, !.erred = erred]
Made(r, used, pc, answer) ==
  [r EXCEPT !.pc = pc, !.used = used, !.answer = answer, !.kind = None, !.missed = None]
Upset(r) == [r EXCEPT !.calm = FALSE]

LEMMA GoneParts ==
  ASSUME NEW r \in QueryRecords, NEW pc \in Steps, NEW erred \in BOOLEAN
  PROVE  LET s == Gone(r, pc, erred) IN
         /\ s \in QueryRecords
         /\ s.pc = pc /\ s.erred = erred
         /\ s.domain = r.domain /\ s.answer = r.answer /\ s.calm = r.calm /\ s.kind = r.kind
         /\ s.missed = r.missed
BY DEF QueryRecords, Gone

LEMMA MadeParts ==
  ASSUME NEW r \in QueryRecords, NEW used \in Kinds, NEW pc \in Steps,
         NEW answer \in OrNone(Replies)
  PROVE  LET s == Made(r, used, pc, answer) IN
         /\ s \in QueryRecords
         /\ s.pc = pc /\ s.answer = answer /\ s.missed = None
         /\ s.domain = r.domain /\ s.calm = r.calm /\ s.erred = r.erred
BY DEF QueryRecords, OrNone, Made

LEMMA UpsetParts ==
  ASSUME NEW r \in QueryRecords
  PROVE  LET s == Upset(r) IN
         /\ s \in QueryRecords /\ ~s.calm
         /\ s.pc = r.pc /\ s.answer = r.answer /\ s.kind = r.kind /\ s.missed = r.missed
BY DEF QueryRecords, Upset

LEMMA TimesToLive == ASSUME TypeOK, NEW kind \in Kinds PROVE TTLOf(kind) \in OrNone(Nat)
BY TimesAssumption DEF TypeOK, Kinds, TTLOf, OrNone

-----------------------------------------------------------------------------
(* The inductive invariant *)

LEMMA InitOK == Init => IInv
<1> SUFFICES ASSUME Init PROVE IInv
  OBVIOUS
<1> USE DEF Init, OrNone
<1>1. fetched.strict \in SUBSET Domains /\ fetched.weak \in SUBSET Domains
  BY DEF Lists
<1>2. TypeOK
  BY <1>1 DEF TypeOK
<1>3. QueriesAreSound
  BY DEF QueriesAreSound
<1>4. FetchIsThisFar /\ FileIsLoaded
  BY DEF FetchIsThisFar, FileIsLoaded
<1> QED
  BY <1>2, <1>3, <1>4 DEF IInv

\* A step of one query that leaves the lists alone is judged by what the query is after it.
LEMMA QueryMoves ==
  ASSUME IInv, NEW q \in Queries, NEW s \in OrNone(QueryRecords),
         query' = [query EXCEPT ![q] = s],
         s # None => /\ (s.answer = None) = (s.pc # "done")
                     /\ ListedGoesNoFurther(s) /\ StoresAnAnswer(s) /\ MissedForCause(s),
         verdict' \in [Domains -> OrNone(Entries)], asked' \in Nat, faults' \in Nat,
         faults' = 0 => faults = 0,
         UNCHANGED <<now, lists>>
  PROVE  IInv'
<1> USE DEF lists
<1>1. query' \in [Queries -> OrNone(QueryRecords)]
  BY DEF IInv, TypeOK
<1>2. query'[q] = s /\ \A p \in Queries \ {q} : query'[p] = query[p]
  BY DEF IInv, TypeOK
<1>3. \A p \in Queries : query'[p] # None =>
        (query'[p].answer = None) = (query'[p].pc # "done")
  BY <1>2 DEF IInv, TypeOK
<1>4. TypeOK'
  BY <1>1, <1>3 DEF IInv, TypeOK
<1>5. QueriesAreSound'
  <2> SUFFICES ASSUME NEW p \in Queries, query'[p] # None
               PROVE  /\ ListedGoesNoFurther(query[p])' /\ StoresAnAnswer(query[p])'
                      /\ MissedForCause(query[p])'
    BY DEF QueriesAreSound
  <2> DEFINE r == query'[p]
  <2>1. r # None /\ ListedGoesNoFurther(r) /\ StoresAnAnswer(r) /\ MissedForCause(r)
    BY <1>2 DEF IInv, QueriesAreSound
  <2> QED
    BY <2>1 DEF ListedGoesNoFurther, OnTheLists, StoresAnAnswer, MissedForCause, Valid
<1>6. FetchIsThisFar' /\ FileIsLoaded'
  BY DEF IInv, FetchIsThisFar, FileIsLoaded
<1> QED
  BY <1>4, <1>5, <1>6 DEF IInv

\* The three ways a query moves on.
LEMMA QueryGoes ==
  ASSUME IInv, NEW q \in Queries, query[q] # None, query[q].pc # "done",
         NEW pc \in Steps \ {"store", "done"}, NEW erred \in BOOLEAN,
         query' = [query EXCEPT ![q] = Gone(query[q], pc, erred)],
         erred \/ erred = query[q].erred,
         ~erred /\ OnTheLists(query[q]) => pc \in {"strict", "strictSet"},
         verdict' = verdict, asked' = asked, faults' \in Nat, faults' = 0 => faults = 0,
         UNCHANGED <<now, lists>>
  PROVE  IInv'
<1> DEFINE r == query[q]
           s == Gone(r, pc, erred)
<1>1. r \in QueryRecords
  BY DEF IInv, TypeOK, OrNone
<1>4. query' = [query EXCEPT ![q] = s]
  OBVIOUS
<1>3. /\ (r.answer = None) = (r.pc # "done")
      /\ ListedGoesNoFurther(r) /\ StoresAnAnswer(r) /\ MissedForCause(r)
  BY DEF IInv, TypeOK, QueriesAreSound
<1>2. /\ s \in QueryRecords /\ s.pc = pc /\ s.erred = erred
      /\ s.domain = r.domain /\ s.answer = r.answer /\ s.calm = r.calm /\ s.kind = r.kind
      /\ s.missed = r.missed
  BY <1>1, GoneParts
<1> HIDE DEF r, s
<1>5. (s.answer = None) = (s.pc # "done")
  BY <1>2, <1>3 DEF r
<1>6. ListedGoesNoFurther(s)
  BY <1>2 DEF ListedGoesNoFurther, OnTheLists, r
<1>7. StoresAnAnswer(s) /\ MissedForCause(s)
  BY <1>2, <1>3 DEF StoresAnAnswer, MissedForCause
<1>8. verdict' \in [Domains -> OrNone(Entries)] /\ asked' \in Nat
  BY DEF IInv, TypeOK
<1> QED
  BY <1>2, <1>4, <1>5, <1>6, <1>7, <1>8, QueryMoves DEF OrNone

LEMMA QueryDecides ==
  ASSUME IInv, NEW q \in Queries, query[q] # None, NEW used \in Kinds,
         NEW pc, NEW answer,
         query' = [query EXCEPT ![q] = Made(query[q], used, pc, answer)],
         \/ pc = "done" /\ answer = "nx"
         \/ pc = "upstream" /\ answer = None /\ ~OnTheLists(query[q]),
         verdict' \in [Domains -> OrNone(Entries)], asked' = asked, faults' \in Nat,
         faults' = 0 => faults = 0,
         UNCHANGED <<now, lists>>
  PROVE  IInv'
<1> DEFINE r == query[q]
           s == Made(r, used, pc, answer)
<1>1. r \in QueryRecords
  BY DEF IInv, TypeOK, OrNone
<1>2. pc \in Steps /\ answer \in OrNone(Replies)
  BY DEF Steps, OrNone, Replies
<1>4. query' = [query EXCEPT ![q] = s]
  OBVIOUS
<1>3. /\ s \in QueryRecords /\ s.pc = pc /\ s.answer = answer /\ s.missed = None
      /\ s.domain = r.domain /\ s.calm = r.calm /\ s.erred = r.erred
  BY <1>1, <1>2, MadeParts
<1> HIDE DEF r, s
<1>5. (s.answer = None) = (s.pc # "done")
  BY <1>3, NoneAssumption DEF Replies
<1>6. ListedGoesNoFurther(s)
  BY <1>3 DEF ListedGoesNoFurther, OnTheLists, r
<1>7. StoresAnAnswer(s) /\ MissedForCause(s)
  BY <1>3 DEF StoresAnAnswer, MissedForCause
<1>8. asked' \in Nat
  BY DEF IInv, TypeOK
<1> QED
  BY <1>3, <1>4, <1>5, <1>6, <1>7, <1>8, QueryMoves DEF OrNone

-----------------------------------------------------------------------------
(* The steps of a query *)

\* Goto and Decide in the words of the lemmas above.
LEMMA Jumps ==
  ASSUME IInv, NEW q \in Queries, NEW at, At(q, at), at # "done",
         NEW pc \in Steps \ {"store", "done"}, Goto(q, pc),
         OnTheLists(query[q]) => pc \in {"strict", "strictSet"},
         UNCHANGED <<now, verdict, lists, asked, faults>>
  PROVE  IInv'
<1>1. query[q] \in QueryRecords /\ query[q] # None /\ query[q].pc # "done"
  BY DEF IInv, TypeOK, OrNone, At
<1>2. Gone(query[q], pc, query[q].erred) = [query[q] EXCEPT !.pc = pc]
  BY <1>1 DEF Gone, QueryRecords
<1>3. query' = [query EXCEPT ![q] = Gone(query[q], pc, query[q].erred)]
  BY <1>2 DEF Goto
<1>4. query[q].erred \in BOOLEAN
  BY <1>1, Parts
<1>5. faults' \in Nat
  BY DEF IInv, TypeOK
<1> QED
  BY <1>1, <1>3, <1>4, <1>5, QueryGoes

LEMMA Decisions ==
  ASSUME IInv, NEW q \in Queries, NEW at, At(q, at), at # "done", NEW used \in Kinds,
         \/ Refuse(q, used)
         \/ Forward(q, used) /\ ~OnTheLists(query[q]),
         verdict' \in [Domains -> OrNone(Entries)], asked' = asked, faults' \in Nat,
         faults' = 0 => faults = 0,
         UNCHANGED <<now, lists>>
  PROVE  IInv'
<1>1. query[q] # None
  BY DEF At
<1>2. CASE Refuse(q, used)
  <2>1. query' = [query EXCEPT ![q] = Made(query[q], used, "done", "nx")]
    BY <1>2 DEF Refuse, Decide, Made
  <2> QED
    BY <1>1, <2>1, QueryDecides
<1>3. CASE Forward(q, used) /\ ~OnTheLists(query[q])
  <2>1. query' = [query EXCEPT ![q] = Made(query[q], used, "upstream", None)]
    BY <1>3 DEF Forward, Decide, Made
  <2> QED
    BY <1>1, <1>3, <2>1, QueryDecides
<1> QED
  BY <1>2, <1>3

\* Past the strict list no query is left that was on the lists.
LEMMA Past ==
  ASSUME IInv, NEW q \in Queries, NEW at, At(q, at), at \notin {"strict", "strictSet", "done"}
  PROVE  ~OnTheLists(query[q])
BY DEF IInv, QueriesAreSound, ListedGoesNoFurther, At

LEMMA AskOK ==
  ASSUME IInv, NEW q \in Queries, NEW d \in Domains, NEW p \in BOOLEAN, Ask(q, d, p)
  PROVE  IInv'
<1> DEFINE s == [domain |-> d, popular |-> p,
                 pc |-> IF d \in NeverBlock THEN "upstream" ELSE "strict",
                 used |-> IF d \in NeverBlock THEN "clean" ELSE "unknown", answer |-> None,
                 calm |-> TRUE, erred |-> FALSE, kind |-> None, missed |-> None]
<1>1. s \in QueryRecords
  BY DEF QueryRecords, OrNone, Steps, Kinds
<1>2. query' = [query EXCEPT ![q] = s] /\ UNCHANGED <<now, verdict, lists, faults>>
  BY DEF Ask
<1>3. verdict' \in [Domains -> OrNone(Entries)] /\ asked' \in Nat /\ faults' \in Nat
  BY DEF Ask, IInv, TypeOK
<1>4. s.answer = None /\ s.pc # "done" /\ ListedGoesNoFurther(s) /\ StoresAnAnswer(s)
      /\ MissedForCause(s)
  BY DEF ListedGoesNoFurther, OnTheLists, StoresAnAnswer, MissedForCause
<1> HIDE DEF s
<1> QED
  BY <1>1, <1>2, <1>3, <1>4, QueryMoves DEF OrNone

LEMMA ResolveOK == ASSUME IInv, NEW q \in Queries, Resolve(q) PROVE IInv'
<1> DEFINE r == query[q]
<1>1. r # None => r \in QueryRecords
  BY DEF IInv, TypeOK, OrNone
<1>2. verdict \in [Domains -> OrNone(Entries)] /\ faults \in Nat
  BY DEF IInv, TypeOK
<1>3. ASSUME ProbeStrict(q) PROVE IInv'
  <2>1. OnTheLists(r) => BlockHas(r.domain)
    BY DEF OnTheLists, BlockHas, Cut
  <2>2. PICK pc \in {"strictSet", "allow"} : Goto(q, pc) /\ (BlockHas(r.domain) => pc = "strictSet")
    BY <1>3 DEF ProbeStrict
  <2> QED
    BY <1>3, <2>1, <2>2, Jumps DEF ProbeStrict, Steps
<1>4. ASSUME ReadStrict(q) PROVE IInv'
  <2>1. CASE r.domain \in strict
    BY <1>2, <1>4, <2>1, Decisions DEF ReadStrict, Kinds
  <2>2. CASE r.domain \notin strict
    BY <1>4, <2>2, Jumps DEF ReadStrict, Steps, OnTheLists
  <2> QED
    BY <2>1, <2>2
<1>5. ASSUME ReadAllow(q) PROVE IInv'
  <2>1. ~OnTheLists(r)
    BY <1>5, Past DEF ReadAllow
  <2>2. CASE r.popular
    BY <1>2, <1>5, <2>1, <2>2, Decisions DEF ReadAllow, Kinds
  <2>3. CASE ~r.popular
    BY <1>5, <2>1, <2>3, Jumps DEF ReadAllow, Steps
  <2> QED
    BY <2>2, <2>3
<1>6. ASSUME ProbeWeak(q) PROVE IInv'
  <2>1. ~OnTheLists(r)
    BY <1>6, Past DEF ProbeWeak
  <2>2. PICK pc \in {"weakSet", "cache"} : Goto(q, pc)
    BY <1>6 DEF ProbeWeak
  <2> QED
    BY <1>6, <2>1, <2>2, Jumps DEF ProbeWeak, Steps
<1>7. ASSUME ReadWeak(q) PROVE IInv'
  <2>1. ~OnTheLists(r)
    BY <1>7, Past DEF ReadWeak
  <2>2. CASE r.domain \in weak
    BY <1>2, <1>7, <2>1, <2>2, Decisions DEF ReadWeak, Kinds
  <2>3. CASE r.domain \notin weak
    BY <1>7, <2>1, <2>3, Jumps DEF ReadWeak, Steps
  <2> QED
    BY <2>2, <2>3
<1>8. ASSUME ReadCache(q) PROVE IInv'
  <2> DEFINE e == verdict[r.domain]
             s == [r EXCEPT !.pc = "tier1", !.missed = e]
  <2>1. At(q, "cache") /\ ~OnTheLists(r) /\ UNCHANGED <<now, verdict, lists, asked, faults>>
    BY <1>8, Past DEF ReadCache
  <2>2. r \in QueryRecords /\ r # None /\ e \in OrNone(Entries)
    BY <1>1, <1>2, <2>1, Parts DEF At
  <2>3. CASE ~Valid(e) \/ e.kind = "unknown"
    <3>1. query' = [query EXCEPT ![q] = s]
      BY <1>8, <2>3 DEF ReadCache
    <3>2. /\ s \in QueryRecords /\ s.pc = "tier1" /\ s.missed = e /\ s.domain = r.domain
          /\ s.answer = r.answer /\ s.calm = r.calm /\ s.erred = r.erred
      BY <2>2 DEF QueryRecords, Steps
    <3>3. r.pc = "cache" /\ r.answer = None
      BY <2>1 DEF At, IInv, TypeOK
    <3> HIDE DEF s, e
    <3>4. ListedGoesNoFurther(s) /\ StoresAnAnswer(s) /\ MissedForCause(s)
      BY <2>1, <2>3, <3>2 DEF ListedGoesNoFurther, OnTheLists, StoresAnAnswer, MissedForCause
    <3>5. asked' \in Nat /\ faults' \in Nat /\ verdict' \in [Domains -> OrNone(Entries)]
      BY <2>1 DEF IInv, TypeOK
    <3> QED
      BY <2>1, <3>1, <3>2, <3>3, <3>4, <3>5, QueryMoves DEF OrNone
  <2>4. CASE Valid(e) /\ e.kind # "unknown"
    <3>1. e.kind \in Kinds
      BY <2>2, <2>4 DEF Valid, OrNone, Entries
    <3>2. Refuse(q, e.kind) \/ Forward(q, e.kind)
      BY <1>8, <2>4 DEF ReadCache
    <3> QED
      BY <1>2, <2>1, <3>1, <3>2, Decisions
  <2> QED
    BY <2>3, <2>4
<1>9. ASSUME Tier1(q) PROVE IInv'
  <2>1. At(q, "tier1") /\ ~OnTheLists(r) /\ UNCHANGED <<now, verdict, lists, asked, faults>>
    BY <1>9, Past DEF Tier1
  <2>2. PICK kind \in Answers : query' = [query EXCEPT ![q].pc = "store", ![q].kind = kind]
    BY <1>9 DEF Tier1
  <2> DEFINE s == [r EXCEPT !.pc = "store", !.kind = kind]
  <2>3. r \in QueryRecords /\ r # None /\ kind \in Kinds
    BY <1>1, <2>1, AnswersAssumption DEF At
  <2>4. query' = [query EXCEPT ![q] = s]
    BY <2>2
  <2>5. /\ s \in QueryRecords /\ s.pc = "store" /\ s.kind = kind /\ s.domain = r.domain
        /\ s.answer = r.answer /\ s.calm = r.calm /\ s.erred = r.erred /\ s.missed = r.missed
    BY <2>3 DEF QueryRecords, Steps, OrNone
  <2>6. r.pc = "tier1" /\ r.answer = None /\ MissedForCause(r)
    BY <2>1 DEF At, IInv, TypeOK, QueriesAreSound
  <2> HIDE DEF s
  <2>7. ListedGoesNoFurther(s) /\ StoresAnAnswer(s) /\ MissedForCause(s)
    BY <2>1, <2>3, <2>5, <2>6
    DEF ListedGoesNoFurther, OnTheLists, StoresAnAnswer, MissedForCause
  <2>8. asked' \in Nat /\ faults' \in Nat /\ verdict' \in [Domains -> OrNone(Entries)]
    BY <2>1 DEF IInv, TypeOK
  <2> QED
    BY <2>1, <2>4, <2>5, <2>6, <2>7, <2>8, QueryMoves DEF OrNone
<1>10. ASSUME Store(q) PROVE IInv'
  <2>1. At(q, "store") /\ ~OnTheLists(r) /\ UNCHANGED <<now, lists, asked, faults>>
    BY <1>10, Past DEF Store
  <2>2. r.kind \in Kinds /\ TTLOf(r.kind) \in OrNone(Nat) /\ r.domain \in Domains
    BY <1>1, <2>1, TimesToLive, Parts DEF At, IInv, QueriesAreSound, StoresAnAnswer
  <2>3. verdict' \in [Domains -> OrNone(Entries)]
    <3> DEFINE e == [kind |-> r.kind, until |-> TTLOf(r.kind)]
    <3>1. e \in Entries
      BY <2>2 DEF Entries
    <3>2. verdict' = [verdict EXCEPT ![r.domain] = e]
      BY <1>10 DEF Store
    <3> HIDE DEF e
    <3> QED
      BY <1>2, <3>1, <3>2 DEF OrNone
  <2>4. Refuse(q, r.kind) \/ Forward(q, r.kind)
    BY <1>10 DEF Store, Decided
  <2> QED
    BY <1>2, <2>1, <2>2, <2>3, <2>4, Decisions
<1>11. ASSUME Upstream(q) PROVE IInv'
  <2>1. /\ At(q, "upstream") /\ ~OnTheLists(r)
        /\ UNCHANGED <<now, verdict, lists, asked, faults>>
    BY <1>11, Past DEF Upstream
  <2>2. PICK answer \in {"address", "rebound", "servfail"} :
          query' = [query EXCEPT ![q].pc = "done", ![q].answer = answer]
    BY <1>11 DEF Upstream
  <2> DEFINE s == [r EXCEPT !.pc = "done", !.answer = answer]
  <2>3. r \in QueryRecords /\ r # None /\ answer \in Replies
    BY <1>1, <2>1 DEF At, Replies
  <2>4. query' = [query EXCEPT ![q] = s]
    BY <2>2
  <2>5. /\ s \in QueryRecords /\ s.pc = "done" /\ s.answer = answer /\ s.domain = r.domain
        /\ s.calm = r.calm /\ s.erred = r.erred /\ s.missed = r.missed
    BY <2>3 DEF QueryRecords, Steps, OrNone
  <2>6. s.answer # None /\ MissedForCause(r)
    BY <2>1, <2>3, <2>5, NoneAssumption DEF At, IInv, QueriesAreSound
  <2> HIDE DEF s
  <2>7. ListedGoesNoFurther(s) /\ StoresAnAnswer(s) /\ MissedForCause(s)
    BY <2>1, <2>5, <2>6 DEF ListedGoesNoFurther, OnTheLists, StoresAnAnswer, MissedForCause
  <2>8. asked' \in Nat /\ faults' \in Nat /\ verdict' \in [Domains -> OrNone(Entries)]
    BY <2>1 DEF IInv, TypeOK
  <2> QED
    BY <2>1, <2>4, <2>5, <2>6, <2>7, <2>8, QueryMoves DEF OrNone
<1>12. ASSUME Reply(q) PROVE IInv'
  <2>1. query' = [query EXCEPT ![q] = None] /\ UNCHANGED <<now, verdict, lists, asked, faults>>
    BY <1>12 DEF Reply
  <2>2. asked' \in Nat /\ faults' \in Nat /\ verdict' \in [Domains -> OrNone(Entries)]
    BY <2>1 DEF IInv, TypeOK
  <2> QED
    BY <2>1, <2>2, QueryMoves DEF OrNone
<1> QED
  BY <1>3, <1>4, <1>5, <1>6, <1>7, <1>8, <1>9, <1>10, <1>11, <1>12 DEF Resolve

LEMMA ReadFailsOK == ASSUME IInv, NEW q \in Queries, ReadFails(q) PROVE IInv'
<1> DEFINE r == query[q]
<1>1. PICK step \in {<<"strictSet", "allow">>, <<"allow", "weak">>, <<"weakSet", "cache">>,
                     <<"cache", "tier1">>} :
        At(q, step[1]) /\ query' = [query EXCEPT ![q].pc = step[2], ![q].erred = TRUE]
  BY DEF ReadFails
<1>2. r # None /\ r.pc # "done" /\ step[2] \in Steps \ {"store", "done"}
  BY <1>1 DEF At, Steps
<1>3. query' = [query EXCEPT ![q] = Gone(r, step[2], TRUE)]
  BY <1>1 DEF Gone
<1>4. UNCHANGED <<now, verdict, lists, asked>> /\ faults' = faults + 1 /\ faults \in Nat
  BY DEF ReadFails, RedisFails, IInv, TypeOK
<1>5. faults' \in Nat /\ faults' # 0
  BY <1>4
<1> HIDE DEF r
<1> QED
  BY <1>2, <1>3, <1>4, <1>5, QueryGoes DEF r

LEMMA StoreFailsOK == ASSUME IInv, NEW q \in Queries, StoreFails(q) PROVE IInv'
<1> DEFINE r == query[q]
<1>1. At(q, "store") /\ ~OnTheLists(r) /\ UNCHANGED <<now, verdict, lists, asked>>
  BY Past DEF StoreFails
<1>2. r.kind \in Kinds /\ verdict' \in [Domains -> OrNone(Entries)]
  BY <1>1 DEF At, IInv, TypeOK, QueriesAreSound, StoresAnAnswer
<1>3. faults' = faults + 1 /\ faults \in Nat
  BY DEF StoreFails, RedisFails, IInv, TypeOK
<1>4. faults' \in Nat /\ faults' # 0
  BY <1>3
<1>5. Refuse(q, r.kind) \/ Forward(q, r.kind)
  BY DEF StoreFails, Decided
<1> QED
  BY <1>1, <1>2, <1>4, <1>5, Decisions

-----------------------------------------------------------------------------
(* The fetcher and the reload *)

\* A change of the lists disturbs every query and harms none.
LEMMA DisturbedOK ==
  ASSUME IInv, query' = Disturbed, UNCHANGED now
  PROVE  /\ query' \in [Queries -> OrNone(QueryRecords)]
         /\ \A q \in Queries : query'[q] # None =>
              (query'[q].answer = None) = (query'[q].pc # "done")
         /\ QueriesAreSound'
<1>1. ASSUME NEW q \in Queries
      PROVE  /\ query[q] = None => query'[q] = None
             /\ query[q] # None => /\ query[q] \in QueryRecords
                                   /\ query'[q] = Upset(query[q])
                                   /\ query'[q] \in QueryRecords
  BY UpsetParts DEF Disturbed, Upset, IInv, TypeOK, OrNone
<1>2. query' \in [Queries -> OrNone(QueryRecords)]
  <2>1. query' = [q \in Queries |-> query'[q]]
    BY DEF Disturbed
  <2> QED
    BY <1>1, <2>1 DEF OrNone
<1>3. ASSUME NEW q \in Queries, query'[q] # None
      PROVE  /\ (query'[q].answer = None) = (query'[q].pc # "done")
             /\ ListedGoesNoFurther(query[q])' /\ StoresAnAnswer(query[q])'
             /\ MissedForCause(query[q])'
  <2> DEFINE r == query[q]
             s == query'[q]
  <2>1. r # None /\ r \in QueryRecords /\ s = Upset(r)
    BY <1>1, <1>3
  <2>2. /\ ~s.calm
        /\ s.pc = r.pc /\ s.answer = r.answer /\ s.kind = r.kind /\ s.missed = r.missed
    BY <2>1, UpsetParts
  <2>3. (r.answer = None) = (r.pc # "done") /\ StoresAnAnswer(r) /\ MissedForCause(r)
    BY <2>1 DEF IInv, TypeOK, QueriesAreSound
  <2> QED
    BY <2>2, <2>3
    DEF ListedGoesNoFurther, OnTheLists, StoresAnAnswer, MissedForCause, Valid
<1> QED
  BY <1>2, <1>3 DEF QueriesAreSound

LEMMA FetchOK == ASSUME IInv, Fetch PROVE IInv'
<1> USE DEF Fetch, FetcherAt
<1>1. fetches' \in Nat
  BY DEF IInv, TypeOK
<1>2. TypeOK'
  BY <1>1, DisturbedOK DEF IInv, TypeOK
<1>3. FetchIsThisFar' /\ FileIsLoaded'
  BY DEF IInv, FetchIsThisFar, FileIsLoaded
<1> QED
  BY <1>2, <1>3, DisturbedOK DEF IInv

LEMMA RefreshOK == ASSUME IInv, Refresh PROVE IInv'
<1> USE DEF FetcherAt
<1>1. query' = Disturbed /\ UNCHANGED <<now, verdict, asked>>
  BY DEF Refresh, ClearStrict, ClearWeak, AddStrict, AddWeak, WriteFile, Signal
<1>2. fetched.strict \in SUBSET Domains /\ fetched.weak \in SUBSET Domains
  BY DEF IInv, TypeOK, Lists
<1>3. TypeOK'
  BY <1>1, <1>2, DisturbedOK
  DEF Refresh, ClearStrict, ClearWeak, AddStrict, AddWeak, WriteFile, Signal, IInv, TypeOK
<1>4. FetchIsThisFar'
  BY DEF Refresh, ClearStrict, ClearWeak, AddStrict, AddWeak, WriteFile, Signal, IInv,
         FetchIsThisFar
<1>5. FileIsLoaded'
  BY DEF Refresh, ClearStrict, ClearWeak, AddStrict, AddWeak, WriteFile, Signal, IInv,
         FileIsLoaded
<1> QED
  BY <1>1, <1>3, <1>4, <1>5, DisturbedOK DEF IInv

LEMMA FetcherDiesOK == ASSUME IInv, FetcherDies PROVE IInv'
<1> USE DEF FetcherDies
<1>1. faults' \in Nat /\ faults' # 0
  BY DEF IInv, TypeOK
<1>2. TypeOK' /\ FetchIsThisFar' /\ FileIsLoaded'
  BY <1>1 DEF IInv, TypeOK, FetchIsThisFar, FileIsLoaded
<1>3. QueriesAreSound'
  BY DEF IInv, QueriesAreSound, ListedGoesNoFurther, OnTheLists, StoresAnAnswer, MissedForCause,
         Valid
<1> QED
  BY <1>2, <1>3 DEF IInv

LEMMA ReloadOK == ASSUME IInv, Reload PROVE IInv'
<1>1. ASSUME Load PROVE IInv'
  <2> USE <1>1 DEF Load
  <2>1. loading' \in Loads /\ loading' # None /\ loading'.from = file
    BY NoneAssumption DEF IInv, TypeOK, Loads
  <2>2. TypeOK'
    BY <2>1 DEF IInv, TypeOK, OrNone
  <2>3. FetchIsThisFar' /\ FileIsLoaded'
    BY <2>1 DEF IInv, FetchIsThisFar, FileIsLoaded
  <2>4. QueriesAreSound'
    BY DEF IInv, QueriesAreSound, ListedGoesNoFurther, OnTheLists, StoresAnAnswer,
           MissedForCause, Valid
  <2> QED
    BY <2>2, <2>3, <2>4 DEF IInv
<1>2. ASSUME Swap PROVE IInv'
  <2> USE <1>2 DEF Swap
  <2>1. filter' \in SUBSET Domains
    BY DEF IInv, TypeOK, OrNone, Loads
  <2>2. TypeOK'
    BY <2>1, DisturbedOK DEF IInv, TypeOK, OrNone
  <2>3. FetchIsThisFar' /\ FileIsLoaded'
    BY DEF IInv, FetchIsThisFar, FileIsLoaded
  <2> QED
    BY <2>2, <2>3, DisturbedOK DEF IInv
<1> QED
  BY <1>1, <1>2 DEF Reload

LEMMA TickOK == ASSUME IInv, Tick PROVE IInv'
<1> USE DEF Tick, lists
<1>1. now \in Nat /\ now' = now + 1
  BY DEF IInv, TypeOK
<1>2. TypeOK' /\ FetchIsThisFar' /\ FileIsLoaded'
  BY <1>1 DEF IInv, TypeOK, FetchIsThisFar, FileIsLoaded
<1>3. ASSUME NEW q \in Queries, query[q] # None, MissedForCause(query[q])
      PROVE  MissedForCause(query[q])'
  <2>1. query[q].missed \in OrNone(Entries)
    BY <1>3, Parts DEF IInv, TypeOK, OrNone
  <2>2. query[q].missed # None => query[q].missed.until \in OrNone(Nat)
    BY <2>1 DEF OrNone, Entries
  <2> QED
    BY <1>1, <1>3, <2>2 DEF MissedForCause, Valid, OrNone
<1>4. QueriesAreSound'
  BY <1>3 DEF IInv, QueriesAreSound, ListedGoesNoFurther, OnTheLists, StoresAnAnswer
<1> QED
  BY <1>2, <1>4 DEF IInv

LEMMA StutterOK == ASSUME IInv, UNCHANGED vars PROVE IInv'
BY DEF vars, lists, IInv, TypeOK, QueriesAreSound, ListedGoesNoFurther, OnTheLists,
       StoresAnAnswer, MissedForCause, Valid, FetchIsThisFar, FileIsLoaded

LEMMA NextOK == ASSUME IInv, [Next]_vars PROVE IInv'
BY ResolveOK, ReadFailsOK, StoreFailsOK, AskOK, FetchOK, RefreshOK, FetcherDiesOK, ReloadOK,
   TickOK, StutterOK DEF Next

LEMMA Invariance == Spec => []IInv
BY InitOK, NextOK, PTL DEF Spec

-----------------------------------------------------------------------------
(* The theorems *)

\* main.go:544-555: strict-block beats the popular names, the cache and verdict-api: a
\* query during which no list changes and Redis answers refuses every name that is on the
\* strict list and in the filter's file, save the never-blocked and those whose line the
\* reader of the file cut in two.
WholeLinesAreRefused ==
  \A q \in Queries :
    /\ At(q, "done") /\ query[q].calm /\ ~query[q].erred
    /\ query[q].domain \in (strict \cap filter) \ (NeverBlock \cup Cut)
    => query[q].answer = "nx"

\* A listed name whose line was read whole is refused, in every state of the resolver.
THEOREM WholeLinesRefused == Spec => []WholeLinesAreRefused
<1>1. IInv => WholeLinesAreRefused
  BY DEF IInv, QueriesAreSound, ListedGoesNoFurther, OnTheLists, WholeLinesAreRefused, At
<1> QED
  BY <1>1, Invariance, PTL

\* The cut lines are all that stands between the code and what it is written to do.
THEOREM ListedRefused ==
  ASSUME Cut \subseteq NeverBlock
  PROVE  Spec => []ListedIsRefused
<1>1. IInv => ListedIsRefused
  BY DEF IInv, QueriesAreSound, ListedGoesNoFurther, OnTheLists, ListedIsRefused, At
<1> QED
  BY <1>1, Invariance, PTL

\* Whatever a fetch overtakes, and however many signals and reloads come to overlap, the
\* lists in Redis, the file and the filter end up as the last undisturbed fetch got them.
THEOREM ListsCome == Spec => []ListsTakeEffect
<1>1. IInv => ListsTakeEffect
  BY DEF IInv, FetchIsThisFar, FileIsLoaded, ListsTakeEffect, ListingTakesEffect
<1> QED
  BY <1>1, Invariance, PTL

\* Of any number of queries at once for a domain, only one that looked before the BLOCK was
\* there, or could not look, replaces it while it is valid.
THEOREM BlocksStand == Spec => BlockOverwrittenByRaceOnly
<1> DEFINE Overwrites ==
      \A q \in Queries :
        LET e == verdict[query[q].domain] IN
        Store(q) /\ Valid(e) /\ e.kind = "block" => query[q].missed # e
<1>1. IInv => Overwrites
  <2> SUFFICES ASSUME IInv, NEW q \in Queries, Store(q), Valid(verdict[query[q].domain]),
                      verdict[query[q].domain].kind = "block",
                      query[q].missed = verdict[query[q].domain]
               PROVE  FALSE
    OBVIOUS
  <2>1. MissedForCause(query[q])
    BY DEF IInv, QueriesAreSound, Store, At
  <2> QED
    BY <2>1 DEF MissedForCause, Valid
<1> QED
  BY <1>1, Invariance, PTL DEF BlockOverwrittenByRaceOnly
=============================================================================
