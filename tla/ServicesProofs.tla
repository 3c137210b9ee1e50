---------------------------- MODULE ServicesProofs ----------------------------
(***************************************************************************)
(* Proofs about the services around the verdict, for any number of         *)
(* queries, rows, lookups, URLs and certificates: the log of queries,      *)
(* the identity registries, the threat lookups that are shared, the space  *)
(* between requests to a site, and the names that the certificate stream   *)
(* lost.                                                                   *)
(***************************************************************************)
EXTENDS QueryLog, Registries, Corroborators, Scheduler, CtMonitor,
        FiniteSetTheorems, SequenceTheorems, WellFoundedInduction, TLAPS

(***************************************************************************)
(* QueryLog: what is lost is pending, no entry has two rows, and the drain *)
(* keeps the promise of the abstract log.                                  *)
(***************************************************************************)
\* What is still to insert has no row, what is to be acknowledged has one, and only what
\* was delivered can have one: without the first two a second row could not be excluded.
RowsInv ==
  /\ \A e \in batch : rows[e] = 0
  /\ \A e \in acks : rows[e] # 0
  /\ \A e \in Entries : rows[e] # 0 => e \in seen

QueryLogInv == QLTypeOK /\ RowsInv /\ LossIsPending /\ NoSecondRow

LEMMA QLInitInv == QLInit => QueryLogInv
<1> SUFFICES ASSUME QLInit PROVE QueryLogInv
  OBVIOUS
<1> USE QueryBounds DEF QLInit
<1>1. rows \in [Entries -> Nat] /\ \A e \in Entries : rows[e] = 0
  OBVIOUS
<1>2. last \in 0..MaxQueries /\ cursor \in 0..last /\ restarts \in 0..MaxRestarts
  OBVIOUS
<1>3. QLTypeOK
  BY <1>1, <1>2 DEF QLTypeOK
<1>4. RowsInv /\ LossIsPending /\ NoSecondRow
  BY <1>1 DEF RowsInv, LossIsPending, NoSecondRow
<1> QED
  BY <1>3, <1>4 DEF QueryLogInv

-----------------------------------------------------------------------------
\* Every step of the resolver, of portal-api and of Redis keeps the invariant.
LEMMA EmitInv == QueryLogInv /\ (Emit \/ EmitFails) => QueryLogInv'
<1> SUFFICES ASSUME QueryLogInv, Emit \/ EmitFails PROVE QueryLogInv'
  OBVIOUS
<1> USE QueryBounds DEF QueryLogInv, QLTypeOK, groupVars, drainVars, Emit, EmitFails, Entries
<1>1. last' = last + 1 /\ last' \in 0..MaxQueries
  OBVIOUS
<1>2. entries' \subseteq 1..last'
  <2> SUFFICES ASSUME NEW e \in entries' PROVE e \in 1..last'
    OBVIOUS
  <2>1. e \in entries \cup {last + 1}
    BY DEF Trimmed
  <2> QED
    BY <1>1, <2>1
<1>3. missed' \subseteq 1..last'
  <2> SUFFICES ASSUME NEW e \in missed' PROVE e \in 1..last'
    OBVIOUS
  <2>1. e \in missed \cup {last + 1}
    OBVIOUS
  <2> QED
    BY <1>1, <2>1
<1>4. cursor' \in 0..last'
  BY <1>1
<1>5. QLTypeOK'
  BY <1>1, <1>2, <1>3, <1>4
<1>6. RowsInv' /\ LossIsPending' /\ NoSecondRow'
  BY DEF RowsInv, LossIsPending, NoSecondRow
<1> QED
  BY <1>5, <1>6

LEMMA DrainStartInv == QueryLogInv /\ (StartDrain \/ StartWithoutGroup) => QueryLogInv'
<1> SUFFICES ASSUME QueryLogInv, StartDrain \/ StartWithoutGroup PROVE QueryLogInv'
  OBVIOUS
<1> USE QueryBounds DEF QueryLogInv, QLTypeOK, streamVars, groupVars, StartDrain, StartWithoutGroup, Entries
<1>1. cursor' \in 0..last' /\ cursor <= cursor'
  OBVIOUS
<1>2. seen' \subseteq 1..cursor'
  <2> SUFFICES ASSUME NEW e \in seen PROVE e \in 1..cursor'
    OBVIOUS
  <2> QED
    BY <1>1
<1>3. QLTypeOK'
  BY <1>1, <1>2
<1>4. RowsInv' /\ LossIsPending' /\ NoSecondRow'
  BY DEF RowsInv, LossIsPending, NoSecondRow
<1> QED
  BY <1>3, <1>4

LEMMA ReadInv == QueryLogInv /\ Read => QueryLogInv'
<1> SUFFICES ASSUME QueryLogInv, Read PROVE QueryLogInv'
  OBVIOUS
<1> USE QueryBounds DEF QueryLogInv, QLTypeOK, streamVars, Entries
<1>1. PICK some \in NextEntries : \E top \in some :
        /\ \A e \in some : e <= top
        /\ batch' = some /\ cursor' = top
        /\ pending' = pending \cup some /\ seen' = seen \cup some
  BY DEF Read
<1>2. /\ drain' = "inserting" /\ acks' = {} /\ group' = group
      /\ UNCHANGED <<last, entries, missed, rows, restarts>>
  BY DEF Read
<1>3. some \subseteq Unread
  BY DEF NextEntries
<1>4. some \subseteq (cursor + 1)..last
  BY <1>3 DEF Unread
<1>5. cursor' \in 0..last' /\ seen' \subseteq 1..cursor'
  BY <1>1, <1>2, <1>4
<1>6. QLTypeOK'
  BY <1>1, <1>2, <1>5
<1>7. \A e \in some : rows[e] = 0
  <2> SUFFICES ASSUME NEW e \in some PROVE rows[e] = 0
    OBVIOUS
  <2>1. e \notin seen /\ e \in Entries
    BY <1>4
  <2> QED
    BY <2>1 DEF RowsInv
<1>8. RowsInv' /\ LossIsPending' /\ NoSecondRow'
  BY <1>1, <1>2, <1>7 DEF RowsInv, LossIsPending, NoSecondRow
<1> QED
  BY <1>6, <1>8

\* An insert, whether it is reported as done or as failed, gives its entry the first row.
LEMMA InsertInv == QueryLogInv /\ (InsertOk \/ InsertFails) => QueryLogInv'
<1> SUFFICES ASSUME QueryLogInv, InsertOk \/ InsertFails PROVE QueryLogInv'
  OBVIOUS
<1> USE QueryBounds DEF QueryLogInv, QLTypeOK, streamVars, groupVars, Entries
<1>1. PICK e \in batch :
        /\ batch' = batch \ {e}
        /\ \/ rows' = [rows EXCEPT ![e] = @ + 1] /\ acks' = acks \cup {e}
           \/ rows' = [rows EXCEPT ![e] = @ + 1] /\ acks' = acks
           \/ rows' = rows /\ acks' = acks
  BY DEF InsertOk, InsertFails, NextIn
<1>2. UNCHANGED <<last, entries, missed, group, cursor, pending, seen, drain, restarts>>
  BY DEF InsertOk, InsertFails
<1>3. e \in seen /\ e \in pending /\ e \in 1..MaxQueries /\ rows[e] = 0
  BY DEF RowsInv
<1>4. \A o \in Entries : rows'[o] = rows[o] \/ (o = e /\ rows'[o] = 1)
  BY <1>1, <1>3
<1>5. QLTypeOK'
  <2>1. rows' \in [Entries -> Nat]
    BY <1>1, <1>3
  <2>2. batch' \subseteq pending' /\ acks' \subseteq pending'
    BY <1>1, <1>2
  <2> QED
    BY <1>2, <2>1, <2>2
<1>6. RowsInv'
  <2>1. \A o \in batch' : rows'[o] = 0
    BY <1>1, <1>3 DEF RowsInv
  <2>2. ASSUME NEW o \in acks' PROVE rows'[o] # 0
    <3>1. CASE o \in acks
      BY <1>4, <3>1 DEF RowsInv
    <3>2. CASE o \notin acks
      BY <1>1, <1>3, <3>2
    <3> QED
      BY <3>1, <3>2
  <2>3. \A o \in Entries : rows'[o] # 0 => o \in seen'
    BY <1>2, <1>3, <1>4 DEF RowsInv
  <2> QED
    BY <2>1, <2>2, <2>3 DEF RowsInv
<1>7. LossIsPending' /\ NoSecondRow'
  BY <1>2, <1>3, <1>4 DEF LossIsPending, NoSecondRow
<1> QED
  BY <1>5, <1>6, <1>7

LEMMA AckInv == QueryLogInv /\ (Ack \/ CrashDrain) => QueryLogInv'
<1> SUFFICES ASSUME QueryLogInv, Ack \/ CrashDrain PROVE QueryLogInv'
  OBVIOUS
<1> USE QueryBounds DEF QueryLogInv, QLTypeOK, streamVars, groupVars, Entries, Ack, CrashDrain
<1>1. /\ pending' = pending \/ pending' = pending \ acks
      /\ batch' = {} /\ acks' = {}
      /\ UNCHANGED <<last, entries, missed, group, cursor, seen, rows>>
  OBVIOUS
<1>2. QLTypeOK'
  <2>1. CASE Ack
    BY <1>1, <2>1
  <2>2. CASE CrashDrain
    <3>1. restarts' \in 0..MaxRestarts
      BY <2>2
    <3> QED
      BY <1>1, <2>2, <3>1
  <2> QED
    BY <2>1, <2>2
<1>3. RowsInv'
  BY DEF RowsInv
<1>4. LossIsPending'
  BY <1>1 DEF RowsInv, LossIsPending
<1>5. NoSecondRow'
  BY DEF NoSecondRow
<1> QED
  BY <1>2, <1>3, <1>4, <1>5

LEMMA QLStutterInv == QueryLogInv /\ UNCHANGED qlVars => QueryLogInv'
  BY DEF qlVars, QueryLogInv, QLTypeOK, RowsInv, LossIsPending, NoSecondRow, Entries

LEMMA QLStepInv == QueryLogInv /\ [QLNext]_qlVars => QueryLogInv'
  BY EmitInv, DrainStartInv, ReadInv, InsertInv, AckInv, QLStutterInv DEF QLNext

LEMMA QLInvariance == QLSpec => []QueryLogInv
  BY QLInitInv, QLStepInv, PTL DEF QLSpec

\* The types of QueryLog's variables: no entry is read before it is there, and only what
\* was delivered is inserted and acknowledged.
THEOREM LogTypes == QLSpec => []QLTypeOK
<1>1. QueryLogInv => QLTypeOK
  BY DEF QueryLogInv
<1> QED
  BY <1>1, QLInvariance, PTL

\* What portal-api was given is recorded in one row, or stays on the group's list in
\* Redis, through failed inserts, lost acknowledgements and restarts.
THEOREM NothingUnaccounted == QLSpec => []EntriesAccountedFor
<1>1. QueryLogInv => EntriesAccountedFor
  BY DEF QueryLogInv, EntriesAccountedFor
<1> QED
  BY <1>1, QLInvariance, PTL

-----------------------------------------------------------------------------
(* The refinement: each step of the drain is a step of the abstract log or *)
(* none.                                                                   *)

UnsentNow == Entries \ (1..last)
LostNow == (1..last) \ (Waiting \cup Recorded)

\* What waits was sent and is not recorded.
LEMMA WaitingIsSent == QueryLogInv => Waiting \subseteq (1..last) \ Recorded
<1> SUFFICES ASSUME QueryLogInv, NEW e \in Waiting PROVE e \in 1..last /\ e \notin Recorded
  OBVIOUS
<1> USE QueryBounds DEF QueryLogInv, QLTypeOK, Entries
<1>1. CASE e \in batch
  BY <1>1 DEF RowsInv, Recorded
<1>2. CASE e \in Unread
  <2>1. e \in 1..last /\ e \notin seen
    BY <1>2 DEF Unread
  <2> QED
    BY <2>1 DEF RowsInv, Recorded
<1> QED
  BY <1>1, <1>2 DEF Waiting

\* Losing some of what waits, while nothing is sent or recorded.
LEMMA LosingSteps ==
  ASSUME QueryLogInv, Waiting' \subseteq Waiting, UNCHANGED <<last, Recorded>>
  PROVE  Promise!Lose
<1> DEFINE some == Waiting \ Waiting'
<1>1. some \in SUBSET (UnsentNow \cup Waiting)
  OBVIOUS
<1>2. Waiting' = Waiting \ some
  OBVIOUS
<1>3. UnsentNow' = UnsentNow \ some
  BY WaitingIsSent DEF UnsentNow, Entries
<1>4. LostNow' = LostNow \cup some
  BY WaitingIsSent DEF LostNow
<1> QED
  BY <1>1, <1>2, <1>3, <1>4 DEF Promise!Lose, UnsentNow, LostNow

\* One entry more is recorded that was waiting.
LEMMA RecordingSteps ==
  ASSUME QueryLogInv, NEW e \in Waiting, Waiting' = Waiting \ {e}, Recorded' = Recorded \cup {e},
         UNCHANGED last
  PROVE  Promise!Record(e)
<1>1. UnsentNow' = UnsentNow
  BY DEF UnsentNow, Entries
<1>2. LostNow' = LostNow
  BY WaitingIsSent DEF LostNow
<1> QED
  BY <1>1, <1>2 DEF Promise!Record, UnsentNow, LostNow

LEMMA EmitSends == QueryLogInv /\ Emit => Promise!LogNext
<1> SUFFICES ASSUME QueryLogInv, Emit PROVE Promise!LogNext
  OBVIOUS
<1> USE QueryBounds DEF QueryLogInv, QLTypeOK, Entries
<1> DEFINE q == last + 1
           all == entries \cup {q}
           dropped == Waiting \ Waiting'
<1>1. /\ q \in Entries /\ last' = q /\ entries' \in Trimmed(all)
      /\ UNCHANGED <<cursor, batch, rows>>
  BY DEF Emit, groupVars, drainVars
<1>2. entries' \subseteq all
  BY <1>1 DEF Trimmed
<1>3. q \in entries'
  <2> SUFFICES ASSUME q \notin entries' PROVE FALSE
    OBVIOUS
  <2>1. \A k \in entries' : q < k
    BY <1>1 DEF Trimmed
  <2>2. entries' = {}
    BY <1>2, <2>1
  <2>3. Cardinality(entries') >= StreamLimit
    BY <1>1 DEF Trimmed
  <2> QED
    BY <2>2, <2>3, FS_EmptySet
<1>4. q \in Waiting'
  BY <1>1, <1>3 DEF Waiting, Unread
<1>5. Waiting' \subseteq Waiting \cup {q}
  BY <1>1, <1>2 DEF Waiting, Unread
<1>6. Waiting' = (Waiting \ dropped) \cup {q}
  BY <1>4, <1>5
<1>7. Recorded' = Recorded
  BY <1>1 DEF Recorded
<1>8. UnsentNow' = UnsentNow \ {q} /\ q \in UnsentNow
  BY <1>1 DEF UnsentNow
<1>9. LostNow' = LostNow \cup dropped
  <2>1. 1..last' = (1..last) \cup {q}
    BY <1>1
  <2>2. q \notin Waiting
    BY WaitingIsSent
  <2> QED
    BY <1>4, <1>6, <1>7, <2>1, <2>2, WaitingIsSent DEF LostNow
<1>10. Promise!Send(q)
  BY <1>6, <1>7, <1>8, <1>9 DEF Promise!Send, UnsentNow, LostNow
<1> QED
  BY <1>1, <1>10 DEF Promise!LogNext

LEMMA FailedEmitLoses == QueryLogInv /\ EmitFails => Promise!LogNext
<1> SUFFICES ASSUME QueryLogInv, EmitFails PROVE Promise!LogNext
  OBVIOUS
<1> USE QueryBounds DEF QueryLogInv, QLTypeOK, Entries
<1> DEFINE q == last + 1
<1>1. q \in Entries /\ last' = q /\ UNCHANGED <<entries, cursor, batch, rows>>
  BY DEF EmitFails, groupVars, drainVars
<1>2. Waiting' = Waiting /\ Recorded' = Recorded
  BY <1>1 DEF Waiting, Unread, Recorded
<1>3. UnsentNow' = UnsentNow \ {q} /\ q \in UnsentNow
  BY <1>1 DEF UnsentNow
<1>4. q \notin Waiting
  BY WaitingIsSent
<1>5. q \notin Recorded
  BY DEF Recorded, RowsInv
<1>6. LostNow' = LostNow \cup {q}
  <2>1. 1..last' = (1..last) \cup {q}
    BY <1>1
  <2> QED
    BY <1>2, <1>4, <1>5, <2>1 DEF LostNow
<1>7. Promise!Lose
  <2>1. {q} \in SUBSET (UnsentNow \cup Waiting) /\ Waiting' = Waiting \ {q}
    BY <1>2, <1>3, <1>4
  <2> QED
    BY <1>2, <1>3, <1>6, <2>1 DEF Promise!Lose, UnsentNow, LostNow
<1> QED
  BY <1>7 DEF Promise!LogNext

LEMMA StartLoses == QueryLogInv /\ (StartDrain \/ StartWithoutGroup) => Promise!LogNext
<1> SUFFICES ASSUME QueryLogInv, StartDrain \/ StartWithoutGroup PROVE Promise!LogNext
  OBVIOUS
<1>1. cursor <= cursor' /\ cursor \in Int /\ cursor' \in Int /\ entries \subseteq Int
  BY DEF StartDrain, StartWithoutGroup, groupVars, QueryLogInv, QLTypeOK
<1>2. Waiting' \subseteq Waiting
  <2> SUFFICES ASSUME NEW e \in Waiting' PROVE e \in Waiting
    OBVIOUS
  <2>1. batch' = batch /\ entries' = entries
    BY DEF StartDrain, StartWithoutGroup, streamVars
  <2>2. CASE e \in Unread'
    BY <1>1, <2>1, <2>2 DEF Waiting, Unread
  <2> QED
    BY <2>1, <2>2 DEF Waiting
<1>3. UNCHANGED <<last, Recorded>>
  BY DEF StartDrain, StartWithoutGroup, streamVars, Recorded
<1> QED
  BY <1>2, <1>3, LosingSteps DEF Promise!LogNext

LEMMA ReadLoses == QueryLogInv /\ Read => Promise!LogNext
<1> SUFFICES ASSUME QueryLogInv, Read PROVE Promise!LogNext
  OBVIOUS
<1>1. PICK some \in NextEntries : batch' = some /\ cursor' \in some
  BY DEF Read
<1>2. some \subseteq Unread
  BY <1>1 DEF NextEntries
<1>3. UNCHANGED <<last, entries, rows>>
  BY DEF Read, streamVars
<1>4. Unread' \subseteq Unread
  <2>1. cursor < cursor' /\ cursor \in Int /\ cursor' \in Int /\ entries \subseteq Int
    BY <1>1, <1>2 DEF Unread, QueryLogInv, QLTypeOK
  <2> SUFFICES ASSUME NEW e \in Unread' PROVE e \in Unread
    OBVIOUS
  <2>2. e \in entries /\ e > cursor'
    BY <1>3 DEF Unread
  <2>3. e > cursor
    BY <2>1, <2>2
  <2> QED
    BY <2>2, <2>3 DEF Unread
<1>5. Waiting' \subseteq Waiting
  BY <1>1, <1>2, <1>4 DEF Waiting
<1>6. UNCHANGED Recorded
  BY <1>3 DEF Recorded
<1> QED
  BY <1>3, <1>5, <1>6, LosingSteps DEF Promise!LogNext

LEMMA InsertRecords == QueryLogInv /\ (InsertOk \/ InsertFails) => Promise!LogNext
<1> SUFFICES ASSUME QueryLogInv, InsertOk \/ InsertFails PROVE Promise!LogNext
  OBVIOUS
<1> USE QueryBounds DEF QueryLogInv, QLTypeOK, Entries
<1>1. PICK e \in batch :
        /\ batch' = batch \ {e}
        /\ rows' = [rows EXCEPT ![e] = @ + 1] \/ rows' = rows
  BY DEF InsertOk, InsertFails, NextIn
<1>2. UNCHANGED <<last, entries, cursor>>
  BY DEF InsertOk, InsertFails, streamVars, groupVars
<1>3. e \notin Unread /\ e \in 1..MaxQueries /\ rows[e] = 0
  BY DEF Unread, RowsInv
<1>4. Waiting' = Waiting \ {e} /\ e \in Waiting
  BY <1>1, <1>2, <1>3 DEF Waiting, Unread
<1>5. CASE rows' = [rows EXCEPT ![e] = @ + 1]
  <2>1. Recorded' = Recorded \cup {e}
    BY <1>3, <1>5 DEF Recorded
  <2>2. Promise!Record(e)
    BY <1>2, <1>4, <2>1, RecordingSteps
  <2> QED
    BY <1>3, <2>2 DEF Promise!LogNext
<1>6. CASE rows' = rows
  <2>1. Recorded' = Recorded
    BY <1>6 DEF Recorded
  <2> QED
    BY <1>2, <1>4, <2>1, LosingSteps DEF Promise!LogNext
<1> QED
  BY <1>1, <1>5, <1>6

LEMMA EndLoses == QueryLogInv /\ (Ack \/ CrashDrain) => Promise!LogNext
<1> SUFFICES ASSUME QueryLogInv, Ack \/ CrashDrain PROVE Promise!LogNext
  OBVIOUS
<1>1. Waiting' \subseteq Waiting
  BY DEF Ack, CrashDrain, streamVars, groupVars, Waiting, Unread
<1>2. UNCHANGED <<last, Recorded>>
  BY DEF Ack, CrashDrain, streamVars, Recorded
<1> QED
  BY <1>1, <1>2, LosingSteps DEF Promise!LogNext

LEMMA InitRefines == QLInit => Promise!LogInit
<1> SUFFICES ASSUME QLInit PROVE Promise!LogInit
  OBVIOUS
<1>1. Waiting = {} /\ Recorded = {} /\ 1..last = {}
  BY DEF QLInit, Waiting, Unread, Recorded
<1> QED
  BY <1>1 DEF Promise!LogInit

LEMMA StepsRefine == QueryLogInv /\ [QLNext]_qlVars => [Promise!LogNext]_(Promise!logVars)
<1>1. QueryLogInv /\ QLNext => Promise!LogNext
  BY EmitSends, FailedEmitLoses, StartLoses, ReadLoses, InsertRecords, EndLoses DEF QLNext
<1>2. UNCHANGED qlVars => UNCHANGED Promise!logVars
  BY DEF qlVars, Promise!logVars, Waiting, Unread, Recorded
<1> QED
  BY <1>1, <1>2

\* The drain with its stream, group and table implements the abstract log: a query is
\* recorded at most once, and what is lost never turns up.
THEOREM DrainKeepsPromise == QLSpec => KeepsPromise
  BY InitRefines, StepsRefine, QLInvariance, PTL DEF QLSpec, KeepsPromise, Promise!LogSpec

(***************************************************************************)
(* Registries: the four ways to look a host up agree, whatever the rows.   *)
(***************************************************************************)
\* The lookups agree about any rows whatever, so only the types have to be kept.
RegInv ==
  /\ RegTypeOK
  /\ table = [t \in Tables |-> table[t]] /\ cache = [t \in Tables |-> cache[t]]

LEMMA RegInitInv == RegInit => RegInv
BY EditsAssumption DEF RegInit, RegInv, RegTypeOK

\* A change of the tables, a load and a reload, whole or cut short, and a crash.
LEMMA RegStepInv == RegInv /\ [RegNext]_regVars => RegInv'
<1> SUFFICES ASSUME RegInv, [RegNext]_regVars PROVE RegInv'
  OBVIOUS
<1> USE EditsAssumption DEF RegInv, RegTypeOK
<1>1. ASSUME NEW t \in Tables, ChangeTable(t) PROVE RegInv'
  <2>1. PICK r \in RowsOf(t) :
          table' = [table EXCEPT ![t] = IF r \in table[t] THEN table[t] \ {r} ELSE table[t] \cup {r}]
    BY <1>1 DEF ChangeTable
  <2>2. /\ table' = [u \in Tables |-> table'[u]]
        /\ \A u \in Tables : table'[u] \subseteq RowsOf(u)
    BY <2>1
  <2>3. UNCHANGED <<cache, enabled, ticking, up>> /\ changes' = changes + 1 /\ changes < MaxEdits
    BY <1>1 DEF ChangeTable
  <2> QED
    BY <2>2, <2>3
<1>2. ASSUME NEW t \in Tables, Refresh(t) \/ RefreshCut(t) PROVE RegInv'
  <2>1. PICK found \in SUBSET table[t] : cache' = [cache EXCEPT ![t] = found]
    BY <1>2 DEF Refresh, RefreshCut, Found
  <2>2. /\ cache' = [u \in Tables |-> cache'[u]]
        /\ \A u \in Tables : cache'[u] \subseteq RowsOf(u)
    BY <2>1
  <2>3. UNCHANGED <<table, enabled, ticking, up, changes>>
    BY <1>2 DEF Refresh, RefreshCut
  <2> QED
    BY <2>2, <2>3
<1>3. CASE Boot
  <2>1. PICK loaded \in SUBSET Tables, hosts \in Found("brand_hosts"), brands \in Found("brands"),
             clients \in Found("oauth_clients") :
          /\ cache' = [t \in Tables |-> IF t \notin loaded THEN {}
                                        ELSE CASE t = "brand_hosts" -> hosts
                                               [] t = "brands" -> brands
                                               [] t = "oauth_clients" -> clients]
          /\ enabled' = loaded \cup {"brands"}
          /\ ticking' = Ticking(loaded)
    BY <1>3 DEF Boot
  <2> DEFINE Loaded(t) == IF t \notin loaded THEN {}
                          ELSE CASE t = "brand_hosts" -> hosts
                                 [] t = "brands" -> brands
                                 [] t = "oauth_clients" -> clients
  <2>2. cache' = [t \in Tables |-> cache'[t]]
    <3>1. cache' = [t \in Tables |-> Loaded(t)]
      BY <2>1
    <3> HIDE DEF Loaded
    <3> QED
      BY <3>1
  <2>3. ASSUME NEW t \in Tables PROVE cache'[t] \subseteq RowsOf(t)
    BY <2>1 DEF Found, Tables
  <2>4. up' = TRUE /\ UNCHANGED <<table, changes>>
    BY <1>3 DEF Boot
  <2>5. ticking' \subseteq enabled' /\ enabled' \subseteq Tables
    BY <2>1 DEF Ticking, Tickers, Tables
  <2> QED
    BY <2>2, <2>3, <2>4, <2>5
<1>4. CASE Crash
  BY <1>4 DEF Crash
<1>5. CASE UNCHANGED regVars
  BY <1>5 DEF regVars
<1> QED
  BY <1>1, <1>2, <1>3, <1>4, <1>5 DEF RegNext

\* What is trusted for a scope is known.
LEMMA TrustedIsKnown == ASSUME NEW h, NEW s, Trust(h, s) # {} PROVE IsAnyTrust(h)
<1>1. CASE StoreTrust(h, s) # {}
  BY <1>1 DEF StoreTrust, IsAnyTrust
<1>2. CASE StoreTrust(h, s) = {}
  <2>1. StubTrust(h, s) # {}
    BY <1>2 DEF Trust
  <2> QED
    BY <2>1 DEF StubTrust, IsAnyTrust
<1> QED
  BY <1>1, <1>2

LEMMA KnownHasBrand == ASSUME NEW h PROVE IsAnyTrust(h) <=> BrandFor(h) # {}
<1> DEFINE named == IF ExactIn(Store, h) # {} THEN ExactIn(Store, h)
                   ELSE IF SuffixIn(Store, h) # {} THEN SuffixIn(Store, h)
                   ELSE IF StubExact(h) # {} THEN StubExact(h) ELSE StubSuffix(h)
<1>1. BrandFor(h) = {r.brand : r \in named}
  BY DEF BrandFor
<1>2. IsAnyTrust(h) <=> named # {}
  BY DEF IsAnyTrust
<1> QED
  BY <1>1, <1>2

\* What a compiled-in row serves is served, by the store or by the row.
LEMMA CompiledInIsServed ==
  ASSUME NEW h, NEW s, NEW r \in StubExact(h) \cup StubSuffix(h), Serves(r, s)
  PROVE  Trust(h, s) # {} /\ TrustedAny(h)
<1>1. StubTrust(h, s) # {}
  BY DEF StubTrust
<1>2. Trust(h, s) # {}
  BY <1>1 DEF Trust
<1>3. TrustedAny(h)
  BY DEF TrustedAny, IsAnyTrust
<1> QED
  BY <1>2, <1>3

\* Who is on trustreg's list is in the stub maps, by that row or by their own.
LEMMA ListedIsKnown ==
  ASSUME NEW h, NEW r \in Curated, Lists(r, h)
  PROVE  IsAnyTrust(h)
<1>1. PICK q \in Stub : q.key = r.key /\ q.wild = r.wild
  BY DEF Stub, Backfilled
<1>2. q \in StubExact(h) \cup StubSuffix(h)
  BY <1>1, CuratedAssumption DEF Lists, StubExact, StubSuffix
<1> QED
  BY <1>2 DEF IsAnyTrust

\* Who is trusted for a scope has a row that gives it.
LEMMA TrustHasRow ==
  ASSUME NEW h, NEW s, Trust(h, s) # {}
  PROVE  \/ \E r \in ExactIn(Store, h) \cup SuffixIn(Store, h) : Serves(r, s)
         \/ \E r \in Scoped : Lists(r, h) /\ Serves(r, s)
         \/ \E r \in Curated : Lists(r, h) /\ ~\E own \in Scoped : own.key = r.key /\ own.wild = r.wild
<1>1. CASE StoreTrust(h, s) # {}
  BY <1>1 DEF StoreTrust
<1>2. CASE StoreTrust(h, s) = {}
  <2>1. StubTrust(h, s) # {}
    BY <1>2 DEF Trust
  <2>2. PICK r \in StubExact(h) \cup StubSuffix(h) : Serves(r, s)
    BY <2>1 DEF StubTrust
  <2>3. r \in Stub /\ Lists(r, h)
    BY <2>2 DEF StubExact, StubSuffix, Lists
  <2> QED
    BY <2>2, <2>3 DEF Stub, Backfilled
<1> QED
  BY <1>1, <1>2

\* Whatever rows the tables hold, however much of them a load reads, and before the first
\* load and after a crash: Trust, IsAnyTrust and BrandFor agree, the compiled-in maps give the
\* scopes they are for, who is on trustreg's list is known, and no scope is given by a row of
\* another, nor one that brandgraph keeps narrow by trustreg's (store.go, backfill.go).
THEOREM LookupsHold == RegSpec => []RegistriesHold
<1>1. CompiledInServes
  BY CuratedAssumption, CompiledInIsServed, ListedIsKnown DEF CompiledInServes
<1>2. ScopesAreKept
  BY TrustHasRow DEF ScopesAreKept
<1>3. RegInv => RegistriesHold
  BY <1>1, <1>2, TrustedIsKnown, KnownHasBrand DEF RegInv, RegistriesHold, LookupsAgree
<1> QED
  BY <1>3, RegInitInv, RegStepInv, PTL DEF RegSpec

(***************************************************************************)
(* Corroborators: an answer that is shared still holds when it is told.    *)
(***************************************************************************)
\* An answer a request has, and one that is kept for others.  One that is kept was so in
\* the hour it came, which its end says, and that hour is over: or else a change of the
\* facts could still make it false.
AnswerHolds(k, t) ==
  /\ t.at \in 0..hour
  /\ k = "rdap" =>
       /\ t.what \in {"nothing", "age", "notfound", "error"}
       /\ t.what = "age" => facts.registered <= t.at
       /\ t.what = "notfound" => facts.registered > t.at - NotFoundTTL
       /\ t.what = "error" => failedAt # -1 /\ failedAt > t.at - ErrorTTL
  /\ k = "risk" =>
       /\ t.what \in {"nothing", "clean", "threat"}
       /\ t.what = "clean" => facts.flagged > t.at - RiskTTL
  /\ k = "dns" => t.what.by \subseteq facts.blockers

KeptHolds(k, c) ==
  /\ c.until \in Nat
  /\ k = "rdap" =>
       /\ c.what \in {"nothing", "age", "notfound", "error"}
       /\ c.what = "age" => facts.registered <= hour
       /\ c.what = "notfound" => facts.registered > c.until - NotFoundTTL /\ c.until <= hour + NotFoundTTL
       /\ c.what = "error" => failedAt # -1 /\ failedAt >= c.until - ErrorTTL
  /\ k = "risk" =>
       /\ c.what \in {"nothing", "clean", "threat"}
       /\ c.what = "clean" => facts.flagged > c.until - RiskTTL /\ c.until <= hour + RiskTTL
  /\ k = "dns" => c.what.by \subseteq facts.blockers

CorrTypes ==
  /\ hour \in 0..MaxHours /\ failedAt \in -1..hour /\ gone \subseteq Callers
  /\ phase \in [Callers -> [Lookups -> {"read", "ask", "done"}]]
  /\ base \in [Callers -> 1..Bases]
  /\ facts.registered \in Nat /\ facts.flagged \in Nat
  /\ answer = [r \in Callers |-> [k \in Lookups |-> answer[r][k]]]
  /\ cached = [k \in Lookups |-> cached[k]]

CorrInv ==
  /\ CorrTypes
  /\ \A r \in Callers, k \in Lookups : AnswerHolds(k, answer[r][k])
  /\ \A k \in Lookups : KeptHolds(k, cached[k])

\* At first nothing is kept and nobody was told anything.
LEMMA CorrInitInv == CorrInit => CorrInv
<1> SUFFICES ASSUME CorrInit PROVE CorrInv
  OBVIOUS
<1> USE CorrBounds DEF CorrInit, Lookups, Blank
<1>1. facts.registered \in Nat /\ facts.flagged \in Nat
  BY DEF NotSo
<1>2. CorrTypes
  BY <1>1 DEF CorrTypes
<1>3. \A r \in Callers, k \in Lookups : AnswerHolds(k, answer[r][k])
  BY DEF AnswerHolds
<1>4. \A k \in Lookups : KeptHolds(k, cached[k])
  BY DEF KeptHolds
<1> QED
  BY <1>2, <1>3, <1>4 DEF CorrInv

-----------------------------------------------------------------------------
\* What a request is told concerns it alone, and what is kept one lookup.
LEMMA Told ==
  ASSUME CorrInv, NEW r \in Callers, NEW k \in Lookups, NEW what, Tell(r, k, what),
         UNCHANGED <<hour, facts>>, failedAt' \in {failedAt, hour},
         AnswerHolds(k, [what |-> what, at |-> hour])'
  PROVE  /\ \A q \in Callers, j \in Lookups : AnswerHolds(j, answer[q][j])'
         /\ answer' = [q \in Callers |-> [j \in Lookups |-> answer'[q][j]]]
         /\ phase' \in [Callers -> [Lookups -> {"read", "ask", "done"}]]
<1> DEFINE told == [what |-> what, at |-> hour]
<1>1. answer' = [answer EXCEPT ![r][k] = told]
  BY DEF Tell
<1> HIDE DEF told
<1>2. answer' = [q \in Callers |-> [j \in Lookups |-> IF q = r /\ j = k THEN told ELSE answer[q][j]]]
  BY <1>1 DEF CorrInv, CorrTypes
<1>3. answer' = [q \in Callers |-> [j \in Lookups |-> answer'[q][j]]]
  BY <1>2
<1>4. phase' \in [Callers -> [Lookups -> {"read", "ask", "done"}]]
  BY DEF Tell, CorrInv, CorrTypes
<1>5. ASSUME NEW q \in Callers, NEW j \in Lookups PROVE AnswerHolds(j, answer[q][j])'
  <2>1. CASE q = r /\ j = k
    BY <2>1, <1>2 DEF told
  <2>2. CASE ~(q = r /\ j = k)
    <3>1. answer'[q][j] = answer[q][j] /\ AnswerHolds(j, answer[q][j])
      BY <2>2, <1>2 DEF CorrInv
    <3> QED
      BY <3>1, CorrBounds DEF AnswerHolds, CorrInv, CorrTypes
  <2> QED
    BY <2>1, <2>2
<1> QED
  BY <1>3, <1>4, <1>5

\* Time makes nothing false that is still kept, nor do the facts as they change.
LEMMA Kept ==
  ASSUME CorrInv, NEW k \in Lookups, NEW what, NEW ttl \in Nat, Keep(k, what, ttl),
         UNCHANGED <<hour, facts>>, failedAt' \in {failedAt, hour},
         KeptHolds(k, [what |-> what, until |-> hour + ttl])'
  PROVE  /\ \A j \in Lookups : KeptHolds(j, cached[j])'
         /\ cached' = [j \in Lookups |-> cached'[j]]
<1> DEFINE kept == [what |-> what, until |-> hour + ttl]
<1>1. cached' = [cached EXCEPT ![k] = kept]
  BY DEF Keep
<1> HIDE DEF kept
<1>2. cached' = [j \in Lookups |-> IF j = k THEN kept ELSE cached[j]]
  BY <1>1 DEF CorrInv, CorrTypes
<1>3. ASSUME NEW j \in Lookups PROVE KeptHolds(j, cached[j])'
  <2>1. CASE j = k
    BY <2>1, <1>2 DEF kept
  <2>2. CASE j # k
    <3>1. cached'[j] = cached[j] /\ KeptHolds(j, cached[j])
      BY <2>2, <1>2 DEF CorrInv
    <3> QED
      BY <3>1, CorrBounds DEF KeptHolds, CorrInv, CorrTypes
  <2> QED
    BY <2>1, <2>2
<1> QED
  BY <1>2, <1>3

\* Where nothing is kept anew, what is kept holds on; a failure may be a later one.
LEMMA StillKept ==
  ASSUME CorrInv, UNCHANGED <<hour, facts, cached>>, failedAt' \in {failedAt, hour}
  PROVE  /\ \A j \in Lookups : KeptHolds(j, cached[j])'
         /\ cached' = [j \in Lookups |-> cached'[j]]
BY CorrBounds DEF KeptHolds, CorrInv, CorrTypes

\* What a request was told keeps to the same bounds as time goes on.
LEMMA StillTold ==
  ASSUME CorrInv, UNCHANGED <<hour, facts, answer, failedAt>>
  PROVE  /\ \A q \in Callers, j \in Lookups : AnswerHolds(j, answer[q][j])'
         /\ answer' = [q \in Callers |-> [j \in Lookups |-> answer'[q][j]]]
BY DEF AnswerHolds, CorrInv, CorrTypes

-----------------------------------------------------------------------------
\* Every step of a request, of a vendor and of the clock keeps them.
LEMMA ReadCachedInv == ASSUME CorrInv, NEW r \in Callers, NEW k \in Lookups, ReadCached(r, k) PROVE CorrInv'
<1>1. UNCHANGED <<hour, facts, lookups, gone, base, cached, failedAt>> /\ failedAt' \in {failedAt, hour}
  BY DEF ReadCached
<1>2. \A j \in Lookups : KeptHolds(j, cached[j])'
  BY <1>1, StillKept
<1>3. cached' = [j \in Lookups |-> cached'[j]]
  BY <1>1, StillKept
<1>4. CASE hour < cached[k].until /\ Tell(r, k, cached[k].what)
  <2>1. KeptHolds(k, cached[k]) /\ hour \in Nat /\ failedAt \in Int /\ facts.registered \in Nat /\ facts.flagged \in Nat
    BY CorrBounds DEF CorrInv, CorrTypes
  <2> DEFINE c == cached[k]
             t == [what |-> c.what, at |-> hour]
  <2>2. AnswerHolds(k, t)'
    <3> HIDE DEF c
    <3>1. t.what = c.what /\ t.at = hour /\ UNCHANGED <<c, t, hour, facts, failedAt>>
      BY <1>1 DEF c
    <3>2. KeptHolds(k, c) /\ hour < c.until
      BY <2>1, <1>4 DEF c
    <3> HIDE DEF t
    <3> QED
      BY <2>1, <3>1, <3>2, CorrBounds DEF KeptHolds, AnswerHolds
  <2>3. AnswerHolds(k, [what |-> cached[k].what, at |-> hour])'
    BY <2>2
  <2>4. /\ \A q \in Callers, j \in Lookups : AnswerHolds(j, answer[q][j])'
        /\ answer' = [q \in Callers |-> [j \in Lookups |-> answer'[q][j]]]
        /\ phase' \in [Callers -> [Lookups -> {"read", "ask", "done"}]]
    BY <1>1, <1>4, <2>2, Told
  <2> QED
    BY <1>1, <1>2, <1>3, <2>4 DEF CorrInv, CorrTypes
<1>5. CASE phase' = [phase EXCEPT ![r][k] = "ask"] /\ UNCHANGED answer
  <2>1. phase' \in [Callers -> [Lookups -> {"read", "ask", "done"}]]
    BY <1>5 DEF CorrInv, CorrTypes
  <2>2. /\ \A q \in Callers, j \in Lookups : AnswerHolds(j, answer[q][j])'
        /\ answer' = [q \in Callers |-> [j \in Lookups |-> answer'[q][j]]]
    BY <1>1, <1>5, StillTold
  <2> QED
    BY <1>1, <1>2, <1>3, <2>1, <2>2 DEF CorrInv, CorrTypes
<1> QED
  BY <1>4, <1>5 DEF ReadCached

\* An RDAP lookup ends: with what its server says now, or with a failure of this hour.
LEMMA EndRdapInv ==
  ASSUME CorrInv, NEW r \in Callers, NEW what, EndRdap(r, what),
         UNCHANGED <<hour, facts, lookups, gone, base>>,
         \/ what = Registration /\ failedAt' = failedAt
         \/ what = "error" /\ failedAt' = hour
  PROVE  CorrInv'
<1> DEFINE t == [what |-> what, at |-> hour]
           c == [what |-> what, until |-> hour + RdapTTL(what)]
<1>1. /\ hour \in Nat /\ hour \in 0..MaxHours /\ failedAt \in Int /\ facts.registered \in Nat /\ facts.flagged \in Nat
      /\ failedAt' \in {failedAt, hour} /\ failedAt' \in -1..hour /\ "rdap" \in Lookups
  BY CorrBounds DEF CorrInv, CorrTypes, Lookups
<1>2. /\ what \in {"age", "notfound", "error"}
      /\ what = "age" => facts.registered <= hour
      /\ what = "notfound" => facts.registered > hour
      /\ what = "error" => failedAt' = hour
  BY <1>1 DEF Registration
<1>3. RdapTTL(what) \in Nat /\ (what = "notfound" => RdapTTL(what) = NotFoundTTL) /\ (what = "error" => RdapTTL(what) = ErrorTTL)
  BY <1>2, CorrBounds DEF RdapTTL
<1>4. AnswerHolds("rdap", t)'
  <2>1. t.what = what /\ t.at = hour /\ UNCHANGED <<t.what, t.at>>
    OBVIOUS
  <2> HIDE DEF t
  <2> QED
    BY <1>1, <1>2, <2>1, CorrBounds DEF AnswerHolds
<1>5. KeptHolds("rdap", c)'
  <2>1. c.what = what /\ c.until = hour + RdapTTL(what) /\ UNCHANGED <<c.what, c.until>>
    BY DEF RdapTTL
  <2> HIDE DEF c
  <2> QED
    BY <1>1, <1>2, <1>3, <2>1, CorrBounds DEF KeptHolds
<1>6. Tell(r, "rdap", what) /\ Keep("rdap", what, RdapTTL(what))
  BY DEF EndRdap
<1>7. /\ \A q \in Callers, j \in Lookups : AnswerHolds(j, answer[q][j])'
      /\ answer' = [q \in Callers |-> [j \in Lookups |-> answer'[q][j]]]
      /\ phase' \in [Callers -> [Lookups -> {"read", "ask", "done"}]]
  BY <1>1, <1>4, <1>6, Told
<1>8. /\ \A j \in Lookups : KeptHolds(j, cached[j])'
      /\ cached' = [j \in Lookups |-> cached'[j]]
  BY <1>1, <1>3, <1>5, <1>6, Kept
<1> QED
  BY <1>1, <1>7, <1>8 DEF CorrInv, CorrTypes

LEMMA RdapAnswersInv == ASSUME CorrInv, NEW r \in Callers, RdapAnswers(r) PROVE CorrInv'
BY EndRdapInv DEF RdapAnswers

LEMMA RdapFailsInv == ASSUME CorrInv, NEW r \in Callers, RdapFails(r) PROVE CorrInv'
<1>1. CASE MoreBases(r)
  <2>1. UNCHANGED <<answer, phase, cached, failedAt, hour, facts, lookups, gone>> /\ NextBase(r) /\ failedAt' \in {failedAt, hour}
    BY <1>1 DEF RdapFails
  <2>2. base' \in [Callers -> 1..Bases]
    BY <1>1, <2>1, CorrBounds DEF MoreBases, NextBase, CorrInv, CorrTypes
  <2>3. \A j \in Lookups : KeptHolds(j, cached[j])'
    BY <2>1, StillKept
  <2>4. \A q \in Callers, j \in Lookups : AnswerHolds(j, answer[q][j])'
    BY <2>1, StillTold
  <2> QED
    BY <2>1, <2>2, <2>3, <2>4 DEF CorrInv, CorrTypes
<1>2. CASE ~MoreBases(r)
  BY <1>2, EndRdapInv DEF RdapFails
<1> QED
  BY <1>1, <1>2

\* A vendor is among those that block only if it does: "no such domain" counts only where
\* the domain is registered.
LEMMA AskDnsInv == ASSUME CorrInv, NEW r \in Callers, AskDns(r) PROVE CorrInv'
<1>1. PICK answered \in SUBSET Vendors, exists \in BOOLEAN :
        /\ exists => BaselineFinds(r)
        /\ Tell(r, "dns", Consensus(answered, exists))
        /\ Keep("dns", Consensus(answered, exists), DnsTTL) \/ UNCHANGED cached
  BY DEF AskDns
<1>2. UNCHANGED <<hour, facts, lookups, gone, base, failedAt>> /\ failedAt' \in {failedAt, hour} /\ "dns" \in Lookups
  BY DEF AskDns, Lookups
<1> DEFINE said == Consensus(answered, exists)
<1>3. said.by \subseteq facts.blockers
  <2>1. said.by = BlockedBy(answered, exists)
    BY DEF Consensus
  <2> SUFFICES ASSUME NEW v \in BlockedBy(answered, exists) PROVE v \in facts.blockers
    BY <2>1
  <2>2. Says(v) = "sinkhole" \/ (exists /\ Says(v) = "nxdomain")
    BY DEF BlockedBy
  <2> QED
    BY <1>1, <2>2 DEF Says, BaselineFinds
<1>4. Tell(r, "dns", said) /\ (Keep("dns", said, DnsTTL) \/ UNCHANGED cached)
  BY <1>1
<1> HIDE DEF said
<1>5. hour \in Nat /\ DnsTTL \in Nat
  BY CorrBounds DEF CorrInv, CorrTypes
<1>6. \A w, at : w = said /\ at = hour => AnswerHolds("dns", [what |-> w, at |-> at])'
  BY <1>2, <1>3, <1>5 DEF AnswerHolds
<1>7. \A w, until : w = said /\ until = hour + DnsTTL => KeptHolds("dns", [what |-> w, until |-> until])'
  BY <1>2, <1>3, <1>5 DEF KeptHolds
<1>8. PICK w : w = said
  OBVIOUS
<1>9. /\ \A q \in Callers, j \in Lookups : AnswerHolds(j, answer[q][j])'
      /\ answer' = [q \in Callers |-> [j \in Lookups |-> answer'[q][j]]]
      /\ phase' \in [Callers -> [Lookups -> {"read", "ask", "done"}]]
  BY <1>2, <1>4, <1>6, <1>8, Told
<1>10. /\ \A j \in Lookups : KeptHolds(j, cached[j])'
       /\ cached' = [j \in Lookups |-> cached'[j]]
  <2>1. CASE UNCHANGED cached
    BY <1>2, <2>1, StillKept
  <2>2. CASE Keep("dns", said, DnsTTL)
    BY <1>2, <1>5, <1>7, <1>8, <2>2, Kept
  <2> QED
    BY <1>4, <2>1, <2>2
<1> QED
  BY <1>2, <1>9, <1>10 DEF CorrInv, CorrTypes

LEMMA RiskInv == ASSUME CorrInv, NEW r \in Callers, RiskFails(r) \/ RiskAnswers(r) PROVE CorrInv'
<1> DEFINE found == IF facts.flagged <= hour THEN "threat" ELSE "clean"
<1>1. /\ UNCHANGED <<hour, facts, lookups, gone, base, failedAt>> /\ failedAt' \in {failedAt, hour}
      /\ "risk" \in Lookups /\ hour \in Nat /\ RiskTTL \in Nat \ {0} /\ facts.flagged \in Nat
  BY CorrBounds DEF RiskFails, RiskAnswers, Lookups, CorrInv, CorrTypes
<1>2. CASE RiskFails(r)
  <2>1. Tell(r, "risk", "nothing") /\ UNCHANGED cached
    BY <1>2 DEF RiskFails, Blank
  <2>2. AnswerHolds("risk", [what |-> "nothing", at |-> hour])'
    BY <1>1 DEF AnswerHolds
  <2>3. /\ \A q \in Callers, j \in Lookups : AnswerHolds(j, answer[q][j])'
        /\ answer' = [q \in Callers |-> [j \in Lookups |-> answer'[q][j]]]
        /\ phase' \in [Callers -> [Lookups -> {"read", "ask", "done"}]]
    BY <1>1, <2>1, <2>2, Told
  <2>4. /\ \A j \in Lookups : KeptHolds(j, cached[j])'
        /\ cached' = [j \in Lookups |-> cached'[j]]
    BY <1>1, <2>1, StillKept
  <2> QED
    BY <1>1, <2>3, <2>4 DEF CorrInv, CorrTypes
<1>3. CASE RiskAnswers(r)
  <2>1. Tell(r, "risk", found) /\ Keep("risk", found, RiskTTL)
    BY <1>3 DEF RiskAnswers
  <2>2. \A w : w = found => AnswerHolds("risk", [what |-> w, at |-> hour])'
    BY <1>1 DEF AnswerHolds
  <2>3. \A w : w = found => KeptHolds("risk", [what |-> w, until |-> hour + RiskTTL])'
    BY <1>1 DEF KeptHolds
  <2> HIDE DEF found
  <2> PICK what : what = found
    OBVIOUS
  <2>4. /\ \A q \in Callers, j \in Lookups : AnswerHolds(j, answer[q][j])'
        /\ answer' = [q \in Callers |-> [j \in Lookups |-> answer'[q][j]]]
        /\ phase' \in [Callers -> [Lookups -> {"read", "ask", "done"}]]
    BY <1>1, <2>1, <2>2, Told
  <2>5. /\ \A j \in Lookups : KeptHolds(j, cached[j])'
        /\ cached' = [j \in Lookups |-> cached'[j]]
    BY <1>1, <2>1, <2>3, Kept
  <2> QED
    BY <1>1, <2>4, <2>5 DEF CorrInv, CorrTypes
<1> QED
  BY <1>2, <1>3

\* Time passes: what is registered or flagged only now was not so before, and what was
\* kept in an earlier hour said nothing else.
LEMMA HourInv == CorrInv /\ Hour => CorrInv'
<1> SUFFICES ASSUME CorrInv, Hour PROVE CorrInv'
  OBVIOUS
<1>1. /\ hour' = hour + 1 /\ hour < MaxHours /\ UNCHANGED <<lookups, gone, phase, base, answer, cached, failedAt>>
      /\ hour \in 0..MaxHours /\ MaxHours \in Nat /\ failedAt \in -1..hour
      /\ facts.registered \in Nat /\ facts.flagged \in Nat
  BY CorrBounds DEF Hour, CorrInv, CorrTypes
<1>2. /\ facts'.registered = facts.registered \/ (facts.registered = NotSo /\ facts'.registered = hour + 1)
      /\ facts'.flagged = facts.flagged \/ (facts.flagged = NotSo /\ facts'.flagged = hour + 1)
      /\ facts'.blockers = facts.blockers
  <2>1. PICK news \in SUBSET {"registered", "flagged"} :
          facts' = [facts EXCEPT !.registered = IF "registered" \in news /\ @ = NotSo THEN hour + 1 ELSE @,
                                 !.flagged = IF "flagged" \in news /\ @ = NotSo THEN hour + 1 ELSE @]
    BY DEF Hour
  <2> QED
    BY <2>1 DEF CorrInv, CorrTypes
<1>3. CorrTypes'
  BY <1>1, <1>2 DEF CorrInv, CorrTypes
<1>4. ASSUME NEW r \in Callers, NEW k \in Lookups PROVE AnswerHolds(k, answer[r][k])'
  <2> DEFINE t == answer[r][k]
  <2>1. AnswerHolds(k, t) /\ t' = t
    BY <1>1 DEF CorrInv
  <2> HIDE DEF t
  <2>2. AnswerHolds(k, t)'
    BY <1>1, <1>2, <2>1, CorrBounds DEF AnswerHolds, NotSo
  <2> QED
    BY <2>2 DEF t
<1>5. ASSUME NEW k \in Lookups PROVE KeptHolds(k, cached[k])'
  <2> DEFINE c == cached[k]
  <2>1. KeptHolds(k, c) /\ c' = c
    BY <1>1 DEF CorrInv
  <2> HIDE DEF c
  <2>2. KeptHolds(k, c)'
    BY <1>1, <1>2, <2>1, CorrBounds DEF KeptHolds, NotSo
  <2> QED
    BY <2>2 DEF c
<1> QED
  BY <1>3, <1>4, <1>5 DEF CorrInv

LEMMA CorrStepInv == CorrInv /\ [CorrNext]_corrVars => CorrInv'
<1> SUFFICES ASSUME CorrInv, [CorrNext]_corrVars PROVE CorrInv'
  OBVIOUS
<1>1. CASE Hour
  BY <1>1, HourInv
<1>2. ASSUME NEW r \in Callers, Leave(r) PROVE CorrInv'
  BY <1>2 DEF Leave, CorrInv, CorrTypes, AnswerHolds, KeptHolds
<1>3. ASSUME NEW r \in Callers, Ask(r) PROVE CorrInv'
  BY <1>3, RdapAnswersInv, RdapFailsInv, AskDnsInv, RiskInv DEF Ask
<1>4. ASSUME NEW r \in Callers, NEW k \in Lookups, ReadCached(r, k) PROVE CorrInv'
  BY <1>4, ReadCachedInv
<1>5. CASE UNCHANGED corrVars
  BY <1>5 DEF corrVars, CorrInv, CorrTypes, AnswerHolds, KeptHolds
<1> QED
  BY <1>1, <1>2, <1>3, <1>4, <1>5 DEF CorrNext

\* Whatever lookups fail, whoever leaves and however the answers of caches and of requests
\* alternate, what a request is told was so when it says, for no longer than its kind
\* allows, and names no vendor that does not block (rdap.go, vendordns.go, webrisk.go).
THEOREM AnswersHold == CorrSpec => []SharedAnswersHold
<1>1. CorrInv => SharedAnswersHold
  <2> SUFFICES ASSUME CorrInv PROVE SharedAnswersHold
    OBVIOUS
  <2>1. \A r \in Callers : /\ AnswerHolds("rdap", answer[r]["rdap"])
                           /\ AnswerHolds("dns", answer[r]["dns"])
                           /\ AnswerHolds("risk", answer[r]["risk"])
    BY DEF CorrInv, Lookups
  <2>2. CorrTypeOK
    BY <2>1, CorrBounds DEF CorrInv, CorrTypes, CorrTypeOK, AnswerHolds
  <2>3. ToldWasSo /\ FailuresAreShort /\ NamedVendorsBlock
    BY <2>1 DEF AnswerHolds, ToldWasSo, FailuresAreShort, NamedVendorsBlock
  <2> QED
    BY <2>2, <2>3 DEF SharedAnswersHold
<1> QED
  BY <1>1, CorrInitInv, CorrStepInv, PTL DEF CorrSpec

(***************************************************************************)
(* Scheduler: two requests to a site keep the space that is set.           *)
(***************************************************************************)
\* The poller's clock of a domain it has sent to is that of its requests: were a dispatch
\* to leave one of them alone, a site could get two requests too near one another.
SchedInv ==
  /\ due \subseteq Urls /\ sending \in Urls \cup {NoUrl}
  /\ picked \in Seq(Urls) /\ Len(picked) <= Batch
  /\ tick \in {"waiting", "running", "down"} /\ fired \in BOOLEAN
  /\ tick # "running" => picked = <<>> /\ sending = NoUrl
  /\ toTick \in 1..Interval
  /\ since \in [UrlDomains -> 0..PerDomain] /\ spaced \in [UrlDomains -> 0..PerDomain]
  /\ posted \subseteq UrlDomains \ {NoDomain}
  /\ \A d \in posted : since[d] = spaced[d]

\* A scan that refers to an expired row keeps it.
SweepInv ==
  /\ expired \subseteq Range(SweptTables) /\ held \in BOOLEAN
  /\ held => "evidence" \in expired

LEMMA MarkedTypes ==
  ASSUME NEW ages \in [UrlDomains -> 0..PerDomain], NEW d \in UrlDomains
  PROVE  /\ Marked(ages, d) \in [UrlDomains -> 0..PerDomain]
         /\ \A e \in UrlDomains :
              Marked(ages, d)[e] = IF e = d /\ d # NoDomain THEN 0 ELSE ages[e]
BY SchedulerBounds DEF Marked

LEMMA SweepStepInv == SweepInv /\ [SweepNext]_sweepVars => SweepInv'
<1> SUFFICES ASSUME SweepInv, [SweepNext]_sweepVars PROVE SweepInv'
  OBVIOUS
<1>1. Range(SweptTables) = {"overrides", "evidence", "popup_edges"} /\ DOMAIN SweptTables = 1..3
  BY DEF SweptTables, Range
<1>2. ASSUME NEW t \in Range(SweptTables), Expire(t) PROVE SweepInv'
  BY <1>2 DEF Expire, SweepInv
<1>3. CASE ForgetScans
  BY <1>3 DEF ForgetScans, SweepInv
<1>4. ASSUME NEW n \in DOMAIN SweptTables, Sweep(n) PROVE SweepInv'
  <2>1. CASE n = 1
    <3>1. expired' = expired \ {"overrides"} /\ held' = held
      BY <1>4, <2>1 DEF Sweep, SweptTables
    <3> QED
      BY <3>1 DEF SweepInv
  <2>2. CASE n >= 2
    BY <1>4, <2>2 DEF Sweep, SweepInv
  <2> QED
    BY <1>1, <2>1, <2>2
<1>5. CASE UNCHANGED sweepVars
  BY <1>5 DEF sweepVars, SweepInv
<1> QED
  BY <1>2, <1>3, <1>4, <1>5 DEF SweepNext

\* At first every clock stands at its space.
LEMMA SchedInitInv == SchedInit => SchedInv
BY SchedulerBounds DEF SchedInit, SchedInv, Long

\* A tick picks some of the due URLs, in the order of their turn.
LEMMA BeginTickInv == SchedInv /\ BeginTick => SchedInv'
<1> SUFFICES ASSUME SchedInv, BeginTick PROVE SchedInv'
  OBVIOUS
<1>1. PICK ordered \in SetToSeqs(due) :
        picked' = SubSeq(ordered, 1, IF Len(ordered) < Batch THEN Len(ordered) ELSE Batch)
  BY DEF BeginTick
<1>2. Cardinality(due) \in Nat
  BY SchedulerBounds, FS_Subset, FS_CardinalityType DEF SchedInv
<1>3. ordered \in [1..Cardinality(due) -> Urls]
  BY <1>1 DEF SetToSeqs, SchedInv
<1>4. ordered \in Seq(Urls) /\ Len(ordered) \in Nat
  BY <1>2, <1>3
<1> DEFINE n == IF Len(ordered) < Batch THEN Len(ordered) ELSE Batch
<1>5. n \in 0..Len(ordered) /\ n <= Batch
  BY <1>4, SchedulerBounds
<1> HIDE DEF n
<1>6. SubSeq(ordered, 1, n) \in Seq(Urls) /\ Len(SubSeq(ordered, 1, n)) = n
  BY <1>4, <1>5, SubSeqProperties
<1>7. picked' \in Seq(Urls) /\ Len(picked') <= Batch
  BY <1>1, <1>5, <1>6 DEF n
<1> QED
  BY <1>7 DEF BeginTick, SchedInv

LEMMA SchedStepInv == SchedInv /\ [SchedNext]_schedVars => SchedInv'
<1> SUFFICES ASSUME SchedInv, [SchedNext]_schedVars PROVE SchedInv'
  OBVIOUS
<1> USE SchedulerBounds
<1>1. ASSUME NEW u \in Urls, SetDue(u) PROVE SchedInv'
  BY <1>1 DEF SetDue, SchedInv
<1>2. CASE Elapse
  <2>1. /\ since' \in [UrlDomains -> 0..PerDomain] /\ spaced' \in [UrlDomains -> 0..PerDomain]
        /\ \A d \in posted : since'[d] = spaced'[d]
    BY <1>2 DEF Elapse, Later, SchedInv
  <2> QED
    BY <1>2, <2>1 DEF Elapse, SchedInv
<1>3. CASE BeginTick
  BY <1>3, BeginTickInv
<1>4. CASE QueryFails \/ EndTick
  BY <1>4 DEF QueryFails, EndTick, SchedInv
<1>start. CASE Start
  <2>1. toTick' \in 1..Interval
    BY <1>start DEF Start
  <2> QED
    BY <1>start, <2>1 DEF Start, SchedInv
<1>5. CASE Skip \/ BeginDispatch
  <2>1. picked # <<>> /\ picked' = Tail(picked) /\ tick = "running" /\ sending' \in {sending, Head(picked)}
    BY <1>5 DEF Skip, BeginDispatch
  <2>2. picked' \in Seq(Urls) /\ Len(picked') <= Batch /\ Head(picked) \in Urls
    BY <2>1 DEF SchedInv
  <2> QED
    BY <1>5, <2>1, <2>2 DEF Skip, BeginDispatch, SchedInv
<1>ended. sending # NoUrl => sending.domain \in UrlDomains
  BY DEF SchedInv, UrlDomains
<1>clocks. since \in [UrlDomains -> 0..PerDomain] /\ spaced \in [UrlDomains -> 0..PerDomain]
  BY DEF SchedInv
<1>6. CASE DispatchFails \/ DispatchScans
  <2>1. /\ sending # NoUrl /\ since' = Marked(since, sending.domain) /\ Ended
        /\ spaced' = Marked(spaced, sending.domain)
        /\ posted' = posted \cup ({sending.domain} \ {NoDomain})
    BY <1>6 DEF DispatchFails, DispatchScans, Ended
  <2>2. /\ since' \in [UrlDomains -> 0..PerDomain] /\ spaced' \in [UrlDomains -> 0..PerDomain]
        /\ posted' \subseteq UrlDomains \ {NoDomain}
        /\ \A d \in posted' : since'[d] = spaced'[d]
    <3>1. /\ Marked(since, sending.domain) \in [UrlDomains -> 0..PerDomain]
          /\ Marked(spaced, sending.domain) \in [UrlDomains -> 0..PerDomain]
          /\ \A e \in UrlDomains :
               /\ Marked(since, sending.domain)[e] =
                    IF e = sending.domain /\ sending.domain # NoDomain THEN 0 ELSE since[e]
               /\ Marked(spaced, sending.domain)[e] =
                    IF e = sending.domain /\ sending.domain # NoDomain THEN 0 ELSE spaced[e]
      BY <1>ended, <1>clocks, <2>1, MarkedTypes
    <3> QED
      BY <1>ended, <2>1, <3>1 DEF SchedInv
  <2> QED
    BY <2>1, <2>2 DEF Ended, SchedInv
<1>7. CASE Stop
  <2>1. spaced' \in [UrlDomains -> 0..PerDomain] /\ since' \in [UrlDomains -> 0..PerDomain]
    <3>1. sending # NoUrl => Marked(spaced, sending.domain) \in [UrlDomains -> 0..PerDomain]
      BY <1>ended, <1>clocks, MarkedTypes
    <3> QED
      BY <1>7, <1>clocks, <3>1 DEF Stop, Long
  <2>2. toTick' \in 1..Interval /\ picked' \in Seq(Urls) /\ Len(picked') <= Batch
    BY <1>7 DEF Stop
  <2> QED
    BY <1>7, <2>1, <2>2 DEF Stop, SchedInv
<1>8. CASE UNCHANGED schedVars
  BY <1>8 DEF schedVars, SchedInv
<1> QED
  BY <1>1, <1>2, <1>3, <1>4, <1>start, <1>5, <1>6, <1>7, <1>8 DEF SchedNext

\* For any urls, domains, batch and intervals: whatever fails, and however ticks run into
\* each other, one poller sends a site no second request within the rate limit of its last
\* one (poller.go's tick and markSeen).
THEOREM DomainsKeepTheirSpace == SchedSpec /\ SweepSpec => DomainsAreSpaced
<1>1. SweepInit => SweepInv
  BY DEF SweepInit, SweepInv
<1>2. SchedInv /\ SweepInv => SchedTypeOK
  BY ElementOfSeq, LenProperties DEF SchedInv, SweepInv, SchedTypeOK
<1>3. SchedInv /\ [SchedNext]_schedVars =>
        [sending = NoUrl /\ sending' # NoUrl /\ sending'.domain \in posted =>
           spaced[sending'.domain] = PerDomain]_schedVars
  <2> SUFFICES ASSUME SchedInv, SchedNext, sending = NoUrl, sending' # NoUrl, sending'.domain \in posted
               PROVE  spaced[sending'.domain] = PerDomain
    OBVIOUS
  <2>1. BeginDispatch
    BY DEF SchedNext, SetDue, Elapse, BeginTick, QueryFails, Skip, Ended, DispatchFails, DispatchScans,
           EndTick, Stop, Start
  <2>2. Head(picked) \in Urls /\ sending' = Head(picked) /\ ~RateLimited(Head(picked))
    BY <2>1 DEF BeginDispatch, SchedInv
  <2>3. /\ sending'.domain \in UrlDomains /\ sending'.domain # NoDomain
        /\ since[sending'.domain] = spaced[sending'.domain]
    BY <2>2 DEF UrlDomains, SchedInv
  <2> QED
    BY <2>2, <2>3, SchedulerBounds DEF RateLimited, SchedInv
<1> QED
  BY <1>1, <1>2, <1>3, SweepStepInv, SchedInitInv, SchedStepInv, PTL
     DEF SchedSpec, SweepSpec, DomainsAreSpaced, DomainSpaced

(***************************************************************************)
(* CtMonitor: what the stream lost, the search finds within its turns.     *)
(***************************************************************************)
\* Of any numbers one is the least: their initial segments are finite sets.
LEMMA Least == ASSUME NEW T, T \subseteq Nat, T # {} PROVE \E m \in T : \A n \in T : m <= n
<1> DEFINE R == StrictSubsetOrdering(Nat)
           Segments == {0..n : n \in T}
<1>1. IsWellFoundedOn(R, FiniteSubsetsOf(Nat))
  BY FS_StrictSubsetOrderingWellFounded
<1>2. Segments \subseteq FiniteSubsetsOf(Nat) /\ Segments # {}
  <2>1. \A n \in T : IsFiniteSet(0..n) /\ 0..n \subseteq Nat
    BY FS_Interval
  <2> QED
    BY <2>1 DEF FiniteSubsetsOf
<1>3. ASSUME NEW s \in Segments, NEW t \in Segments, s \subseteq t, s # t PROVE <<s, t>> \in R
  <2>1. s \in SUBSET Nat /\ t \in SUBSET Nat
    BY <1>2 DEF FiniteSubsetsOf
  <2> HIDE DEF Segments
  <2> QED
    BY <1>3, <2>1 DEF StrictSubsetOrdering
<1> HIDE DEF R
<1>4. PICK s \in Segments : \A t \in Segments : <<t, s>> \notin R
  <2> HIDE DEF Segments
  <2> QED
    BY <1>1, <1>2, WFMin
<1>5. PICK m \in T : s = 0..m
  OBVIOUS
<1>6. ASSUME NEW n \in T PROVE m <= n
  <2>1. CASE n < m
    <3>1. 0..n \subseteq 0..m /\ 0..n # 0..m
      BY <2>1, <1>5, m \in Nat, n \in Nat
    <3> QED
      BY <3>1, <1>3, <1>4, <1>5
  <2> QED
    BY <2>1
<1> QED
  BY <1>6

\* The next number of a rotation, and how far it has come.
LEMMA Wrap == \A N, x \in Nat : N > 0 /\ x < N + N => x % N = IF x < N THEN x ELSE x - N
<1> TAKE N, x \in Nat
<1> HAVE N > 0 /\ x < N + N
<1>1. CASE x < N
  BY <1>1
<1>2. CASE x >= N
  BY <1>2
<1> QED
  BY <1>1, <1>2

\* Turns add up.
LEMMA Turns == \A a, s \in Nat : (a + 1) * s = a * s + s /\ a * s \in Nat /\ (a > 0 => a * s >= s)
OBVIOUS

-----------------------------------------------------------------------------
\* How many keywords there are, and how many a cycle takes.
Many == Len(keywords)
Share == IF PerCycle < Many THEN PerCycle ELSE Many

\* The keyword at p is still ahead of the rotation, which since the domain's certificate
\* has come past the rest only.
TurnAhead(d, p) ==
  \E ahead \in 0..(Many - 1) : (next + ahead) % Many = p - 1 /\ ahead + age[d] * Share < Many

InQueue(d) == \E q \in queue : q.domain = d

\* While nothing disturbs it, ct-monitor has all keywords, and no time passed before it
\* was started.
Undisturbed ==
  ~disturbed =>
    /\ monitor => Many = Cardinality(Keywords) /\ (Many > 0 => next < Many)
    /\ ~monitor => keywords = <<>> /\ next = 0 /\ \A d \in CertDomains : age[d] \in {NoCert, 0}

MissedComeUp ==
  ~disturbed /\ Cardinality(Keywords) <= PerCycle * Lookback =>
    \A d \in CertDomains, p \in 1..Many :
      /\ age[d] # NoCert /\ Hint(d, keywords) # "none"
      /\ <<d, keywords[p]>> \in Holds /\ FitsCap(keywords[p])
      => InQueue(d) \/ TurnAhead(d, p)

CtTypes == CtTypeOK /\ keywords \in Seq(Keywords) /\ Many \in 0..Cardinality(Keywords)
CtInv == CtTypes /\ Undisturbed /\ MissedComeUp

LEMMA KeywordCount == Cardinality(Keywords) \in Nat
BY CtBounds, FS_CardinalityType

LEMMA OrdersAreSequences ==
  ASSUME NEW found \in SUBSET Keywords, NEW o \in Orders(found)
  PROVE  o \in Seq(Keywords) /\ Len(o) = Cardinality(found) /\ Len(o) \in 0..Cardinality(Keywords)
<1>1. /\ IsFiniteSet(found) /\ Cardinality(found) \in Nat /\ Cardinality(Keywords) \in Nat
      /\ Cardinality(found) <= Cardinality(Keywords)
  BY CtBounds, FS_Subset, FS_CardinalityType
<1>2. o \in [1..Cardinality(found) -> found]
  BY DEF Orders, SetToSeqs
<1>3. o \in Seq(found) /\ Len(o) = Cardinality(found)
  BY <1>1, <1>2
<1> QED
  BY <1>1, <1>2, <1>3

\* The hint is one of the keywords: of those that fit, one is the first.
LEMMA HintIsKeyword ==
  ASSUME NEW d, NEW kws \in Seq(Keywords), Hint(d, kws) # "none" PROVE Hint(d, kws) \in Keywords
<1> DEFINE fit == {n \in DOMAIN kws : <<d, kws[n]>> \in Resembles}
<1>1. fit \subseteq Nat /\ fit \subseteq DOMAIN kws /\ fit # {}
  <2>1. DOMAIN kws \subseteq Nat
    BY LenProperties
  <2>2. fit # {}
    BY DEF Hint
  <2> QED
    BY <2>1, <2>2
<1>2. \E n \in fit : \A m \in fit : n <= m
  BY <1>1, Least
<1>3. (CHOOSE n \in fit : \A m \in fit : n <= m) \in fit
  BY <1>2
<1>4. Hint(d, kws) = kws[CHOOSE n \in fit : \A m \in fit : n <= m]
  BY <1>1 DEF Hint
<1>5. \A n \in DOMAIN kws : kws[n] \in Keywords
  BY ElementOfSeq, LenProperties
<1> HIDE DEF fit
<1> QED
  BY <1>1, <1>3, <1>4, <1>5

LEMMA EnqueuedTypes ==
  ASSUME NEW d \in CertDomains, NEW kws \in Seq(Keywords)
  PROVE  /\ \A q \in Enqueued(d, kws) : q.domain = d /\ q.hint \in Keywords
         /\ Hint(d, kws) # "none" => \E q \in Enqueued(d, kws) : q.domain = d
<1>1. CASE Hint(d, kws) = "none"
  BY <1>1 DEF Enqueued
<1>2. CASE Hint(d, kws) # "none"
  <2>1. Enqueued(d, kws) = {[domain |-> d, hint |-> Hint(d, kws)]}
    BY <1>2 DEF Enqueued
  <2> QED
    BY <1>2, <2>1, HintIsKeyword
<1> QED
  BY <1>1, <1>2

LEMMA SoughtTypes ==
  ASSUME CtTypes
  PROVE  /\ Share \in 0..Many /\ Share <= PerCycle /\ (Many > 0 => Share > 0)
         /\ Sought = [n \in 1..Share |-> keywords[((next + n - 1) % Many) + 1]]
         /\ Sought \in Seq(Keywords) /\ Len(Sought) = Share
<1>1. Share \in 0..Many /\ Many \in Nat /\ next \in Nat /\ Share <= PerCycle /\ (Many > 0 => Share > 0)
  BY CtBounds DEF CtTypes, CtTypeOK, Share
<1>2. Sought = [n \in 1..Share |-> keywords[((next + n - 1) % Many) + 1]]
  BY DEF Sought, Share, Many
<1>3. ASSUME NEW n \in 1..Share PROVE keywords[((next + n - 1) % Many) + 1] \in Keywords
  <2>1. ((next + n - 1) % Many) + 1 \in 1..Many
    BY <1>1
  <2> QED
    BY <2>1 DEF CtTypes, Many
<1>4. Sought \in [1..Share -> Keywords] /\ Share \in Nat
  <2> DEFINE Nth(n) == keywords[((next + n - 1) % Many) + 1]
  <2>1. Sought = [n \in 1..Share |-> Nth(n)] /\ \A n \in 1..Share : Nth(n) \in Keywords
    BY <1>2, <1>3
  <2> HIDE DEF Nth
  <2> QED
    BY <1>1, <2>1
<1>5. Sought \in Seq(Keywords) /\ Len(Sought) = Share
  <2> HIDE DEF Sought
  <2> QED
    BY <1>4, IsASeq
<1> QED
  BY <1>1, <1>2, <1>5

-----------------------------------------------------------------------------
\* The steps of the monitor, of the stream and of a reload.
LEMMA CtInitInv == CtInit => CtInv
<1> SUFFICES ASSUME CtInit PROVE CtInv
  OBVIOUS
<1>1. keywords = <<>> /\ Many = 0 /\ keywords \in Seq(Keywords) /\ ToSet(keywords) = {}
  BY DEF CtInit, Many, ToSet
<1>2. age \in [CertDomains -> NoCert..Lookback]
  BY CtBounds DEF CtInit, NoCert
<1>3. CtTypes
  <2>1. 0 \in 0..Cardinality(Keywords)
    BY KeywordCount
  <2>2. CtTypeOK
    BY <1>1, <1>2, <2>1 DEF CtInit, CtTypeOK
  <2> QED
    BY <1>1, <2>1, <2>2 DEF CtTypes
<1>4. Undisturbed /\ MissedComeUp
  BY <1>1 DEF CtInit, Undisturbed, MissedComeUp
<1> QED
  BY <1>3, <1>4 DEF CtInv

LEMMA StartInv == CtInv /\ StartMonitor => CtInv'
<1> SUFFICES ASSUME CtInv, StartMonitor PROVE CtInv'
  OBVIOUS
<1>1. keywords' \in Seq(Keywords) /\ Many' = Cardinality(Keywords) /\ Many' \in 0..Cardinality(Keywords)
  BY OrdersAreSequences DEF StartMonitor, Many
<1>2. ToSet(keywords') \subseteq Keywords
  BY <1>1 DEF ToSet
<1>3. CtTypes'
  BY <1>1, <1>2, KeywordCount DEF StartMonitor, CtInv, CtTypes, CtTypeOK
<1>4. Undisturbed'
  BY <1>1, KeywordCount DEF StartMonitor, Undisturbed
<1>5. MissedComeUp'
  <2> SUFFICES ASSUME ~disturbed', NEW d \in CertDomains, NEW p \in 1..(Many'), age'[d] # NoCert
               PROVE  TurnAhead(d, p)'
    BY DEF MissedComeUp
  <2>1. next' = 0 /\ age'[d] = 0 /\ Share' \in Nat
    BY <1>1, CtBounds DEF StartMonitor, CtInv, Undisturbed, Share
  <2>2. (0 + (p - 1)) % Many' = p - 1 /\ (p - 1) + 0 * Share' < Many' /\ p - 1 \in 0..(Many' - 1)
    BY <1>1, <2>1, KeywordCount, Wrap
  <2> QED
    BY <2>1, <2>2 DEF TurnAhead
<1> QED
  BY <1>3, <1>4, <1>5 DEF CtInv

LEMMA StopInv == CtInv /\ StopMonitor => CtInv'
<1> SUFFICES ASSUME CtInv, StopMonitor PROVE CtInv'
  OBVIOUS
<1>1. keywords' = <<>> /\ Many' = 0 /\ keywords' \in Seq(Keywords) /\ ToSet(keywords') = {}
  BY DEF StopMonitor, Many, ToSet
<1>2. CtTypes'
  <2>1. 0 \in 0..Cardinality(Keywords)
    BY KeywordCount
  <2>2. CtTypeOK'
    BY <1>1, <2>1 DEF StopMonitor, CtInv, CtTypes, CtTypeOK
  <2> QED
    BY <1>1, <2>1, <2>2 DEF CtTypes
<1> QED
  BY <1>2 DEF StopMonitor, CtInv, Undisturbed, MissedComeUp

\* Where nothing changes that the searches depend on.
LEMMA StreamInv ==
  CtInv /\ UNCHANGED <<keywords, next, age, queue, sought, monitor, disturbed>>
    /\ stream' \in {"down", "open", "silent"} => CtInv'
<1> SUFFICES ASSUME CtInv, UNCHANGED <<keywords, next, age, queue, sought, monitor, disturbed>>,
                    stream' \in {"down", "open", "silent"}
             PROVE  CtInv'
  OBVIOUS
<1>1. UNCHANGED <<Many, Share>>
  BY DEF Many, Share
<1>2. CtTypes' /\ Undisturbed'
  BY <1>1 DEF CtInv, CtTypes, CtTypeOK, Undisturbed
<1>3. MissedComeUp'
  BY <1>1 DEF CtInv, MissedComeUp, TurnAhead, InQueue, Hint
<1> QED
  BY <1>2, <1>3 DEF CtInv

LEMMA ReloadInv == CtInv /\ Reload => CtInv'
<1> SUFFICES ASSUME CtInv, Reload PROVE CtInv'
  OBVIOUS
<1>1. CASE keywords' = keywords
  <2>1. disturbed' = disturbed /\ stream' \in {"down", "open", "silent"}
    BY <1>1 DEF Reload, CtInv, CtTypes, CtTypeOK
  <2> QED
    BY <1>1, <2>1, StreamInv DEF Reload
<1>2. CASE keywords' # keywords
  <2>1. disturbed'
    BY <1>2 DEF Reload
  <2>2. keywords' \in Seq(Keywords) /\ Many' \in 0..Cardinality(Keywords)
    BY OrdersAreSequences DEF Reload, Many
  <2>3. ToSet(keywords') \subseteq Keywords
    BY <2>2 DEF ToSet
  <2> QED
    BY <2>1, <2>2, <2>3 DEF Reload, CtInv, CtTypes, CtTypeOK, Undisturbed, MissedComeUp
<1> QED
  BY <1>1, <1>2

\* A certificate: no cycle has passed since, and every keyword is still to come.
LEMMA CertifyInv == ASSUME CtInv, NEW d \in CertDomains, Certify(d) PROVE CtInv'
<1>1. /\ UNCHANGED <<keywords, monitor, stream, next, sought, disturbed>> /\ UNCHANGED <<Many, Share>>
      /\ age' = [age EXCEPT ![d] = 0] /\ queue \subseteq queue' /\ queue' \subseteq queue \cup Enqueued(d, keywords)
  BY DEF Certify, monitorVars, Many, Share
<1>2. age' \in [CertDomains -> NoCert..Lookback]
  BY <1>1, CtBounds DEF CtInv, CtTypes, CtTypeOK, NoCert
<1>3. CtTypes'
  BY <1>1, <1>2, EnqueuedTypes DEF CtInv, CtTypes, CtTypeOK
<1>4. Undisturbed'
  BY <1>1 DEF CtInv, CtTypes, CtTypeOK, Undisturbed
<1>5. MissedComeUp'
  <2> SUFFICES ASSUME ~disturbed, Cardinality(Keywords) <= PerCycle * Lookback,
                      NEW e \in CertDomains, NEW p \in 1..Many,
                      age'[e] # NoCert, Hint(e, keywords) # "none",
                      <<e, keywords[p]>> \in Holds, FitsCap(keywords[p])
               PROVE  (InQueue(e) \/ TurnAhead(e, p))'
    BY <1>1 DEF MissedComeUp, Hint
  <2>1. CASE e = d
    <3>1. monitor /\ next \in Nat /\ next < Many /\ Many \in Nat /\ Share \in Nat
      BY CtBounds DEF CtInv, CtTypes, CtTypeOK, Undisturbed, Many, Share
    <3> DEFINE ahead == IF p - 1 >= next THEN p - 1 - next ELSE p - 1 - next + Many
    <3>2. ahead \in 0..(Many - 1) /\ (next + ahead) % Many = p - 1
      BY <3>1, Wrap
    <3>3. age'[e] = 0 /\ ahead + 0 * Share < Many
      BY <1>1, <2>1, <3>1, <3>2 DEF CtInv, CtTypes, CtTypeOK
    <3> HIDE DEF ahead
    <3> QED
      BY <1>1, <3>2, <3>3 DEF TurnAhead
  <2>2. CASE e # d
    <3>1. age'[e] = age[e]
      BY <1>1, <2>2 DEF CtInv, CtTypes, CtTypeOK
    <3>2. InQueue(e) \/ TurnAhead(e, p)
      BY <3>1 DEF CtInv, MissedComeUp
    <3> QED
      BY <1>1, <3>1, <3>2 DEF InQueue, TurnAhead
  <2> QED
    BY <2>1, <2>2
<1> QED
  BY <1>3, <1>4, <1>5 DEF CtInv

LEMMA OlderTypes ==
  ASSUME CtTypes
  PROVE  /\ Older \in [CertDomains -> NoCert..Lookback]
         /\ \A d \in CertDomains : Older[d] = IF age[d] \in 0..(Lookback - 1) THEN age[d] + 1 ELSE age[d]
<1>1. \A d \in CertDomains : age[d] \in NoCert..Lookback
  BY DEF CtTypes, CtTypeOK
<1>2. \A d \in CertDomains : (IF age[d] \in 0..(Lookback - 1) THEN age[d] + 1 ELSE age[d]) \in NoCert..Lookback
  BY <1>1, CtBounds DEF NoCert
<1> QED
  BY <1>2 DEF Older

\* The look back is long enough for every keyword to have its turn.
LEMMA NotYetOver ==
  ASSUME CtTypes, Many = Cardinality(Keywords), Cardinality(Keywords) <= PerCycle * Lookback,
         NEW d \in CertDomains, NEW p \in 1..Many, TurnAhead(d, p)
  PROVE  age[d] # Lookback
<1>1. Lookback * Share >= Many
  <2>1. CASE PerCycle < Many
    BY <2>1, CtBounds DEF Share
  <2>2. CASE ~(PerCycle < Many)
    BY <2>2, CtBounds, KeywordCount, Turns DEF Share
  <2> QED
    BY <2>1, <2>2
<1>2. PICK ahead \in 0..(Many - 1) : ahead + age[d] * Share < Many
  BY DEF TurnAhead
<1>3. CASE age[d] = Lookback
  <2>1. ahead + Lookback * Share < Many
    BY <1>2, <1>3
  <2>2. Lookback * Share \in Nat /\ Many \in Nat
    BY CtBounds, Turns, SoughtTypes, KeywordCount
  <2> QED
    BY <1>1, <1>2, <2>1, <2>2
<1> QED
  BY <1>3

\* Where there is room for all front, a search finds each recent certificate.
LEMMA AllRowsRead ==
  ASSUME CtTypes, NEW k \in Keywords, FitsCap(k), NEW read \in Search(k),
         NEW d \in CertDomains, age[d] \in 0..(Lookback - 1), <<d, k>> \in Holds
  PROVE  d \in read
<1> DEFINE holders == {e \in CertDomains : <<e, k>> \in Holds}
<1>1. PICK front \in FirstRows(k) : read = {e \in front : age[e] < Lookback}
  BY DEF Search
<1>2. front \subseteq Listed(k) /\ Listed(k) \subseteq holders /\ holders \subseteq CertDomains /\ d \in Listed(k)
  BY CtBounds DEF FirstRows, Listed, NoCert
<1>3. front = Listed(k)
  <2>1. IsFiniteSet(holders) /\ IsFiniteSet(Listed(k)) /\ IsFiniteSet(front)
    BY <1>2, CtBounds, FS_Subset
  <2>2. /\ Cardinality(holders) \in Nat /\ Cardinality(Listed(k)) \in Nat /\ Cardinality(front) \in Nat
        /\ Cardinality(front) <= Cardinality(Listed(k)) /\ Cardinality(Listed(k)) <= Cardinality(holders)
    BY <1>2, <2>1, FS_Subset, FS_CardinalityType
  <2>3. Cardinality(holders) + Others[k] <= PerKeyword /\ Others[k] \in Nat /\ PerKeyword \in Nat
    BY CtBounds DEF FitsCap
  <2>4. front = Listed(k) \/ PerKeyword <= Cardinality(front) + Others[k]
    BY DEF FirstRows
  <2>5. Cardinality(front) = Cardinality(Listed(k)) => front = Listed(k)
    BY <1>2, <2>1, FS_Subset
  <2> HIDE DEF holders
  <2> QED
    BY <2>2, <2>3, <2>4, <2>5
<1> QED
  BY <1>1, <1>2, <1>3, CtBounds

\* A cycle takes the keyword, or comes nearer to it by as many as it takes.
LEMMA CycleInv == ASSUME CtInv, NEW failing \in SUBSET ToSet(Sought), Cycle(failing) PROVE CtInv'
<1>found. PICK found \in [ToSet(Sought) \ failing -> SUBSET CertDomains] :
            /\ \A k \in ToSet(Sought) \ failing : found[k] \in Search(k)
            /\ queue' = queue \cup
                 UNION {Enqueued(d, keywords) : d \in UNION {found[k] : k \in ToSet(Sought) \ failing}}
  BY DEF Cycle
<1> DEFINE heard == UNION {found[k] : k \in ToSet(Sought) \ failing}
<1>1. /\ monitor /\ UNCHANGED <<keywords, monitor, stream>> /\ age' = Older
      /\ queue' = queue \cup UNION {Enqueued(d, keywords) : d \in heard}
      /\ disturbed' = (disturbed \/ failing # {}) /\ UNCHANGED <<Many, Share>>
  BY <1>found DEF Cycle, Many, Share
<1>2. /\ Share \in 0..Many /\ Many \in Nat /\ next \in Nat /\ Share \in Nat /\ (Many > 0 => Share > 0)
      /\ Many <= Cardinality(Keywords) /\ Cardinality(Keywords) \in Nat
  BY SoughtTypes, KeywordCount DEF CtInv, CtTypes, CtTypeOK
<1>sought. /\ Sought = [n \in 1..Share |-> keywords[((next + n - 1) % Many) + 1]]
           /\ Sought \in Seq(Keywords) /\ Len(Sought) = Share
  BY SoughtTypes DEF CtInv
<1>3. ToSet(Sought) \subseteq Keywords
  <2>1. Sought \in Seq(Keywords)
    BY <1>sought
  <2>2. \A n \in DOMAIN Sought : Sought[n] \in Keywords
    BY <2>1, ElementOfSeq, LenProperties
  <2> QED
    BY <2>2 DEF ToSet
<1>4. next' = IF Many = 0 THEN next ELSE (next + Share) % Many
  <2>1. keywords = <<>> <=> Many = 0
    BY DEF Many, CtInv, CtTypes
  <2> QED
    BY <1>2, <1>sought, <2>1 DEF Cycle, Advanced, Many
<1>5. next' \in 0..Cardinality(Keywords) /\ (Many > 0 => next' < Many)
  BY <1>2, <1>4 DEF CtInv, CtTypes, CtTypeOK
<1>6. heard \subseteq CertDomains
  OBVIOUS
<1>7. CtTypes'
  <2>1. sought' \subseteq Keywords
    BY <1>3 DEF Cycle, CtInv, CtTypes, CtTypeOK
  <2>2. \A q \in queue' : q.domain \in CertDomains /\ q.hint \in Keywords
    <3> HIDE DEF heard
    <3> QED
      BY <1>1, <1>6, EnqueuedTypes DEF CtInv, CtTypes, CtTypeOK
  <2>3. age' \in [CertDomains -> NoCert..Lookback]
    BY <1>1, OlderTypes DEF CtInv
  <2> HIDE DEF heard
  <2> QED
    BY <1>1, <1>2, <1>5, <2>1, <2>2, <2>3 DEF CtInv, CtTypes, CtTypeOK
<1>8. Undisturbed'
  BY <1>1, <1>5 DEF CtInv, Undisturbed
<1>9. MissedComeUp'
  <2> SUFFICES ASSUME ~disturbed', Cardinality(Keywords) <= PerCycle * Lookback,
                      NEW d \in CertDomains, NEW p \in 1..Many,
                      age'[d] # NoCert, Hint(d, keywords) # "none",
                      <<d, keywords[p]>> \in Holds, FitsCap(keywords[p])
               PROVE  (InQueue(d) \/ TurnAhead(d, p))'
    BY <1>1 DEF MissedComeUp, Hint
  <2>1. /\ ~disturbed /\ failing = {} /\ Many = Cardinality(Keywords) /\ next < Many
        /\ age[d] \in NoCert..Lookback
        /\ age'[d] = IF age[d] \in 0..(Lookback - 1) THEN age[d] + 1 ELSE age[d]
    <3>1. ~disturbed /\ failing = {}
      BY <1>1
    <3>2. Many = Cardinality(Keywords) /\ next < Many
      BY <1>1, <1>2, <3>1 DEF CtInv, Undisturbed
    <3> HIDE DEF heard
    <3> QED
      BY <1>1, <3>1, <3>2, OlderTypes DEF CtInv, CtTypes, CtTypeOK
  <2> HIDE DEF heard
  <2>2. CASE InQueue(d)
    BY <1>1, <2>2 DEF InQueue
  <2>3. CASE ~InQueue(d)
    <3>1. TurnAhead(d, p)
      <4>1. age[d] # NoCert
        BY <2>1, CtBounds DEF NoCert
      <4> QED
        BY <2>1, <2>3, <4>1 DEF CtInv, MissedComeUp
    <3>2. age[d] \in 0..(Lookback - 1) /\ age'[d] = age[d] + 1
      BY <2>1, <3>1, NotYetOver, CtBounds DEF CtInv, NoCert
    <3>3. PICK ahead \in 0..(Many - 1) : (next + ahead) % Many = p - 1 /\ ahead + age[d] * Share < Many
      BY <3>1 DEF TurnAhead
    <3>4. CASE ahead < Share
      <4>1. ahead + 1 \in 1..Share /\ next + (ahead + 1) - 1 = next + ahead
        BY <1>2, <3>4
      <4>2. Sought[ahead + 1] = keywords[((next + (ahead + 1) - 1) % Many) + 1]
        BY <1>sought, <4>1
      <4>3. Sought[ahead + 1] = keywords[p]
        BY <3>3, <4>1, <4>2
      <4>4. keywords[p] \in ToSet(Sought) \ failing
        BY <1>sought, <2>1, <4>1, <4>3 DEF ToSet
      <4>5. d \in heard
        <5>1. keywords[p] \in Keywords
          BY <1>3, <4>4
        <5>2. d \in found[keywords[p]]
          BY <1>found, <3>2, <4>4, <5>1, AllRowsRead DEF CtInv
        <5> QED
          BY <4>4, <5>2 DEF heard
      <4>6. \E q \in Enqueued(d, keywords) : q.domain = d
        BY EnqueuedTypes DEF CtInv, CtTypes
      <4> QED
        BY <1>1, <4>5, <4>6 DEF InQueue
    <3>5. CASE ahead >= Share
      <4>1. next' = IF next + Share < Many THEN next + Share ELSE next + Share - Many
        <5>1. next + Share \in Nat /\ next + Share < Many + Many /\ Many > 0
          BY <1>2, <2>1
        <5>2. next' = (next + Share) % Many
          BY <1>4, <5>1
        <5> QED
          BY <1>2, <5>1, <5>2, Wrap
      <4>2. p - 1 = IF next + ahead < Many THEN next + ahead ELSE next + ahead - Many
        BY <1>2, <2>1, <3>3, Wrap
      <4>3. ahead - Share \in 0..(Many - 1) /\ next' + (ahead - Share) \in Nat
        BY <1>2, <3>5, <4>1
      <4>4. (next' + (ahead - Share)) % Many = p - 1
        <5>1. next' + (ahead - Share) < Many + Many
          BY <1>2, <2>1, <4>1, <4>3
        <5> DEFINE x == next' + (ahead - Share)
        <5>2. x % Many = IF x < Many THEN x ELSE x - Many
          <6>1. x \in Nat /\ x < Many + Many /\ Many > 0
            BY <1>2, <2>1, <4>3, <5>1
          <6> HIDE DEF x
          <6> QED
            BY <1>2, <6>1, Wrap
        <5> QED
          BY <1>2, <2>1, <3>3, <3>5, <4>1, <4>2, <5>2
      <4>5. (ahead - Share) + (age[d] + 1) * Share < Many
        <5>1. (age[d] + 1) * Share = age[d] * Share + Share /\ age[d] * Share \in Nat
          <6>1. age[d] \in Nat
            BY <3>2, CtBounds
          <6> QED
            BY <1>2, <6>1, Turns
        <5> QED
          BY <1>2, <3>3, <5>1
      <4> QED
        BY <1>1, <3>2, <4>3, <4>4, <4>5 DEF TurnAhead
    <3> QED
      BY <1>2, <3>3, <3>4, <3>5
  <2> QED
    BY <2>2, <2>3
<1> QED
  BY <1>7, <1>8, <1>9 DEF CtInv

\* All of them together.
LEMMA CtStepInv == CtInv /\ [CtNext]_ctVars => CtInv'
<1> SUFFICES ASSUME CtInv, [CtNext]_ctVars PROVE CtInv'
  OBVIOUS
<1>1. CASE StartMonitor \/ StopMonitor \/ Reload
  BY <1>1, StartInv, StopInv, ReloadInv
<1>2. CASE Connect \/ Disconnect \/ Stall \/ UNCHANGED ctVars
  <2>1. UNCHANGED <<keywords, next, age, queue, sought, monitor, disturbed>> /\ stream' \in {"down", "open", "silent"}
    BY <1>2 DEF Connect, Disconnect, Stall, ctVars, CtInv, CtTypes, CtTypeOK
  <2> QED
    BY <2>1, StreamInv
<1>3. ASSUME NEW d \in CertDomains, Certify(d) PROVE CtInv'
  BY <1>3, CertifyInv
<1>4. ASSUME NEW failing \in SUBSET ToSet(Sought), Cycle(failing) PROVE CtInv'
  BY <1>4, CycleInv
<1>5. CASE QuietCycle
  <2>1. age' \in [CertDomains -> NoCert..Lookback]
    BY <1>5, OlderTypes DEF QuietCycle, CtInv
  <2>2. UNCHANGED <<Many, monitorVars, queue>> /\ disturbed'
    BY <1>5 DEF QuietCycle, monitorVars, Many
  <2> QED
    BY <2>1, <2>2 DEF CtInv, CtTypes, CtTypeOK, Undisturbed, MissedComeUp, monitorVars
<1> QED
  BY <1>1, <1>2, <1>3, <1>4, <1>5 DEF CtNext

\* For any keywords and certificates, any number of keywords a cycle takes and any look
\* back in which they all have their turn: while no search fails and ct-monitor runs on with
\* its keywords, what the stream missed is in the queue before crt.sh forgets it,
\* wherever the rotation stood when the certificate came (ct-monitor's crtshLoop).
THEOREM MissedCome == CtSpec => []MissedAreCaught
<1>1. CtInv => MissedAreCaught
  <2> SUFFICES ASSUME CtInv, ~disturbed, Cardinality(Keywords) <= PerCycle * Lookback,
                      NEW d \in CertDomains, age[d] = Lookback, Findable(d)
               PROVE  \E q \in queue : q.domain = d
    BY DEF CtInv, CtTypes, MissedAreCaught, MissedIsCaught
  <2>1. PICK k \in ToSet(keywords) : Hint(d, keywords) # "none" /\ <<d, k>> \in Holds /\ FitsCap(k)
    BY DEF Findable
  <2>2. PICK p \in 1..Many : k = keywords[p]
    BY <2>1 DEF ToSet, CtInv, CtTypes, Many
  <2>3. Many = Cardinality(Keywords)
    BY <2>2 DEF CtInv, CtTypes, CtTypeOK, Undisturbed, Many
  <2>4. InQueue(d) \/ TurnAhead(d, p)
    BY <2>1, <2>2, CtBounds DEF CtInv, MissedComeUp, NoCert
  <2> QED
    BY <2>3, <2>4, NotYetOver DEF CtInv, InQueue
<1> QED
  BY <1>1, CtInitInv, CtStepInv, PTL DEF CtSpec

=============================================================================
