------------------------------ MODULE QueryLog ------------------------------
(***************************************************************************)
(* The DNS query log: each resolver query is one entry of the Redis stream *)
(* xgg:dns, which portal-api reads as the consumer group "portal-api" and  *)
(* writes to the table dns_queries, a row per entry.                       *)
(*                                                                         *)
(* A query is named by the entry it becomes: entries are numbered in the   *)
(* order Redis takes them.  `pending` is the group's list of entries that  *)
(* were delivered and not acknowledged; the code reads only ">", never     *)
(* that list.  `rows` counts the rows of each entry, and `seen` is the     *)
(* history of what the group was ever given.                               *)
(***************************************************************************)
EXTENDS Integers, FiniteSets

CONSTANTS
  MaxQueries,  \* bound on the queries
  StreamLimit, \* MaxLen of XADD (100,000)
  ReadCount,   \* entries of one XREADGROUP (256)
  MaxRestarts  \* bound on the restarts of portal-api

ASSUME QueryBounds ==
  /\ MaxQueries \in Nat /\ MaxRestarts \in Nat
  /\ StreamLimit \in Nat \ {0} /\ ReadCount \in Nat \ {0}

Entries == 1..MaxQueries

VARIABLES
  last,     \* number of the last entry added, or that failed to be
  entries,  \* entries in the stream
  missed,   \* queries whose XADD failed
  group,    \* the consumer group exists
  cursor,   \* the last entry delivered to it
  pending,  \* its list of pending entries
  seen,     \* entries ever delivered
  drain,    \* the goroutine of portal-api: "off", "reading" or "inserting"
  batch,    \* entries it has still to insert
  acks,     \* ids it will acknowledge
  rows,     \* rows of dns_queries per entry
  restarts  \* so far

qlVars == <<last, entries, missed, group, cursor, pending, seen,
            drain, batch, acks, rows, restarts>>
streamVars == <<last, entries, missed>>
groupVars == <<group, cursor, pending, seen>>
drainVars == <<drain, batch, acks>>

QLInit ==
  /\ last = 0 /\ entries = {} /\ missed = {}
  /\ group = FALSE /\ cursor = 0 /\ pending = {} /\ seen = {}
  /\ drain = "off" /\ batch = {} /\ acks = {}
  /\ rows = [e \in Entries |-> 0]
  /\ restarts = 0

-----------------------------------------------------------------------------
(* Resolver *)

\* What an approximate trim may leave: the newest entries, no fewer than the limit.
Trimmed(all) ==
  {kept \in SUBSET all :
     /\ \A e \in all \ kept, k \in kept : e < k
     /\ kept # all => Cardinality(kept) >= StreamLimit}

\* emitQueryLog: XADD with its trim.
Emit ==
  /\ last < MaxQueries
  /\ last' = last + 1
  /\ entries' \in Trimmed(entries \cup {last + 1})
  /\ UNCHANGED <<missed, groupVars, drainVars, rows, restarts>>

\* It fails or runs out of its 200 ms, and nobody looks at the error.
EmitFails ==
  /\ last < MaxQueries
  /\ last' = last + 1 /\ missed' = missed \cup {last + 1}
  /\ UNCHANGED <<entries, groupVars, drainVars, rows, restarts>>

-----------------------------------------------------------------------------
(* portal-api *)

\* Start: a new group begins at "$", after what the stream holds; BUSYGROUP is ignored.
StartDrain ==
  /\ drain = "off"
  /\ drain' = "reading"
  /\ group' = TRUE
  /\ cursor' = IF group THEN cursor ELSE last
  /\ UNCHANGED <<streamVars, pending, seen, batch, acks, rows, restarts>>

\* Redis does not answer XGROUP CREATE: that error is ignored too.
StartWithoutGroup ==
  /\ drain = "off" /\ ~group
  /\ drain' = "reading"
  /\ UNCHANGED <<streamVars, groupVars, batch, acks, rows, restarts>>

\* What a read of ">" may return: the next entries, up to the count.
Unread == {e \in entries : e > cursor}
NextEntries ==
  {some \in SUBSET Unread :
     /\ some # {} /\ Cardinality(some) <= ReadCount
     /\ \A e \in some, other \in Unread \ some : e < other}

\* Faulty variant: a read begins with what is pending, as a retry would.
ReadPendingToo ==
  /\ drain = "reading" /\ group
  /\ \E some \in NextEntries \cup (SUBSET pending \ {{}}) : \E top \in some :
       /\ \A e \in some : e <= top
       /\ batch' = some
       /\ cursor' = IF some \subseteq pending THEN cursor ELSE top
       /\ pending' = pending \cup some
       /\ seen' = seen \cup some
  /\ drain' = "inserting" /\ acks' = {}
  /\ UNCHANGED <<streamVars, group, rows, restarts>>

\* XREADGROUP ">": without a group it fails, and the loop sleeps and asks again.
Read ==
  /\ drain = "reading" /\ group
  /\ \E some \in NextEntries : \E top \in some :
       /\ \A e \in some : e <= top
       /\ batch' = some
       /\ cursor' = top
       /\ pending' = pending \cup some
       /\ seen' = seen \cup some
  /\ drain' = "inserting" /\ acks' = {}
  /\ UNCHANGED <<streamVars, group, rows, restarts>>

\* The entries are inserted in order.
NextIn == {e \in batch : \A o \in batch : e <= o}

InsertOk ==
  /\ drain = "inserting"
  /\ \E e \in NextIn :
       /\ rows' = [rows EXCEPT ![e] = @ + 1]
       /\ batch' = batch \ {e} /\ acks' = acks \cup {e}
  /\ UNCHANGED <<streamVars, groupVars, drain, restarts>>

\* Faulty variant: the id is collected before the error is looked at.
InsertFailsAcked ==
  /\ drain = "inserting"
  /\ \E e \in NextIn :
       /\ rows' \in {rows, [rows EXCEPT ![e] = @ + 1]}
       /\ batch' = batch \ {e} /\ acks' = acks \cup {e}
  /\ UNCHANGED <<streamVars, groupVars, drain, restarts>>

\* An error: the row may have been committed all the same.
InsertFails ==
  /\ drain = "inserting"
  /\ \E e \in NextIn :
       /\ rows' \in {rows, [rows EXCEPT ![e] = @ + 1]}
       /\ batch' = batch \ {e}
  /\ UNCHANGED <<streamVars, groupVars, drain, acks, restarts>>

\* XACK of what was inserted: its error is ignored.
Ack ==
  /\ drain = "inserting" /\ batch = {}
  /\ pending' \in {pending, pending \ acks}
  /\ drain' = "reading" /\ acks' = {}
  /\ UNCHANGED <<streamVars, group, cursor, seen, batch, rows, restarts>>

\* portal-api ends, with what it had read.
CrashDrain ==
  /\ drain # "off" /\ restarts < MaxRestarts
  /\ drain' = "off" /\ batch' = {} /\ acks' = {}
  /\ restarts' = restarts + 1
  /\ UNCHANGED <<streamVars, groupVars, rows>>

QLNext ==
  \/ Emit \/ EmitFails
  \/ StartDrain \/ StartWithoutGroup \/ Read
  \/ InsertOk \/ InsertFails \/ Ack \/ CrashDrain

\* The loop of Start never ends by itself, and a command that is sent is answered.
QLFairness == WF_qlVars(Read) /\ WF_qlVars(InsertOk \/ InsertFails) /\ WF_qlVars(Ack)
QLSpec == QLInit /\ [][QLNext]_qlVars /\ QLFairness

-----------------------------------------------------------------------------
QLTypeOK ==
  /\ last \in 0..MaxQueries /\ cursor \in 0..last
  /\ entries \subseteq 1..last /\ missed \subseteq 1..last
  /\ pending \subseteq seen /\ seen \subseteq 1..cursor
  /\ group \in BOOLEAN /\ drain \in {"off", "reading", "inserting"}
  /\ batch \subseteq pending /\ acks \subseteq pending
  /\ rows \in [Entries -> Nat]
  /\ restarts \in 0..MaxRestarts

\* An entry that portal-api was given and that has no row is still on the group's list
\* in Redis, through failed inserts, lost acknowledgements and restarts: nothing in the
\* code reads that list, but the loss can be seen and made good from it.
LossIsPending == \A e \in seen : rows[e] = 0 => e \in pending

\* The abstract log: an entry is waiting while it may still get its row.
Waiting == batch \cup Unread
Recorded == {e \in Entries : rows[e] > 0}
Promise == INSTANCE DeliveryLog WITH
  Queries <- Entries,
  unsent <- Entries \ (1..last),
  waiting <- Waiting,
  recorded <- Recorded,
  lost <- (1..last) \ (Waiting \cup Recorded)

\* No entry ever gets a second row, although an insert may be committed and reported
\* as failed, an acknowledgement lost and portal-api restarted at any point.
NoSecondRow == \A e \in Entries : rows[e] <= 1

\* Every entry the group was given is accounted for: by its one row, or on the list.
EntriesAccountedFor == QLTypeOK /\ LossIsPending /\ NoSecondRow

\* The drain does what the log promises.
KeepsPromise == Promise!LogSpec

\* Once the group exists and portal-api stays up, an entry of the stream is read or
\* trimmed: failing inserts do not hold up the queue.
QueueMoves ==
  \A e \in Entries :
    <>[](group /\ drain # "off") => []<>(e \notin Unread)

\* dnsdrain.go:26-27 "runs forever, draining the stream; creates the consumer group on
\* first run": whatever happens at its start.
DrainDrains == \A e \in Entries : <>[](drain # "off") => []<>(e \notin Unread)
=============================================================================
