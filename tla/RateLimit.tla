------------------------------ MODULE RateLimit ------------------------------
(***************************************************************************)
(* The limit on requests to /v1/check and /v1/command-check: a counter in  *)
(* Redis per client_id and minute, and one per source address and minute.  *)
(* A request computes a bucket's key, and only then charges it; it goes    *)
(* through both buckets in turn, and passes when Redis fails.  Redis may   *)
(* restart without its counters.                                           *)
(***************************************************************************)
EXTENDS Integers, FiniteSets

CONSTANTS
  Requests,    \* requests, each [no, client, ip]
  ClientLimit, \* RATE_LIMIT_PER_CLIENT_RPM (60)
  IpLimit,     \* RATE_LIMIT_PER_IP_RPM (600)
  MaxMinutes   \* bound on the clock, which counts minutes

ASSUME RateBounds ==
  /\ ClientLimit \in Nat \ {0} /\ IpLimit \in Nat \ {0}
  /\ MaxMinutes \in Nat
  /\ IsFiniteSet(Requests)

VARIABLES
  clock,
  stage,    \* request |-> "new", "client", "ip" (bucket it will charge), "passed", "refused"
  minute,   \* request |-> minute of the key it computed
  counters, \* Redis: bucket |-> charges
  charged,  \* history: request |-> buckets it got through with an answer of the Redis of now
  failed    \* history: Redis failed or restarted at some time

rateVars == <<clock, stage, minute, counters, charged, failed>>

Minutes == 0..MaxMinutes
Bucket(kind, id, m) == [kind |-> kind, id |-> id, minute |-> m]
Buckets == {Bucket("cid", r.client, m) : r \in Requests, m \in Minutes}
             \cup {Bucket("ip", r.ip, m) : r \in Requests, m \in Minutes}
Limit(b) == IF b.kind = "cid" THEN ClientLimit ELSE IpLimit

RateInit ==
  /\ clock = 0 /\ failed = FALSE
  /\ stage = [r \in Requests |-> "new"]
  /\ minute = [r \in Requests |-> 0]
  /\ counters = [b \in Buckets |-> 0]
  /\ charged = [r \in Requests |-> {}]

-----------------------------------------------------------------------------
\* rlBucketKey for the client: the minute is that of now.
Arrive(r) ==
  /\ stage[r] = "new"
  /\ stage' = [stage EXCEPT ![r] = "client"]
  /\ minute' = [minute EXCEPT ![r] = clock]
  /\ UNCHANGED <<clock, counters, charged, failed>>

\* What follows a check that lets the request through: the key of the other bucket, or
\* the handler.
Onward(r) ==
  /\ stage' = [stage EXCEPT ![r] = IF @ = "client" THEN "ip" ELSE "passed"]
  /\ minute' = IF stage[r] = "client" THEN [minute EXCEPT ![r] = clock] ELSE minute

BucketOf(r) ==
  IF stage[r] = "client" THEN Bucket("cid", r.client, minute[r]) ELSE Bucket("ip", r.ip, minute[r])

\* checkRateLimit: INCR, and refused above the limit.  The client's counter keeps what a
\* request was charged that the address's counter then refuses.
Charge(r) ==
  /\ stage[r] \in {"client", "ip"}
  /\ LET b == BucketOf(r) IN
       /\ counters' = [counters EXCEPT ![b] = @ + 1]
       /\ IF counters[b] + 1 <= Limit(b)
            THEN Onward(r) /\ charged' = [charged EXCEPT ![r] = @ \cup {b}]
            ELSE /\ stage' = [stage EXCEPT ![r] = "refused"]
                 /\ UNCHANGED <<minute, charged>>
  /\ UNCHANGED <<clock, failed>>

\* Redis gives an error: the request is let through, and may have been counted.
ChargeFails(r) ==
  /\ stage[r] \in {"client", "ip"}
  /\ counters' \in {counters, [counters EXCEPT ![BucketOf(r)] = @ + 1]}
  /\ Onward(r)
  /\ failed' = TRUE
  /\ UNCHANGED <<clock, charged>>

\* Faulty variant: counters go as soon as their minute is over.
MinuteForgets ==
  /\ clock < MaxMinutes
  /\ clock' = clock + 1
  /\ counters' = [b \in Buckets |-> IF b.minute < clock + 1 THEN 0 ELSE counters[b]]
  /\ UNCHANGED <<stage, minute, charged, failed>>

\* Time passes.  A counter expires two minutes after its last charge, which came in the
\* bucket's minute or in the next one: a request does not take longer between its key and
\* its charge.
NextMinute ==
  /\ clock < MaxMinutes
  /\ \A r \in Requests : stage[r] \in {"client", "ip"} => minute[r] + 1 >= clock + 1
  /\ clock' = clock + 1
  /\ \E soon \in SUBSET {b \in Buckets : b.minute + 2 = clock + 1 /\ counters[b] > 0} :
       counters' = [b \in Buckets |->
                      IF b.minute + 2 < clock + 1 \/ b \in soon THEN 0 ELSE counters[b]]
  /\ UNCHANGED <<stage, minute, charged, failed>>

\* Redis restarts without its counters, with which the count of what passed begins anew.
RedisForgets ==
  /\ counters' = [b \in Buckets |-> 0]
  /\ charged' = [r \in Requests |-> {}]
  /\ failed' = TRUE
  /\ UNCHANGED <<clock, stage, minute>>

RateNext == NextMinute \/ RedisForgets \/ \E r \in Requests : Arrive(r) \/ Charge(r) \/ ChargeFails(r)
RateSpec == RateInit /\ [][RateNext]_rateVars

-----------------------------------------------------------------------------
RateTypeOK ==
  /\ clock \in 0..MaxMinutes /\ failed \in BOOLEAN
  /\ stage \in [Requests -> {"new", "client", "ip", "passed", "refused"}]
  /\ minute \in [Requests -> Minutes] /\ counters \in [Buckets -> Nat]
  /\ charged \in [Requests -> SUBSET Buckets]

\* Between two restarts of Redis no more requests get through a bucket than its limit,
\* although they compute their keys, charge and go on to the second bucket in any order,
\* some of them after the bucket's minute is over; a failed charge may only make the limit
\* tighter.
BucketBound ==
  \A b \in Buckets : Cardinality({r \in Requests : b \in charged[r]}) <= Limit(b)

\* As long as requests may charge a bucket, its counter holds at least what got through
\* it: a counter that expired too early would let the limit through twice.
ChargesAreCounted ==
  \A b \in Buckets : b.minute + 1 >= clock =>
    Cardinality({r \in Requests : b \in charged[r]}) <= counters[b]

\* A request that passed while Redis answered, and never restarted, was counted in both its buckets.
PassedIsCounted ==
  \A r \in Requests : stage[r] = "passed" /\ ~failed =>
    {b.kind : b \in charged[r]} = {"cid", "ip"}

\* The limit holds for each bucket, and it holds because what passes is counted, and
\* counted for long enough.
LimitsHold == RateTypeOK /\ BucketBound /\ ChargesAreCounted /\ PassedIsCounted
=============================================================================
