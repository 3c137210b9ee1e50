----------------------------- MODULE LimitsProofs -----------------------------
(***************************************************************************)
(* Proofs about what keeps to a bound around the verdict, for any requests, *)
(* answers, pages, lines and feeds: the rate limit, the feeds, the session *)
(* log, the ledger of returned addresses, and deep scan.                   *)
(***************************************************************************)
EXTENDS RateLimit, Feeds, SessionLog, Ledger, DeepScan,
        FiniteSetTheorems, SequenceTheorems, WellFoundedInduction, TLAPS

(***************************************************************************)
(* Numbers and recursion: the library states induction for an operator,    *)
(* which cannot be cited; here it is stated for a set.                     *)
(***************************************************************************)
\* Of any numbers one is the least: their initial segments are finite sets.
LEMMA Least == ASSUME NEW T, T \subseteq Nat, T # {} PROVE \E m \in T : \A n \in T : m <= n
<1> DEFINE R == StrictSubsetOrdering(Nat)
           Segments == {0..n : n \in T}
<1>1. IsWellFoundedOn(R, FiniteSubsetsOf(Nat))
  BY FS_StrictSubsetOrderingWellFounded
<1>2. Segments \subseteq FiniteSubsetsOf(Nat) /\ Segments # {}
  <2>1. \A n \in T : IsFiniteSet(0..n) /\ 0..n \subseteq Nat
    BY FS_Interval
  <2> QED
    BY <2>1 DEF FiniteSubsetsOf
<1>3. \A s, t \in Segments : s \subseteq t /\ s # t => <<s, t>> \in R
  BY DEF StrictSubsetOrdering
<1> HIDE DEF R
<1>4. PICK s \in Segments : \A t \in Segments : <<t, s>> \notin R
  <2> HIDE DEF Segments
  <2> QED
    BY <1>1, <1>2, WFMin
<1>5. PICK m \in T : s = 0..m
  OBVIOUS
<1>6. ASSUME NEW n \in T PROVE m <= n
  <2>1. CASE n < m
    <3>1. 0..n \subseteq 0..m /\ 0..n # 0..m
      BY <2>1, <1>5, m \in Nat, n \in Nat
    <3> QED
      BY <3>1, <1>3, <1>4, <1>5
  <2> QED
    BY <2>1
<1> QED
  BY <1>6

\* Induction over the numbers up to a bound, of a set.
LEMMA UpTo ==
  ASSUME NEW N \in Nat, NEW T, 0 \in T, \A n \in 1..N : n - 1 \in T => n \in T
  PROVE  0..N \subseteq T
<1> SUFFICES ASSUME (0..N) \ T # {} PROVE FALSE
  OBVIOUS
<1>1. (0..N) \ T \subseteq Nat
  OBVIOUS
<1>2. PICK m \in (0..N) \ T : \A n \in (0..N) \ T : m <= n
  BY <1>1, Least
<1>3. m \in 1..N /\ m - 1 \in 0..N
  BY <1>2
<1>4. m - 1 \in T
  BY <1>2, <1>3
<1> QED
  BY <1>2, <1>3, <1>4

\* What a recursion over the numbers up to a bound says, a function does.
Steps(N, V) == [1..N -> [V -> V]]
Follows(g, N, v, F) == g[0] = v /\ \A i \in 1..N : g[i] = F[i][g[i - 1]]

LEMMA Recursion ==
  ASSUME NEW N \in Nat, NEW V, NEW v \in V, NEW F \in Steps(N, V)
  PROVE  \E g \in [0..N -> V] : Follows(g, N, v, F)
<1> USE DEF Steps, Follows
<1> DEFINE T == {n \in Nat : n <= N => \E g \in [0..n -> V] : g[0] = v /\ \A i \in 1..n : g[i] = F[i][g[i - 1]]}
<1>1. 0 \in T
  <2>1. [i \in 0..0 |-> v] \in [0..0 -> V] /\ [i \in 0..0 |-> v][0] = v /\ 1..0 = {}
    OBVIOUS
  <2> QED
    BY <2>1
<1>2. ASSUME NEW n \in 1..N, n - 1 \in T PROVE n \in T
  <2>1. PICK g \in [0..(n - 1) -> V] : g[0] = v /\ \A i \in 1..(n - 1) : g[i] = F[i][g[i - 1]]
    BY <1>2
  <2> DEFINE h == [i \in 0..n |-> IF i = n THEN F[n][g[n - 1]] ELSE g[i]]
  <2>2. g[n - 1] \in V /\ F[n][g[n - 1]] \in V
    BY <2>1
  <2>3. h \in [0..n -> V]
    BY <2>1, <2>2
  <2>4. h[0] = v /\ \A i \in 1..n : h[i] = F[i][h[i - 1]]
    BY <2>1
  <2> HIDE DEF h
  <2> QED
    BY <2>3, <2>4
<1>3. \A n \in 1..N : n - 1 \in T => n \in T
  <2> HIDE DEF T
  <2> QED
    BY <1>2
<1> HIDE DEF T
<1>4. 0..N \subseteq T
  BY <1>1, <1>3, UpTo, Zenon
<1>5. N \in T
  BY <1>4
<1> QED
  BY <1>5 DEF T

(***************************************************************************)
(* RateLimit: no bucket lets more through than its limit.                  *)
(***************************************************************************)
Through(b) == {r \in Requests : b \in charged[r]}

\* A request charges within a minute of computing its key: the counters it may still
\* charge have not expired, which keeps ChargesAreCounted.
KeysAreYoung ==
  \A r \in Requests : stage[r] \in {"client", "ip"} =>
    minute[r] <= clock /\ minute[r] + 1 >= clock

\* What a request was counted in so far, as long as Redis answers.
CountedSoFar ==
  \A r \in Requests :
    /\ stage[r] \in {"new", "client"} => charged[r] = {}
    /\ stage[r] = "ip" /\ ~failed => {b.kind : b \in charged[r]} = {"cid"}

RateInv == LimitsHold /\ KeysAreYoung /\ CountedSoFar

-----------------------------------------------------------------------------
LEMMA ThroughIsFinite ==
  ASSUME NEW b PROVE IsFiniteSet(Through(b)) /\ Cardinality(Through(b)) \in Nat
<1>1. Through(b) \subseteq Requests
  BY DEF Through
<1>2. IsFiniteSet(Through(b))
  BY <1>1, RateBounds, FS_Subset
<1> QED
  BY <1>2, FS_CardinalityType

\* One request more is through one bucket, and none through the others.
LEMMA OneMoreThrough ==
  ASSUME RateTypeOK, NEW r \in Requests, NEW b \in Buckets,
         charged' = [charged EXCEPT ![r] = @ \cup {b}]
  PROVE  /\ Cardinality(Through(b)') <= Cardinality(Through(b)) + 1
         /\ \A c \in Buckets \ {b} : Through(c)' = Through(c)
<1> USE DEF RateTypeOK
<1>1. Through(b)' = Through(b) \cup {r}
  BY DEF Through
<1>2. Cardinality(Through(b) \cup {r}) <= Cardinality(Through(b)) + 1
  <2>1. IsFiniteSet(Through(b)) /\ Cardinality(Through(b)) \in Nat
    BY ThroughIsFinite
  <2>2. Cardinality(Through(b) \cup {r})
          = IF r \in Through(b) THEN Cardinality(Through(b)) ELSE Cardinality(Through(b)) + 1
    BY <2>1, FS_AddElement
  <2> QED
    BY <2>1, <2>2
<1>3. \A c \in Buckets \ {b} : Through(c)' = Through(c)
  BY DEF Through
<1> QED
  BY <1>1, <1>2, <1>3

LEMMA LimitIsNat == ASSUME NEW b PROVE Limit(b) \in Nat
  BY RateBounds DEF Limit

LEMMA RateInitInv == RateInit => RateInv
<1> SUFFICES ASSUME RateInit PROVE RateInv
  OBVIOUS
<1> USE RateBounds DEF RateInit
<1>1. RateTypeOK
  <2>1. clock \in 0..MaxMinutes /\ minute \in [Requests -> Minutes]
    BY DEF Minutes
  <2>2. counters \in [Buckets -> Nat] /\ charged \in [Requests -> SUBSET Buckets]
    OBVIOUS
  <2>3. stage \in [Requests -> {"new", "client", "ip", "passed", "refused"}] /\ failed \in BOOLEAN
    OBVIOUS
  <2> QED
    BY <2>1, <2>2, <2>3 DEF RateTypeOK
<1>2. \A b \in Buckets : Cardinality(Through(b)) = 0
  <2> SUFFICES ASSUME NEW b \in Buckets PROVE Cardinality(Through(b)) = 0
    OBVIOUS
  <2>1. Through(b) = {}
    BY DEF Through
  <2> QED
    BY <2>1, FS_EmptySet
<1>3. BucketBound
  BY <1>2, LimitIsNat DEF BucketBound, Through
<1>4. ChargesAreCounted
  BY <1>2 DEF ChargesAreCounted, Through
<1>5. PassedIsCounted /\ KeysAreYoung /\ CountedSoFar
  BY DEF PassedIsCounted, KeysAreYoung, CountedSoFar
<1> QED
  BY <1>1, <1>3, <1>4, <1>5 DEF RateInv, LimitsHold

-----------------------------------------------------------------------------
\* The bucket a request is about to charge, and its counter.
LEMMA BucketIsOpen ==
  ASSUME RateInv, NEW r \in Requests, stage[r] \in {"client", "ip"}
  PROVE  /\ BucketOf(r) \in Buckets
         /\ BucketOf(r).minute + 1 >= clock
         /\ BucketOf(r).kind = IF stage[r] = "client" THEN "cid" ELSE "ip"
<1> USE DEF RateInv, LimitsHold, RateTypeOK
<1>1. minute[r] \in Minutes /\ minute[r] + 1 >= clock
  BY DEF KeysAreYoung
<1>2. CASE stage[r] = "client"
  BY <1>1, <1>2 DEF BucketOf, Bucket, Buckets
<1>3. CASE stage[r] = "ip"
  BY <1>1, <1>3 DEF BucketOf, Bucket, Buckets
<1> QED
  BY <1>2, <1>3

LEMMA ArriveInv == ASSUME RateInv, NEW r \in Requests, Arrive(r) PROVE RateInv'
<1> USE RateBounds DEF RateInv, LimitsHold, RateTypeOK, Arrive
<1>1. RateTypeOK'
  BY DEF Minutes
<1>2. BucketBound' /\ ChargesAreCounted'
  BY DEF BucketBound, ChargesAreCounted, Limit
<1>3. PassedIsCounted'
  BY DEF PassedIsCounted
<1>4. KeysAreYoung'
  BY DEF KeysAreYoung
<1>5. CountedSoFar'
  BY DEF CountedSoFar
<1> QED
  BY <1>1, <1>2, <1>3, <1>4, <1>5

\* What a check that lets the request through changes: the next bucket's key is new.
LEMMA OnwardKeeps ==
  ASSUME RateInv, NEW r \in Requests, stage[r] \in {"client", "ip"}, Onward(r), clock' = clock
  PROVE  /\ stage' \in [Requests -> {"new", "client", "ip", "passed", "refused"}]
         /\ minute' \in [Requests -> Minutes]
         /\ KeysAreYoung'
<1> USE RateBounds DEF RateInv, LimitsHold, RateTypeOK, Onward
<1>1. stage' \in [Requests -> {"new", "client", "ip", "passed", "refused"}]
  OBVIOUS
<1>2. minute' \in [Requests -> Minutes]
  BY DEF Minutes
<1>3. KeysAreYoung'
  <2> SUFFICES ASSUME NEW q \in Requests, stage'[q] \in {"client", "ip"}
               PROVE  minute'[q] <= clock /\ minute'[q] + 1 >= clock
    BY DEF KeysAreYoung
  <2>1. CASE q = r
    BY <2>1 DEF KeysAreYoung
  <2>2. CASE q # r
    BY <2>2 DEF KeysAreYoung
  <2> QED
    BY <2>1, <2>2
<1> QED
  BY <1>1, <1>2, <1>3

LEMMA ChargeInv == ASSUME RateInv, NEW r \in Requests, Charge(r) PROVE RateInv'
<1> USE RateBounds
<1>1. /\ RateTypeOK /\ BucketBound /\ ChargesAreCounted /\ PassedIsCounted
      /\ KeysAreYoung /\ CountedSoFar
  BY DEF RateInv, LimitsHold
<1>2. stage[r] \in {"client", "ip"} /\ UNCHANGED <<clock, failed>>
  BY DEF Charge
<1>3. PICK b \in Buckets :
        /\ b = BucketOf(r) /\ b.minute + 1 >= clock
        /\ b.kind = IF stage[r] = "client" THEN "cid" ELSE "ip"
  BY <1>2, BucketIsOpen
<1>counted. counters' = [counters EXCEPT ![b] = @ + 1]
  BY <1>3 DEF Charge
<1>4. counters' \in [Buckets -> Nat]
  BY <1>1, <1>3, <1>counted DEF RateTypeOK
<1>5. CASE counters[b] + 1 <= Limit(b)
  <2>1. Onward(r) /\ charged' = [charged EXCEPT ![r] = @ \cup {b}]
    BY <1>3, <1>5 DEF Charge
  <2>2. RateTypeOK' /\ KeysAreYoung'
    BY <1>1, <1>2, <1>3, <1>counted, <1>4, <2>1, OnwardKeeps DEF RateTypeOK
  <2>3. /\ Cardinality(Through(b)') <= Cardinality(Through(b)) + 1
        /\ \A c \in Buckets \ {b} : Through(c)' = Through(c)
    BY <1>1, <1>3, <2>1, OneMoreThrough
  <2>4. Cardinality(Through(b)') \in Nat /\ Cardinality(Through(b)) \in Nat
    BY ThroughIsFinite, <2>2, RateBounds, FS_Subset, FS_CardinalityType DEF Through
  <2>5. Cardinality(Through(b)) <= counters[b] /\ counters[b] \in Nat
    BY <1>1, <1>3 DEF ChargesAreCounted, Through, RateTypeOK
  <2>6. Cardinality(Through(b)') <= Limit(b) /\ Cardinality(Through(b)') <= counters'[b]
    BY <1>1, <1>counted, <1>3, <1>5, <2>3, <2>4, <2>5, LimitIsNat DEF RateTypeOK
  <2>7. BucketBound'
    <3> SUFFICES ASSUME NEW c \in Buckets PROVE Cardinality(Through(c)') <= Limit(c)
      BY DEF BucketBound, Through, Limit
    <3>1. CASE c = b
      BY <2>6, <3>1
    <3>2. CASE c # b
      BY <1>1, <2>3, <3>2 DEF BucketBound, Through
    <3> QED
      BY <3>1, <3>2
  <2>8. ChargesAreCounted'
    <3> SUFFICES ASSUME NEW c \in Buckets, c.minute + 1 >= clock
                 PROVE  Cardinality(Through(c)') <= counters'[c]
      BY <1>2 DEF ChargesAreCounted, Through
    <3>1. CASE c = b
      BY <2>6, <3>1
    <3>2. CASE c # b
      <4>1. counters'[c] = counters[c]
        BY <1>1, <1>counted, <3>2 DEF RateTypeOK
      <4> QED
        BY <1>1, <2>3, <3>2, <4>1 DEF ChargesAreCounted, Through
    <3> QED
      BY <3>1, <3>2
  <2>9. {c.kind : c \in charged'[r]} = {c.kind : c \in charged[r]} \cup {b.kind}
    BY <1>1, <2>1 DEF RateTypeOK
  <2>10. \A q \in Requests \ {r} : stage'[q] = stage[q] /\ charged'[q] = charged[q]
    BY <1>1, <2>1 DEF RateTypeOK, Onward
  <2>11. stage'[r] = IF stage[r] = "client" THEN "ip" ELSE "passed"
    BY <1>1, <2>1 DEF RateTypeOK, Onward
  <2>12. stage[r] = "client" => charged[r] = {}
    BY <1>1 DEF CountedSoFar
  <2>13. stage[r] = "ip" /\ ~failed => {c.kind : c \in charged[r]} = {"cid"}
    BY <1>1 DEF CountedSoFar
  <2>14. CountedSoFar'
    <3> SUFFICES ASSUME NEW q \in Requests
                 PROVE  /\ stage'[q] \in {"new", "client"} => charged'[q] = {}
                        /\ stage'[q] = "ip" /\ ~failed => {c.kind : c \in charged'[q]} = {"cid"}
      BY <1>2 DEF CountedSoFar
    <3>1. CASE q = r
      <4>1. CASE stage[r] = "client"
        <5>1. {c.kind : c \in charged[r]} = {}
          BY <2>12, <4>1
        <5> QED
          BY <1>3, <2>9, <2>11, <3>1, <4>1, <5>1
      <4>2. CASE stage[r] = "ip"
        BY <2>11, <3>1, <4>2
      <4> QED
        BY <1>2, <4>1, <4>2
    <3>2. CASE q # r
      BY <1>1, <2>10, <3>2 DEF CountedSoFar
    <3> QED
      BY <3>1, <3>2
  <2>15. PassedIsCounted'
    <3> SUFFICES ASSUME NEW q \in Requests, stage'[q] = "passed", ~failed
                 PROVE  {c.kind : c \in charged'[q]} = {"cid", "ip"}
      BY <1>2 DEF PassedIsCounted
    <3>1. CASE q = r
      <4>1. stage[r] = "ip"
        BY <1>2, <2>11, <3>1
      <4> QED
        BY <1>3, <2>9, <2>13, <3>1, <4>1
    <3>2. CASE q # r
      BY <1>1, <2>10, <3>2 DEF PassedIsCounted
    <3> QED
      BY <3>1, <3>2
  <2> QED
    BY <2>2, <2>7, <2>8, <2>14, <2>15 DEF RateInv, LimitsHold
<1>6. CASE ~(counters[b] + 1 <= Limit(b))
  <2>1. stage' = [stage EXCEPT ![r] = "refused"] /\ UNCHANGED <<minute, charged>>
    BY <1>3, <1>6 DEF Charge
  <2>2. RateTypeOK'
    BY <1>1, <1>2, <1>4, <2>1 DEF RateTypeOK
  <2>3. BucketBound'
    BY <1>1, <2>1 DEF BucketBound, Limit
  <2>4. ChargesAreCounted'
    <3> SUFFICES ASSUME NEW c \in Buckets, c.minute + 1 >= clock
                 PROVE  Cardinality(Through(c)) <= counters'[c]
      BY <1>2, <2>1 DEF ChargesAreCounted, Through
    <3>1. Cardinality(Through(c)) <= counters[c] /\ Cardinality(Through(c)) \in Nat
      BY <1>1, ThroughIsFinite DEF ChargesAreCounted, Through
    <3>2. counters[c] \in Nat /\ counters'[c] \in {counters[c], counters[c] + 1}
      BY <1>1, <1>3, <1>counted DEF RateTypeOK
    <3> QED
      BY <3>1, <3>2
  <2>5. PassedIsCounted' /\ KeysAreYoung' /\ CountedSoFar'
    BY <1>1, <1>2, <2>1 DEF PassedIsCounted, KeysAreYoung, CountedSoFar, RateTypeOK
  <2> QED
    BY <2>2, <2>3, <2>4, <2>5 DEF RateInv, LimitsHold
<1> QED
  BY <1>5, <1>6

LEMMA ChargeFailsInv == ASSUME RateInv, NEW r \in Requests, ChargeFails(r) PROVE RateInv'
<1> DEFINE b == BucketOf(r)
<1> USE RateBounds
<1>1. /\ RateTypeOK /\ BucketBound /\ ChargesAreCounted /\ CountedSoFar
  BY DEF RateInv, LimitsHold
<1>2. /\ stage[r] \in {"client", "ip"} /\ counters' \in {counters, [counters EXCEPT ![b] = @ + 1]}
      /\ Onward(r) /\ failed' = TRUE /\ UNCHANGED <<clock, charged>>
  BY DEF ChargeFails
<1>3. b \in Buckets
  BY <1>2, BucketIsOpen
<1>4. \A c \in Buckets : counters[c] \in Nat /\ counters'[c] \in {counters[c], counters[c] + 1}
  BY <1>1, <1>2, <1>3 DEF RateTypeOK
<1>5. RateTypeOK' /\ KeysAreYoung'
  <2>1. counters' \in [Buckets -> Nat]
    BY <1>1, <1>2, <1>3 DEF RateTypeOK
  <2> QED
    BY <1>1, <1>2, <2>1, OnwardKeeps DEF RateTypeOK
<1>6. BucketBound'
  BY <1>1, <1>2 DEF BucketBound, Limit
<1>7. ChargesAreCounted'
  <2> SUFFICES ASSUME NEW c \in Buckets, c.minute + 1 >= clock
               PROVE  Cardinality(Through(c)) <= counters'[c]
    BY <1>2 DEF ChargesAreCounted, Through
  <2>1. Cardinality(Through(c)) <= counters[c] /\ Cardinality(Through(c)) \in Nat
    BY <1>1, ThroughIsFinite DEF ChargesAreCounted, Through
  <2> QED
    BY <1>4, <2>1
<1>8. PassedIsCounted'
  BY <1>2 DEF PassedIsCounted
<1>9. CountedSoFar'
  BY <1>1, <1>2 DEF CountedSoFar, Onward, RateTypeOK
<1> QED
  BY <1>5, <1>6, <1>7, <1>8, <1>9 DEF RateInv, LimitsHold

LEMMA NextMinuteInv == RateInv /\ NextMinute => RateInv'
<1> SUFFICES ASSUME RateInv, NextMinute PROVE RateInv'
  OBVIOUS
<1> USE RateBounds
<1>1. /\ RateTypeOK /\ BucketBound /\ ChargesAreCounted /\ PassedIsCounted
      /\ KeysAreYoung /\ CountedSoFar
  BY DEF RateInv, LimitsHold
<1>2. clock' = clock + 1 /\ clock' \in 0..MaxMinutes /\ UNCHANGED <<stage, minute, charged, failed>>
  BY <1>1 DEF NextMinute, RateTypeOK
<1>3. PICK soon \in SUBSET {b \in Buckets : b.minute + 2 = clock + 1 /\ counters[b] > 0} :
        counters' = [b \in Buckets |->
                       IF b.minute + 2 < clock + 1 \/ b \in soon THEN 0 ELSE counters[b]]
  BY DEF NextMinute
<1>4. \A b \in Buckets : b.minute \in Nat
  BY DEF Buckets, Bucket, Minutes
<1>5. counters' \in [Buckets -> Nat]
  BY <1>1, <1>3 DEF RateTypeOK
<1>6. RateTypeOK'
  BY <1>1, <1>2, <1>5 DEF RateTypeOK
<1>7. BucketBound'
  BY <1>1, <1>2 DEF BucketBound, Limit
<1>8. ChargesAreCounted'
  <2> SUFFICES ASSUME NEW b \in Buckets, b.minute + 1 >= clock + 1
               PROVE  Cardinality(Through(b)) <= counters'[b]
    BY <1>2 DEF ChargesAreCounted, Through
  <2>1. clock \in Nat /\ b.minute \in Nat
    BY <1>1, <1>4 DEF RateTypeOK
  <2>2. ~(b.minute + 2 < clock + 1) /\ b.minute + 2 # clock + 1 /\ b.minute + 1 >= clock
    BY <2>1
  <2>3. counters'[b] = counters[b]
    BY <1>3, <2>2
  <2> QED
    BY <1>1, <2>2, <2>3 DEF ChargesAreCounted, Through
<1>9. KeysAreYoung'
  <2> SUFFICES ASSUME NEW r \in Requests, stage[r] \in {"client", "ip"}
               PROVE  minute[r] <= clock + 1 /\ minute[r] + 1 >= clock + 1
    BY <1>2 DEF KeysAreYoung
  <2>1. minute[r] <= clock /\ minute[r] \in Nat /\ clock \in Nat
    BY <1>1 DEF KeysAreYoung, RateTypeOK, Minutes
  <2>2. minute[r] + 1 >= clock + 1
    BY DEF NextMinute
  <2> QED
    BY <2>1, <2>2
<1>10. PassedIsCounted' /\ CountedSoFar'
  BY <1>1, <1>2 DEF PassedIsCounted, CountedSoFar
<1> QED
  BY <1>6, <1>7, <1>8, <1>9, <1>10 DEF RateInv, LimitsHold

\* A new Redis has counted nothing, and nothing is through its buckets.
LEMMA RedisForgetsInv == RateInv /\ RedisForgets => RateInv'
<1> SUFFICES ASSUME RateInv, RedisForgets PROVE RateInv'
  OBVIOUS
<1> USE RateBounds DEF RedisForgets
<1>1. RateTypeOK /\ KeysAreYoung
  BY DEF RateInv, LimitsHold
<1>2. RateTypeOK'
  BY <1>1 DEF RateTypeOK
<1>3. \A b \in Buckets : Cardinality(Through(b)') = 0
  <2> SUFFICES ASSUME NEW b \in Buckets PROVE Cardinality(Through(b)') = 0
    OBVIOUS
  <2>1. Through(b)' = {}
    BY DEF Through
  <2> QED
    BY <2>1, FS_EmptySet
<1>4. BucketBound'
  BY <1>3, LimitIsNat DEF BucketBound, Through, Limit
<1>5. ChargesAreCounted'
  BY <1>3 DEF ChargesAreCounted, Through
<1>6. PassedIsCounted' /\ KeysAreYoung' /\ CountedSoFar'
  BY <1>1 DEF PassedIsCounted, KeysAreYoung, CountedSoFar
<1> QED
  BY <1>2, <1>4, <1>5, <1>6 DEF RateInv, LimitsHold

LEMMA RateStutterInv == RateInv /\ UNCHANGED rateVars => RateInv'
<1> SUFFICES ASSUME RateInv, UNCHANGED rateVars PROVE RateInv'
  OBVIOUS
<1> USE DEF rateVars, RateInv, LimitsHold
<1>1. RateTypeOK'
  BY DEF RateTypeOK
<1>2. BucketBound' /\ ChargesAreCounted'
  BY DEF BucketBound, ChargesAreCounted, Limit
<1>3. PassedIsCounted' /\ KeysAreYoung' /\ CountedSoFar'
  BY DEF PassedIsCounted, KeysAreYoung, CountedSoFar
<1> QED
  BY <1>1, <1>2, <1>3

LEMMA RateStepInv == RateInv /\ [RateNext]_rateVars => RateInv'
  BY ArriveInv, ChargeInv, ChargeFailsInv, NextMinuteInv, RedisForgetsInv, RateStutterInv DEF RateNext

\* However many requests come, in whatever order they compute their keys and charge, and
\* whatever the limits: from one restart of Redis to the next, no bucket lets more through
\* than its limit (ratelimit.go's checkRateLimit).
THEOREM RateIsLimited == RateSpec => []LimitsHold
<1>1. RateInv => LimitsHold
  BY DEF RateInv
<1>2. RateSpec => []RateInv
  BY RateInitInv, RateStepInv, PTL DEF RateSpec
<1> QED
  BY <1>1, <1>2, PTL

(***************************************************************************)
(* Feeds: what the table holds of a feed came in whole copies.             *)
(***************************************************************************)
\* The transaction holds, entered and to be entered, all of a copy, of one feed's rows.
EntersACopy ==
  entering # Idle =>
    /\ entering.feed \in DOMAIN FeedRows
    /\ entering.left \cup entering.rows \in fetched[entering.feed]
    /\ \A r \in entering.left \cup entering.rows : r.source = entering.feed

FeedInv == FeedsAreWhole /\ EntersACopy

\* The table and the copies fetched only grow, where one of them changes at all.
LEMMA WholeStays ==
  ASSUME FeedInv, listed \subseteq listed', DOMAIN fetched' = DOMAIN FeedRows,
         \A f \in DOMAIN FeedRows : fetched[f] \subseteq fetched'[f],
         NEW f \in DOMAIN FeedRows, NEW r \in listed, r.source = f
  PROVE  \E copy \in fetched'[f] : r \in copy /\ copy \subseteq listed'
<1>1. PICK copy \in fetched[f] : r \in copy /\ copy \subseteq listed
  BY DEF FeedInv, FeedsAreWhole, CopiesAreWhole
<1> QED
  BY <1>1

LEMMA FeedStep == FeedInv /\ [FeedNext]_feedVars => FeedInv'
<1> SUFFICES ASSUME FeedInv, [FeedNext]_feedVars PROVE FeedInv'
  OBVIOUS
<1> USE DEF FeedInv, FeedsAreWhole
<1>1. ASSUME UNCHANGED <<listed, fetched, entering>>, candidates' \subseteq QueuedDomains PROVE FeedInv'
  BY <1>1 DEF FeedTypeOK, CopiesAreWhole, EntersACopy
<1>2. ASSUME NEW d \in QueuedDomains, QueueDomain(d) PROVE FeedInv'
  <2>1. candidates' \subseteq QueuedDomains
    BY <1>2 DEF QueueDomain, FeedTypeOK
  <2> QED
    BY <1>1, <1>2, <2>1 DEF QueueDomain
<1>3. CASE UNCHANGED feedVars
  BY <1>1, <1>3 DEF feedVars, FeedTypeOK
<1>4. CASE Subjack
  <2>1. PICK found : listed' = listed \cup {[source |-> "subjack", url |-> d] : d \in found}
    BY <1>4 DEF Subjack
  <2>2. UNCHANGED <<candidates, entering, fetched>>
    BY <1>4 DEF Subjack
  <2>3. CopiesAreWhole'
    <3> SUFFICES ASSUME NEW f \in DOMAIN FeedRows, NEW r \in listed', r.source = f
                 PROVE  \E copy \in fetched[f] : r \in copy /\ copy \subseteq listed'
      BY <2>2 DEF CopiesAreWhole
    <3>1. r \in listed
      BY <2>1, FeedBounds
    <3> QED
      BY <2>1, <2>2, <3>1, WholeStays DEF FeedTypeOK
  <2> QED
    BY <2>2, <2>3 DEF FeedTypeOK, EntersACopy
<1>5. ASSUME NEW f \in DOMAIN FeedRows, Fetch(f) PROVE FeedInv'
  <2>1. PICK copy \in SUBSET FeedRows[f] :
          /\ entering' = [feed |-> f, left |-> Taken(copy), rows |-> {}]
          /\ fetched' = [fetched EXCEPT ![f] = @ \cup {Taken(copy)}]
    BY <1>5 DEF Fetch
  <2>2. UNCHANGED <<candidates, listed>>
    BY <1>5 DEF Fetch
  <2>3. \A r \in Taken(copy) : r.source = f
    BY FeedBounds DEF Taken
  <2>4. /\ DOMAIN fetched' = DOMAIN FeedRows
        /\ \A g \in DOMAIN FeedRows : fetched'[g] = IF g = f THEN fetched[g] \cup {Taken(copy)} ELSE fetched[g]
    BY <2>1 DEF FeedTypeOK
  <2>5. CopiesAreWhole'
    BY <2>2, <2>4, WholeStays DEF CopiesAreWhole
  <2>6. EntersACopy'
    BY <2>1, <2>3, <2>4 DEF EntersACopy
  <2>7. FeedTypeOK'
    BY <2>1, <2>2, <2>4 DEF FeedTypeOK
  <2> QED
    BY <2>5, <2>6, <2>7
<1>6. ASSUME NEW r \in entering.left, Upsert(r) PROVE FeedInv'
  <2>1. /\ entering # Idle
        /\ entering' = [entering EXCEPT !.left = @ \ {r}, !.rows = @ \cup {r}]
        /\ UNCHANGED <<candidates, listed, fetched>>
    BY <1>6 DEF Upsert, Idle
  <2>2. \/ entering' = Idle
        \/ /\ entering'.feed = entering.feed
           /\ entering'.left \cup entering'.rows = entering.left \cup entering.rows
    BY <1>6, <2>1
  <2> QED
    BY <2>1, <2>2 DEF FeedTypeOK, CopiesAreWhole, EntersACopy
<1>7. CASE RollBack
  BY <1>7 DEF RollBack, FeedTypeOK, CopiesAreWhole, EntersACopy
<1>8. CASE Commit
  <2>1. /\ entering # Idle /\ entering.left = {} /\ entering' = Idle
        /\ listed' = listed \cup entering.rows /\ UNCHANGED <<candidates, fetched>>
    BY <1>8 DEF Commit
  <2>2. /\ entering.rows \in fetched[entering.feed] /\ entering.feed \in DOMAIN FeedRows
        /\ \A r \in entering.rows : r.source = entering.feed
    BY <2>1 DEF EntersACopy
  <2>3. CopiesAreWhole'
    <3> SUFFICES ASSUME NEW f \in DOMAIN FeedRows, NEW r \in listed', r.source = f
                 PROVE  \E copy \in fetched[f] : r \in copy /\ copy \subseteq listed'
      BY <2>1 DEF CopiesAreWhole
    <3>1. CASE r \in listed
      BY <2>1, <3>1, WholeStays DEF FeedTypeOK
    <3>2. CASE r \in entering.rows
      BY <2>1, <2>2, <3>2
    <3> QED
      BY <2>1, <3>1, <3>2
  <2> QED
    BY <2>1, <2>3 DEF FeedTypeOK, EntersACopy
<1> QED
  BY <1>2, <1>3, <1>4, <1>5, <1>6, <1>7, <1>8 DEF FeedNext

\* Of any feeds and copies, whatever sweeps come in between and wherever a transaction
\* breaks off: a row that feed_entries holds of a feed has the rest of a copy it came with
\* beside it (feeds.go's upsert).
THEOREM FeedsHold == FeedSpec => []FeedsAreWhole
<1>1. FeedInit => FeedInv
  BY DEF FeedInit, FeedInv, FeedsAreWhole, FeedTypeOK, CopiesAreWhole, EntersACopy
<1>2. FeedInv => FeedsAreWhole
  BY DEF FeedInv
<1> QED
  BY <1>1, <1>2, FeedStep, PTL DEF FeedSpec

(***************************************************************************)
(* SessionLog: a rotation drops the oldest generation that there is.       *)
(***************************************************************************)
LinesOf(g) == ToSet(files[g])

SessionTypes ==
  /\ written \in 0..MaxLines /\ open \in BOOLEAN /\ size \in Nat
  /\ step \in 0..(Generations + 1) /\ crashes \in 0..MaxCrashes
  /\ files \in [0..Generations -> Seq(Nat)]

\* A generation is older than the ones before it.
OldestLast ==
  /\ \A g \in 0..Generations : LinesOf(g) \subseteq 1..written
  /\ \A g, h \in 0..Generations : g < h => \A a \in LinesOf(g), b \in LinesOf(h) : b < a

\* The rotation shifts into a place that it has just left, and nothing is open meanwhile.
Rotating ==
  /\ step \in 1..Generations => files[step] = <<>>
  /\ step > 0 => ~open

\* What an unopened file holds leaves room for the line that is written unseen.
Capped ==
  /\ \A g \in 0..Generations : Len(files[g]) <= MaxSize + crashes
  /\ ~open /\ step = 0 => Len(files[0]) < MaxSize + crashes
  /\ open => size = Len(files[0])

SessionInv == SessionTypes /\ OldestLast /\ Rotating /\ Capped

\* Every step keeps it, and what a shift drops is older than what stays.
LEMMA SessionInitInv == SessionInit => SessionInv
<1> SUFFICES ASSUME SessionInit PROVE SessionInv
  OBVIOUS
<1>1. \A g \in 0..Generations : files[g] = <<>> /\ LinesOf(g) = {} /\ Len(files[g]) = 0
  BY DEF SessionInit, LinesOf, ToSet
<1>2. files \in [0..Generations -> Seq(Nat)]
  BY DEF SessionInit
<1>3. SessionTypes /\ OldestLast /\ Rotating /\ Capped
  BY <1>1, <1>2, SessionBounds DEF SessionInit, SessionTypes, OldestLast, Rotating, Capped
<1> QED
  BY <1>3 DEF SessionInv

\* A step that moves no file keeps all lines.
LEMMA SameLines ==
  ASSUME SessionInv, files' = files, written' \in {written, written + 1}
  PROVE  OldestLast' /\ Kept' = Kept
<1>1. Kept' = Kept /\ \A g \in 0..Generations : LinesOf(g)' = LinesOf(g)
  BY DEF Kept, LinesOf
<1>2. \A g \in 0..Generations : LinesOf(g)' \subseteq 1..written'
  <2>1. 1..written \subseteq 1..written'
    BY DEF SessionInv, SessionTypes
  <2> QED
    BY <1>1, <2>1 DEF SessionInv, OldestLast
<1> QED
  BY <1>1, <1>2 DEF SessionInv, OldestLast

\* A step of the rotation: the last generation goes, or a file moves into an empty place.
LEMMA ShiftInv == SessionInv /\ Shift => SessionInv' /\ \A l \in Kept \ Kept', k \in Kept \cap Kept' : l < k
<1> SUFFICES ASSUME SessionInv, Shift
             PROVE  SessionInv' /\ \A l \in Kept \ Kept', k \in Kept \cap Kept' : l < k
  OBVIOUS
<1> USE SessionBounds
<1> DEFINE g == step - 1
<1>1. /\ step > 0 /\ g \in 0..Generations /\ UNCHANGED <<written, open, crashes>> /\ ~open
      /\ step' = g /\ size' \in {0, size} /\ step = g + 1 /\ (g < Generations => g + 1 \in 1..Generations)
  BY DEF Shift, SessionInv, SessionTypes, Rotating
<1>2. files' = IF g = Generations THEN [files EXCEPT ![g] = <<>>] ELSE Renamed(g, g + 1)
  BY DEF Shift
<1> HIDE DEF g
<1>3. CASE g = Generations
  <2>1. files' = [files EXCEPT ![g] = <<>>]
    BY <1>2, <1>3
  <2>2. \A h \in 0..Generations : files'[h] = IF h = g THEN <<>> ELSE files[h]
    BY <1>1, <2>1 DEF SessionInv, SessionTypes
  <2>3. \A h \in 0..Generations : LinesOf(h)' = IF h = g THEN {} ELSE LinesOf(h)
    BY <2>2 DEF LinesOf, ToSet
  <2>4. SessionTypes'
    BY <1>1, <2>1 DEF SessionInv, SessionTypes
  <2>5. OldestLast' /\ Rotating'
    BY <1>1, <1>3, <2>2, <2>3 DEF SessionInv, OldestLast, Rotating
  <2>6. Capped'
    BY <1>1, <1>3, <2>2, <2>4 DEF SessionInv, SessionTypes, Capped
  <2>7. ASSUME NEW l \in Kept \ Kept', NEW k \in Kept \cap Kept' PROVE l < k
    <3>1. \A x : x \in Kept <=> \E h \in 0..Generations : x \in LinesOf(h)
      BY DEF Kept, LinesOf
    <3>2. \A x : x \in Kept' <=> \E h \in 0..Generations : x \in LinesOf(h)'
      BY DEF Kept, LinesOf
    <3>3. PICK h \in 0..Generations : k \in LinesOf(h)'
      BY <3>2
    <3>4. l \in LinesOf(g) /\ h # g /\ k \in LinesOf(h)
      BY <2>3, <3>1, <3>2, <3>3
    <3> QED
      BY <1>1, <1>3, <3>3, <3>4 DEF SessionInv, OldestLast
  <2> QED
    BY <2>4, <2>5, <2>6, <2>7 DEF SessionInv
<1>4. CASE g < Generations
  <2>1. files[g + 1] = <<>> /\ g + 1 \in 0..Generations /\ g \in Nat
    BY <1>1, <1>4 DEF SessionInv, Rotating
  <2>2. /\ files' \in [0..Generations -> Seq(Nat)]
        /\ \A h \in 0..Generations :
             files'[h] = IF h = g THEN <<>> ELSE IF h = g + 1 THEN files[g] ELSE files[h]
    <3>1. files \in [0..Generations -> Seq(Nat)] /\ files' = Renamed(g, g + 1) /\ g # g + 1
      BY <1>1, <1>2, <1>4 DEF SessionInv, SessionTypes
    <3>2. CASE files[g] = <<>>
      <4>1. files' = files
        BY <3>1, <3>2 DEF Renamed
      <4> QED
        BY <2>1, <3>1, <3>2, <4>1
    <3>3. CASE files[g] # <<>>
      <4>1. files' = [files EXCEPT ![g] = <<>>, ![g + 1] = files[g]]
        BY <3>1, <3>3 DEF Renamed
      <4>2. files[g] \in Seq(Nat) /\ <<>> \in Seq(Nat)
        BY <1>1, <3>1
      <4> QED
        BY <2>1, <3>1, <4>1, <4>2
    <3> QED
      BY <3>2, <3>3
  <2>3. \A h \in 0..Generations :
          LinesOf(h)' = IF h = g THEN {} ELSE IF h = g + 1 THEN LinesOf(g) ELSE LinesOf(h)
    BY <2>2 DEF LinesOf, ToSet
  <2>4. LinesOf(g + 1) = {}
    BY <2>1 DEF LinesOf, ToSet
  <2>5. SessionTypes'
    <3>1. written \in 0..MaxLines /\ open \in BOOLEAN /\ crashes \in 0..MaxCrashes /\ size \in Nat
      BY DEF SessionInv, SessionTypes
    <3>2. step' \in 0..(Generations + 1) /\ size' \in Nat
      BY <1>1, <2>1, <3>1
    <3> QED
      BY <1>1, <2>2, <3>1, <3>2 DEF SessionTypes
  <2>6. OldestLast'
    <3>1. ASSUME NEW h \in 0..Generations PROVE LinesOf(h)' \subseteq 1..written'
      BY <1>1, <2>3 DEF SessionInv, OldestLast
    <3>2. ASSUME NEW h \in 0..Generations, NEW i \in 0..Generations, h < i,
                 NEW a \in LinesOf(h)', NEW b \in LinesOf(i)'
          PROVE  b < a
      <4>1. h # g /\ i # g /\ a \in LinesOf(IF h = g + 1 THEN g ELSE h) /\ b \in LinesOf(IF i = g + 1 THEN g ELSE i)
        BY <1>1, <2>3
      <4>2. (IF h = g + 1 THEN g ELSE h) < (IF i = g + 1 THEN g ELSE i)
        BY <1>1, <3>2, <4>1
      <4> QED
        BY <1>1, <4>1, <4>2 DEF SessionInv, OldestLast
    <3> QED
      BY <3>1, <3>2 DEF OldestLast
  <2>rotating. Rotating'
    BY <1>1, <1>4, <2>2 DEF Rotating
  <2>7. Capped'
    <3>1. \A h \in 0..Generations : Len(files'[h]) <= MaxSize + crashes'
      <4>1. Len(<<>>) = 0 /\ 0 <= MaxSize + crashes
        BY DEF SessionInv, SessionTypes
      <4> QED
        BY <1>1, <2>2, <4>1 DEF SessionInv, Capped
    <3>2. step' = 0 => Len(files'[0]) < MaxSize + crashes'
      BY <1>1, <2>2 DEF SessionInv, SessionTypes
    <3> QED
      BY <1>1, <3>1, <3>2 DEF Capped
  <2>8. Kept \subseteq Kept'
    <3> SUFFICES ASSUME NEW h \in 0..Generations, NEW x \in LinesOf(h) PROVE \E i \in 0..Generations : x \in LinesOf(i)'
      BY DEF Kept, LinesOf
    <3>1. CASE h = g
      BY <2>1, <2>3, <3>1
    <3>2. CASE h # g
      BY <2>3, <2>4, <3>2
    <3> QED
      BY <3>1, <3>2
  <2> QED
    BY <2>5, <2>6, <2>rotating, <2>7, <2>8 DEF SessionInv
<1> QED
  BY <1>1, <1>3, <1>4

LEMMA WriteLineInv == SessionInv /\ WriteLine => SessionInv' /\ Kept \subseteq Kept'
<1> SUFFICES ASSUME SessionInv, WriteLine PROVE SessionInv' /\ Kept \subseteq Kept'
  OBVIOUS
<1> USE SessionBounds
<1>1. /\ files' = [files EXCEPT ![0] = Append(files[0], written + 1)] /\ step = 0 /\ step' = 0
      /\ written' = written + 1 /\ written < MaxLines /\ crashes' = crashes
      /\ open' = TRUE /\ size' = IF open THEN size + 1 ELSE Len(files[0]) + 1
      /\ open => size < MaxSize
  BY DEF WriteLine
<1>2. files[0] \in Seq(Nat) /\ written + 1 \in Nat /\ 0 \in 0..Generations
  BY DEF SessionInv, SessionTypes
<1> DEFINE longer == Append(files[0], written + 1)
<1>3. longer \in Seq(Nat) /\ Len(longer) = Len(files[0]) + 1 /\ Len(files[0]) \in Nat
      /\ ToSet(longer) = LinesOf(0) \cup {written + 1}
  <2>1. longer \in Seq(Nat) /\ Len(longer) = Len(files[0]) + 1 /\ Len(files[0]) \in Nat
        /\ DOMAIN longer = 1..(Len(files[0]) + 1) /\ DOMAIN files[0] = 1..Len(files[0])
    BY <1>2, AppendProperties
  <2>2. \A n \in 1..Len(files[0]) : longer[n] = files[0][n]
    BY <1>2, AppendProperties
  <2>3. longer[Len(files[0]) + 1] = written + 1
    BY <1>2, AppendProperties
  <2>4. LinesOf(0) = {files[0][n] : n \in 1..Len(files[0])}
    BY <2>1 DEF ToSet, LinesOf
  <2>5. ToSet(longer) = {longer[n] : n \in 1..(Len(files[0]) + 1)}
    BY <2>1 DEF ToSet
  <2>6. 1..(Len(files[0]) + 1) = 1..Len(files[0]) \cup {Len(files[0]) + 1}
    BY <2>1
  <2> HIDE DEF longer
  <2>7. ToSet(longer) = LinesOf(0) \cup {written + 1}
    BY <2>2, <2>3, <2>4, <2>5, <2>6
  <2> QED
    BY <2>1, <2>7
<1>4. files' = [files EXCEPT ![0] = longer]
  BY <1>1
<1> HIDE DEF longer
<1>5. /\ files' \in [0..Generations -> Seq(Nat)]
      /\ \A h \in 0..Generations : files'[h] = IF h = 0 THEN longer ELSE files[h]
  BY <1>2, <1>3, <1>4 DEF SessionInv, SessionTypes
<1>6. \A h \in 0..Generations : LinesOf(h)' = IF h = 0 THEN LinesOf(0) \cup {written + 1} ELSE LinesOf(h)
  BY <1>3, <1>5 DEF LinesOf
<1>7. SessionTypes'
  BY <1>1, <1>2, <1>3, <1>5 DEF SessionInv, SessionTypes
<1>8. OldestLast'
  <2>1. \A h \in 0..Generations : LinesOf(h)' \subseteq 1..written'
    <3>1. written \in Nat /\ 1..written \subseteq 1..(written + 1) /\ written + 1 \in 1..(written + 1)
      BY DEF SessionInv, SessionTypes
    <3> QED
      BY <1>1, <1>2, <1>6, <3>1 DEF SessionInv, OldestLast
  <2>2. ASSUME NEW h \in 0..Generations, NEW i \in 0..Generations, h < i,
               NEW a \in LinesOf(h)', NEW b \in LinesOf(i)'
        PROVE  b < a
    <3>1. i # 0 /\ b \in LinesOf(i) /\ b \in 1..written
      BY <1>6, <2>2 DEF SessionInv, OldestLast
    <3>2. CASE a = written + 1
      BY <1>2, <3>1, <3>2 DEF SessionInv, SessionTypes
    <3>3. CASE a # written + 1
      BY <1>6, <2>2, <3>1, <3>3 DEF SessionInv, OldestLast
    <3> QED
      BY <3>2, <3>3
  <2> QED
    BY <2>1, <2>2 DEF OldestLast
<1>rotating. Rotating'
  BY <1>1 DEF Rotating
<1>9. Capped'
  BY <1>1, <1>2, <1>3, <1>5 DEF SessionInv, SessionTypes, Capped
<1>10. Kept \subseteq Kept'
  <2> SUFFICES ASSUME NEW h \in 0..Generations, NEW x \in LinesOf(h) PROVE x \in LinesOf(h)'
    BY DEF Kept, LinesOf
  <2> QED
    BY <1>6
<1> QED
  BY <1>7, <1>8, <1>rotating, <1>9, <1>10 DEF SessionInv

LEMMA SessionStepInv ==
  SessionInv /\ [SessionNext]_sessionVars
    => SessionInv' /\ [\A l \in Kept \ Kept', k \in Kept \cap Kept' : l < k]_sessionVars
<1> SUFFICES ASSUME SessionInv, [SessionNext]_sessionVars
             PROVE  SessionInv' /\ \A l \in Kept \ Kept', k \in Kept \cap Kept' : l < k
  OBVIOUS
<1> USE SessionBounds
<1>1. CASE files' = files /\ ~NewDay
  <2>2. CASE BeginRotation
    <3>0. step' = Generations + 1 /\ open' = FALSE /\ UNCHANGED <<written, files, size, crashes>>
      BY <2>2 DEF BeginRotation
    <3>b. open' \in BOOLEAN
      BY <3>0
    <3>1. SessionTypes'
      BY <3>0, <3>b DEF SessionInv, SessionTypes
    <3>2. Rotating'
      BY <3>0 DEF Rotating
    <3>3. Capped'
      BY <3>0 DEF SessionInv, Capped
    <3> QED
      BY <1>1, <3>0, <3>1, <3>2, <3>3, SameLines DEF SessionInv
  <2>3. CASE WriteLineFails
    <3>1. SessionTypes'
      <4>1. open' \in BOOLEAN
        BY <2>3 DEF WriteLineFails, SessionInv, SessionTypes
      <4>2. size' \in Nat
        <5>1. files[0] \in Seq(Nat)
          BY DEF SessionInv, SessionTypes
        <5> QED
          BY <2>3, <5>1 DEF WriteLineFails, SessionInv, SessionTypes
      <4>3. written' \in 0..MaxLines /\ UNCHANGED <<files, step, crashes>>
        BY <2>3 DEF WriteLineFails, SessionInv, SessionTypes
      <4> QED
        BY <4>1, <4>2, <4>3 DEF SessionInv, SessionTypes
    <3>2. Rotating'
      BY <1>1, <2>3 DEF WriteLineFails, SessionInv, Rotating
    <3>3. Capped'
      BY <1>1, <2>3 DEF WriteLineFails, SessionInv, SessionTypes, Capped
    <3> QED
      BY <1>1, <2>3, <3>1, <3>2, <3>3, SameLines DEF WriteLineFails, SessionInv
  <2>4. CASE CrashLog
    <3>0. /\ step' = 0 /\ open' = FALSE /\ size' = 0 /\ crashes' = crashes + 1 /\ crashes < MaxCrashes
          /\ UNCHANGED <<written, files>>
      BY <2>4 DEF CrashLog
    <3>b. open' \in BOOLEAN
      BY <3>0
    <3>1. SessionTypes' /\ Rotating'
      BY <3>0, <3>b DEF SessionInv, SessionTypes, Rotating
    <3>2. \A g \in 0..Generations : Len(files[g]) < MaxSize + (crashes + 1)
      BY DEF SessionInv, SessionTypes, Capped
    <3>3. Capped'
      BY <1>1, <2>4, <3>2 DEF CrashLog, SessionInv, SessionTypes, Capped
    <3> QED
      BY <1>1, <2>4, <3>1, <3>3, SameLines DEF CrashLog, SessionInv
  <2>5. CASE UNCHANGED sessionVars
    <3>1. SessionTypes' /\ Rotating' /\ Capped'
      BY <2>5 DEF sessionVars, SessionInv, SessionTypes, Rotating, Capped
    <3> QED
      BY <1>1, <2>5, <3>1, SameLines DEF sessionVars, SessionInv
  <2>6. CASE Shift \/ WriteLine
    BY <2>6, ShiftInv, WriteLineInv
  <2> QED
    BY <1>1, <2>2, <2>3, <2>4, <2>5, <2>6 DEF SessionNext
<1>2. CASE Shift
  BY <1>2, ShiftInv
<1>3. CASE WriteLine
  BY <1>3, WriteLineInv
<1>4. CASE NewDay
  <2>1. \A g \in 0..Generations : files'[g] = <<>> /\ LinesOf(g)' = {} /\ Len(files'[g]) = 0
    BY <1>4 DEF NewDay, LinesOf, ToSet
  <2>2. files' \in [0..Generations -> Seq(Nat)]
    BY <1>4 DEF NewDay
  <2>3. Kept' = {}
    BY <2>1 DEF Kept, LinesOf
  <2>4. SessionTypes' /\ Rotating'
    <3>1. step' = 0 /\ open' = FALSE /\ size' = 0 /\ UNCHANGED <<written, crashes>>
      BY <1>4 DEF NewDay
    <3>b. open' \in BOOLEAN
      BY <3>1
    <3> QED
      BY <2>2, <3>1, <3>b DEF SessionInv, SessionTypes, Rotating
  <2>5. OldestLast' /\ Capped'
    BY <1>4, <2>1 DEF NewDay, SessionInv, SessionTypes, OldestLast, Capped
  <2> QED
    BY <2>3, <2>4, <2>5 DEF SessionInv
<1> QED
  BY <1>1, <1>2, <1>3, <1>4 DEF SessionNext, BeginRotation, WriteLineFails, CrashLog, sessionVars

\* For any size, number of generations and number of restarts, in the middle of rotations
\* too: files keep to their size but for a line with each restart, and no line is dropped
\* while an older one is kept (sessionlog.go's writeSessionLog and rotateCurrent).
THEOREM LogIsKept == SessionSpec => LogHolds
<1>1. SessionInv => SessionTypeOK /\ FilesAreCapped
  <2> SUFFICES ASSUME SessionInv PROVE SessionTypeOK /\ FilesAreCapped
    OBVIOUS
  <2>1. \A g \in 0..Generations : \A n \in DOMAIN files[g] : files[g][n] \in 1..written
    BY DEF SessionInv, OldestLast, LinesOf, ToSet
  <2> QED
    BY <2>1 DEF SessionInv, SessionTypes, Capped, SessionTypeOK, FilesAreCapped
<1> QED
  BY <1>1, SessionInitInv, SessionStepInv, PTL DEF SessionSpec, LogHolds, OldestGoesFirst

(***************************************************************************)
(* Ledger: it vouches for an address only as the resolver did.             *)
(***************************************************************************)
\* The least TTL is a number, whatever the order of the records.
LEMMA MinOfType ==
  ASSUME NEW answer, Len(answer) \in Nat, \A n \in 1..Len(answer) : answer[n].ttl \in Nat
  PROVE  MinOf(answer) \in Nat
<1> DEFINE N == Len(answer)
           F == [n \in 1..N |-> [low \in Nat |-> IF low = 0 \/ answer[n].ttl < low THEN answer[n].ttl ELSE low]]
           Up(g) == [n \in 0..N |-> IF n = 0 THEN 0
                                    ELSE IF g[n - 1] = 0 \/ answer[n].ttl < g[n - 1] THEN answer[n].ttl ELSE g[n - 1]]
           upTo == CHOOSE g : g = Up(g)
<1>1. N \in Nat /\ 0 \in Nat /\ F \in Steps(N, Nat)
  BY DEF Steps
<1>2. PICK g \in [0..N -> Nat] : g[0] = 0 /\ \A n \in 1..N : g[n] = F[n][g[n - 1]]
  <2> HIDE DEF N, F
  <2>1. \E g \in [0..N -> Nat] : Follows(g, N, 0, F)
    BY <1>1, Recursion
  <2> QED
    BY <2>1 DEF Follows
<1>3. \A n \in 1..N : F[n][g[n - 1]] =
          IF g[n - 1] = 0 \/ answer[n].ttl < g[n - 1] THEN answer[n].ttl ELSE g[n - 1]
  OBVIOUS
<1>4. g = Up(g)
  <2> HIDE DEF F
  <2> QED
    BY <1>2, <1>3
<1>5. upTo = Up(upTo)
  <2> HIDE DEF Up
  <2> QED
    BY <1>4
<1> HIDE DEF F, upTo
<1> DEFINE T == {n \in 0..N : upTo[n] \in Nat}
<1>6. 0 \in T
  BY <1>5
<1>7. \A n \in 1..N : n - 1 \in T => n \in T
  BY <1>5
<1>8. 0..N \subseteq T
  <2> HIDE DEF T, Up
  <2> QED
    BY <1>6, <1>7, UpTo
<1>9. upTo[N] \in Nat
  BY <1>8
<1>10. MinOf(answer) = upTo[N]
  BY DEF MinOf, upTo
<1> QED
  BY <1>9, <1>10

\* What remains of an answer are records of it whose address is not reserved.
Passed(answer) == {answer[n] : n \in {m \in 1..Len(answer) : ~Reserved(answer[m].ip)}}

\* So the filter lets through nothing else.
LEMMA FilterType ==
  ASSUME NEW answer, Len(answer) \in Nat PROVE Filter(answer) \in Seq(Passed(answer))
<1> DEFINE N == Len(answer)
           V == Seq(Passed(answer))
           Keeping(n, kept) == IF Reserved(answer[n].ip) THEN kept ELSE Append(kept, answer[n])
           F == [n \in 1..N |-> [kept \in V |-> Keeping(n, kept)]]
           Up(g) == [n \in 0..N |-> IF n = 0 THEN <<>> ELSE Keeping(n, g[n - 1])]
           upTo == CHOOSE g : g = Up(g)
<1>1. Filter(answer) = upTo[N]
  BY DEF Filter
<1>2. N \in Nat /\ <<>> \in V
  OBVIOUS
<1>3. ASSUME NEW n \in 1..N, NEW kept \in V PROVE Keeping(n, kept) \in V
  <2>1. CASE Reserved(answer[n].ip)
    BY <2>1
  <2>2. CASE ~Reserved(answer[n].ip)
    <3>1. answer[n] \in Passed(answer)
      BY <2>2 DEF Passed
    <3> QED
      BY <2>2, <3>1, AppendProperties
  <2> QED
    BY <2>1, <2>2
<1> HIDE DEF V, Keeping, N
<1>4. F \in Steps(N, V)
  BY <1>3 DEF Steps
<1>5. PICK g \in [0..N -> V] : g[0] = <<>> /\ \A n \in 1..N : g[n] = F[n][g[n - 1]]
  <2> HIDE DEF F
  <2>1. \E g \in [0..N -> V] : Follows(g, N, <<>>, F)
    BY <1>2, <1>4, Recursion
  <2> QED
    BY <2>1 DEF Follows
<1>6. \A n \in 1..N : n - 1 \in 0..N /\ g[n - 1] \in V
  BY <1>2, <1>5
<1>7. \A n \in 1..N : F[n][g[n - 1]] = Keeping(n, g[n - 1])
  BY <1>6
<1>8. g = Up(g)
  <2> HIDE DEF F
  <2> QED
    BY <1>2, <1>5, <1>7
<1>9. upTo = Up(upTo)
  <2> HIDE DEF Up
  <2> QED
    BY <1>8
<1> HIDE DEF F, upTo
<1> DEFINE T == {n \in 0..N : upTo[n] \in V}
<1>10. 0 \in T
  BY <1>2, <1>9
<1>11. \A n \in 1..N : n - 1 \in T => n \in T
  <2>1. \A n \in 1..N : n \in 0..N /\ n # 0 /\ upTo[n] = Keeping(n, upTo[n - 1])
    BY <1>2, <1>9
  <2> QED
    BY <1>3, <2>1
<1>12. 0..N \subseteq T
  <2> HIDE DEF T, Up
  <2> QED
    BY <1>2, <1>10, <1>11, UpTo
<1> QED
  BY <1>1, <1>2, <1>12 DEF V

-----------------------------------------------------------------------------
\* Addresses the resolver gave to a client for a domain, and the entries that may be on the
\* list of that pair.
Vouched(k) == {ip \in Addresses : ~Reserved(ip) /\ [key |-> k, ip |-> ip] \in told}
EntriesFor(k) == [ip : Vouched(k), ttl : MinTTL..MaxTTL, ts : 0..now]

LedgerInv ==
  /\ now \in 0..MaxNow
  /\ \A w \in writes : w.key \in Keys /\ w.ttl \in MinTTL..MaxTTL /\ w.ips \in Seq(Vouched(w.key))
  /\ lists = [k \in Keys |-> lists[k]] /\ expiry = [k \in Keys |-> expiry[k]]
  /\ \A k \in Keys : lists[k] \in Seq(EntriesFor(k)) /\ expiry[k] \in {Never} \cup {n \in Nat : n > now}

\* The resolver answers, its writes come late or cut off, entries expire, processes restart.
LEMMA LedgerInitInv == LedgerInit => LedgerInv
BY LedgerBounds DEF LedgerInit, LedgerInv

LEMMA ClampType == \A ttl \in Nat : Clamp(ttl) \in MinTTL..MaxTTL
BY LedgerBounds DEF Clamp

\* More is told, time passes: an entry stays what it is.
LEMMA EntriesGrow ==
  ASSUME LedgerInv, told \subseteq told', now' \in {now, now + 1}, NEW k
  PROVE  Vouched(k) \subseteq Vouched(k)' /\ Seq(Vouched(k)) \subseteq Seq(Vouched(k)')
         /\ Seq(EntriesFor(k)) \subseteq Seq(EntriesFor(k)')
<1>1. Vouched(k) \subseteq Vouched(k)'
  BY DEF Vouched
<1>2. 0..now \subseteq 0..now'
  BY DEF LedgerInv
<1>3. EntriesFor(k) \subseteq EntriesFor(k)'
  BY <1>1, <1>2 DEF EntriesFor
<1> QED
  BY <1>1, <1>3, SeqMonotonic

LEMMA AnswerInv == ASSUME LedgerInv, NEW k \in Keys, Answer(k) PROVE LedgerInv'
<1>1. PICK answer \in Answers :
        LET given == Filter(answer) IN
          /\ told' = told \cup {[key |-> k, ip |-> given[n].ip] : n \in DOMAIN given}
          /\ writes' = writes \cup {[no |-> answers, key |-> k, ttl |-> Clamp(MinOf(given)),
                                     ips |-> [n \in DOMAIN given |-> given[n].ip]]}
  BY DEF Answer
<1>2. UNCHANGED <<now, lists, expiry>> /\ told \subseteq told' /\ now' \in {now, now + 1}
  BY <1>1 DEF Answer
<1> DEFINE given == Filter(answer)
           ips == [n \in DOMAIN given |-> given[n].ip]
           write == [no |-> answers, key |-> k, ttl |-> Clamp(MinOf(given)), ips |-> ips]
<1>3. given \in Seq(Passed(answer)) /\ Len(given) \in Nat /\ DOMAIN given = 1..Len(given)
      /\ \A n \in 1..Len(given) : given[n] \in Passed(answer)
  BY FilterType, LedgerBounds, LenProperties, ElementOfSeq
<1>4. \A rr \in Passed(answer) : rr.ip \in Addresses /\ ~Reserved(rr.ip) /\ rr.ttl \in Nat
  BY LedgerBounds DEF Passed, Addresses
<1>5. told' = told \cup {[key |-> k, ip |-> given[n].ip] : n \in DOMAIN given} /\ writes' = writes \cup {write}
  BY <1>1
<1> HIDE DEF given
<1>6. \A n \in 1..Len(given) : given[n].ip \in Vouched(k)'
  BY <1>3, <1>4, <1>5 DEF Vouched
<1>7. ips \in Seq(Vouched(k)')
  BY <1>3, <1>6
<1>8. Clamp(MinOf(given)) \in MinTTL..MaxTTL
  BY <1>3, <1>4, MinOfType, ClampType
<1>9. ASSUME NEW w \in writes' PROVE w.key \in Keys /\ w.ttl \in MinTTL..MaxTTL /\ w.ips \in Seq(Vouched(w.key)')
  <2>1. CASE w \in writes
    BY <1>2, <2>1, EntriesGrow DEF LedgerInv
  <2>2. CASE w = write
    BY <1>7, <1>8, <2>2
  <2> QED
    BY <1>5, <2>1, <2>2
<1>10. \A j \in Keys : lists'[j] \in Seq(EntriesFor(j)')
  BY <1>2, EntriesGrow DEF LedgerInv
<1> QED
  BY <1>2, <1>9, <1>10 DEF LedgerInv

\* What goes onto a list are the addresses of the write, before what was there.
LEMMA PushedList ==
  ASSUME NEW E, NEW w, NEW list \in Seq(E), NEW n \in 0..Len(w.ips), Len(w.ips) \in Nat,
         \A m \in 1..Len(w.ips) : [ip |-> w.ips[m], ttl |-> w.ttl, ts |-> now] \in E
  PROVE  Pushed(list, w, n) \in Seq(E) /\ Cut(Pushed(list, w, n)) \in Seq(E)
<1> DEFINE new == [m \in 1..n |-> [ip |-> w.ips[n + 1 - m], ttl |-> w.ttl, ts |-> now]]
           long == Pushed(list, w, n)
           last == IF Len(long) > MaxEntries THEN MaxEntries ELSE Len(long)
<1>1. \A m \in 1..n : n + 1 - m \in 1..Len(w.ips)
  OBVIOUS
<1>2. new \in Seq(E)
  <2>1. new \in [1..n -> E]
    BY <1>1
  <2> HIDE DEF new
  <2> QED
    BY <2>1
<1>3. long \in Seq(E)
  <2> HIDE DEF new
  <2>1. new \o list \in Seq(E)
    BY <1>2, ConcatProperties
  <2> QED
    BY <2>1 DEF Pushed, new
<1> HIDE DEF long
<1>4. Len(long) \in Nat /\ \A m \in 1..Len(long) : long[m] \in E
  BY <1>3, LenProperties, ElementOfSeq
<1>5. last \in Nat /\ last <= Len(long)
  BY <1>4, LedgerBounds
<1> HIDE DEF last
<1>6. \A m \in 1..last : long[m] \in E
  BY <1>4, <1>5
<1>7. SubSeq(long, 1, last) \in Seq(E)
  BY <1>5, <1>6, SubSeqProperties
<1> QED
  BY <1>3, <1>7 DEF Cut, long, last

\* However far a write gets, it changes one list, and pushes.
LEMMA OneListWritten ==
  ASSUME LedgerInv, NEW w \in writes, Write(w) \/ WriteCut(w)
  PROVE  \E n \in 0..Len(w.ips) :
           \E list \in {Pushed(lists[w.key], w, n), Cut(Pushed(lists[w.key], w, n))} :
             lists' = [lists EXCEPT ![w.key] = list]
<1>1. Len(w.ips) \in Nat
  BY LenProperties DEF LedgerInv
<1>2. CASE Write(w)
  <2>1. lists' = [lists EXCEPT ![w.key] = Cut(Pushed(lists[w.key], w, Len(w.ips)))]
    BY <1>2 DEF Write
  <2>2. Len(w.ips) \in 0..Len(w.ips)
    BY <1>1
  <2> QED
    BY <2>1, <2>2
<1>3. CASE WriteCut(w)
  BY <1>3 DEF WriteCut
<1> QED
  BY <1>2, <1>3

LEMMA WriteInv == ASSUME LedgerInv, NEW w \in writes, Write(w) \/ WriteCut(w) PROVE LedgerInv'
<1>1. UNCHANGED <<now, told>> /\ writes' \subseteq writes
  BY DEF Write, WriteCut
<1>2. w.key \in Keys /\ w.ttl \in MinTTL..MaxTTL /\ w.ips \in Seq(Vouched(w.key)) /\ now \in Nat
  BY LedgerBounds DEF LedgerInv
<1>3. PICK n \in 0..Len(w.ips) : \E list \in {Pushed(lists[w.key], w, n), Cut(Pushed(lists[w.key], w, n))} :
        lists' = [lists EXCEPT ![w.key] = list]
  BY OneListWritten
<1>0. PICK list \in {Pushed(lists[w.key], w, n), Cut(Pushed(lists[w.key], w, n))} :
        lists' = [lists EXCEPT ![w.key] = list]
  BY <1>3
<1>4. list \in Seq(EntriesFor(w.key))
  <2>1. Len(w.ips) \in Nat /\ \A m \in 1..Len(w.ips) : w.ips[m] \in Vouched(w.key)
    BY <1>2, LenProperties, ElementOfSeq
  <2>2. \A m \in 1..Len(w.ips) : [ip |-> w.ips[m], ttl |-> w.ttl, ts |-> now] \in EntriesFor(w.key)
    BY <1>2, <2>1 DEF EntriesFor
  <2>3. lists[w.key] \in Seq(EntriesFor(w.key))
    BY <1>2 DEF LedgerInv
  <2> QED
    BY <1>0, <2>1, <2>2, <2>3, PushedList
<1>5. \A k \in Keys : Seq(EntriesFor(k)') = Seq(EntriesFor(k)) /\ Vouched(k)' = Vouched(k)
  BY <1>1 DEF EntriesFor, Vouched
<1>6. lists' = [k \in Keys |-> lists'[k]] /\ \A k \in Keys : lists'[k] \in Seq(EntriesFor(k)')
  BY <1>0, <1>2, <1>4, <1>5 DEF LedgerInv
<1>7. expiry' = [k \in Keys |-> expiry'[k]] /\ \A k \in Keys : expiry'[k] \in {Never} \cup {m \in Nat : m > now'}
  <2>1. CASE expiry' = expiry
    BY <1>1, <2>1 DEF LedgerInv
  <2>2. CASE expiry' = [expiry EXCEPT ![w.key] = now + w.ttl + Grace]
    <3>1. now + w.ttl + Grace \in Nat /\ now + w.ttl + Grace > now
      BY <1>2, LedgerBounds
    <3> QED
      BY <1>1, <1>2, <2>2, <3>1 DEF LedgerInv
  <2> QED
    BY <2>1, <2>2 DEF Write, WriteCut
<1>8. \A v \in writes' : v.key \in Keys /\ v.ttl \in MinTTL..MaxTTL /\ v.ips \in Seq(Vouched(v.key)')
  BY <1>1, <1>5 DEF LedgerInv
<1> QED
  BY <1>1, <1>6, <1>7, <1>8 DEF LedgerInv

LEMMA TickInv == ASSUME LedgerInv, Tick PROVE LedgerInv'
<1>1. UNCHANGED <<writes, told>> /\ now' = now + 1 /\ now' \in 0..MaxNow
  BY LedgerBounds DEF LedgerInv, Tick
<1>2. \A w \in writes' : w.key \in Keys /\ w.ttl \in MinTTL..MaxTTL /\ w.ips \in Seq(Vouched(w.key)')
  BY <1>1, EntriesGrow DEF LedgerInv
<1>3. \A k \in Keys : lists'[k] \in {<<>>, lists[k]} /\ lists' = [j \in Keys |-> lists'[j]]
  BY DEF Tick
<1>4. \A k \in Keys : lists'[k] \in Seq(EntriesFor(k)')
  <2> SUFFICES ASSUME NEW k \in Keys PROVE lists'[k] \in Seq(EntriesFor(k)')
    OBVIOUS
  <2>1. lists[k] \in Seq(EntriesFor(k)) /\ Seq(EntriesFor(k)) \subseteq Seq(EntriesFor(k)')
    BY <1>1, EntriesGrow DEF LedgerInv
  <2>2. <<>> \in Seq(EntriesFor(k)')
    BY EmptySeq
  <2> QED
    BY <1>3, <2>1, <2>2
<1>5. expiry' = [k \in Keys |-> expiry'[k]] /\ \A k \in Keys : expiry'[k] \in {Never} \cup {m \in Nat : m > now'}
  BY <1>1 DEF LedgerInv, Tick, Never
<1>6. lists' = [k \in Keys |-> lists'[k]]
  BY DEF Tick
<1> QED
  BY <1>1, <1>2, <1>4, <1>5, <1>6 DEF LedgerInv

LEMMA LostInv == ASSUME LedgerInv, RedisLost \/ ResolverLost \/ UNCHANGED ledgerVars PROVE LedgerInv'
<1>1. UNCHANGED <<now, told>> /\ writes' \subseteq writes
  BY DEF RedisLost, ResolverLost, ledgerVars
<1>2. \A k \in Keys : Seq(EntriesFor(k)') = Seq(EntriesFor(k)) /\ Vouched(k)' = Vouched(k)
  BY <1>1 DEF EntriesFor, Vouched
<1>3. \A w \in writes' : w.key \in Keys /\ w.ttl \in MinTTL..MaxTTL /\ w.ips \in Seq(Vouched(w.key)')
  BY <1>1, <1>2 DEF LedgerInv
<1>4. lists' = [k \in Keys |-> lists'[k]] /\ \A k \in Keys : lists'[k] \in Seq(EntriesFor(k)')
  <2>1. \A k \in Keys : <<>> \in Seq(EntriesFor(k)) /\ lists[k] \in Seq(EntriesFor(k))
    BY EmptySeq DEF LedgerInv
  <2>2. lists' = [k \in Keys |-> lists'[k]] /\ \A k \in Keys : lists'[k] \in {<<>>, lists[k]}
    BY DEF RedisLost, ResolverLost, ledgerVars, LedgerInv
  <2> QED
    BY <1>2, <2>1, <2>2
<1>5. expiry' = [k \in Keys |-> expiry'[k]] /\ \A k \in Keys : expiry'[k] \in {Never} \cup {m \in Nat : m > now'}
  BY <1>1 DEF RedisLost, ResolverLost, ledgerVars, LedgerInv
<1> QED
  BY <1>1, <1>3, <1>4, <1>5 DEF LedgerInv

LEMMA LedgerStepInv == LedgerInv /\ [LedgerNext]_ledgerVars => LedgerInv'
BY AnswerInv, WriteInv, TickInv, LostInv DEF LedgerNext

\* A match is an entry of the list inside its TTL.
Fresh(k, ip) == \E n \in DOMAIN lists[k] : lists[k][n].ip = ip /\ lists[k][n].ts + lists[k][n].ttl >= now

LEMMA MatchIsFresh ==
  ASSUME NEW k, NEW ip
  PROVE  (Compare(k, ip) = "match" <=> Fresh(k, ip)) /\ (Compare(k, ip)' = "match" <=> Fresh(k, ip)')
<1>1. Fresh(k, ip) <=> \E e \in Recent(k) : e.ip = ip
  BY DEF Recent, Fresh
<1>2. Fresh(k, ip)' <=> \E e \in Recent(k)' : e.ip = ip
  BY DEF Recent, Fresh
<1> QED
  BY <1>1, <1>2 DEF Compare

\* The entries of a list are among those that it may hold.
LEMMA EntriesOfList ==
  ASSUME LedgerInv, NEW k \in Keys
  PROVE  /\ DOMAIN lists[k] = 1..Len(lists[k]) /\ Len(lists[k]) \in Nat
         /\ \A n \in DOMAIN lists[k] : lists[k][n] \in EntriesFor(k)
BY LenProperties, ElementOfSeq DEF LedgerInv

\* So a match is what the resolver gave, and not long ago.
LEMMA LedgerSafe ==
  ASSUME LedgerInv PROVE LedgerTypeOK /\ MatchWasTold /\ MatchIsRecent /\ PrivateNeverMatches
<1>1. LedgerTypeOK
  BY EntriesOfList DEF LedgerInv, LedgerTypeOK, EntriesFor, Vouched
<1>2. ASSUME NEW k \in Keys, NEW ip, Compare(k, ip) = "match"
      PROVE  \E n \in DOMAIN lists[k] : /\ lists[k][n].ip = ip /\ now - lists[k][n].ts <= MaxTTL
                                        /\ ~Reserved(ip) /\ [key |-> k, ip |-> ip] \in told
  <2>1. PICK n \in DOMAIN lists[k] : lists[k][n].ip = ip /\ lists[k][n].ts + lists[k][n].ttl >= now
    BY <1>2, MatchIsFresh DEF Fresh
  <2>2. lists[k][n] \in EntriesFor(k)
    BY EntriesOfList
  <2>3. ip \in Vouched(k) /\ lists[k][n].ttl \in MinTTL..MaxTTL /\ lists[k][n].ts \in 0..now /\ now \in Nat
    BY <2>1, <2>2 DEF EntriesFor, LedgerInv
  <2> QED
    BY <2>1, <2>3, LedgerBounds DEF Vouched
<1>3. MatchWasTold
  BY <1>2 DEF MatchWasTold
<1>4. MatchIsRecent
  BY <1>2 DEF MatchIsRecent
<1>5. PrivateNeverMatches
  <2>1. \A ip : IsPrivateIP(ip) => Reserved(ip)
    BY DEF IsPrivateIP, Reserved
  <2> QED
    BY <1>2, <2>1 DEF PrivateNeverMatches
<1> QED
  BY <1>1, <1>3, <1>4, <1>5

\* A new match is an address of the write that took effect.
LEMMA NewMatches ==
  ASSUME LedgerInv, LedgerNext, NEW k \in Keys, NEW ip, ~Fresh(k, ip), Fresh(k, ip)'
  PROVE  \E w \in writes \ writes' : w.key = k /\ \E n \in DOMAIN w.ips : w.ips[n] = ip
<1>1. CASE \E j \in Keys : Answer(j)
  <2>1. UNCHANGED <<now, lists>>
    BY <1>1 DEF Answer
  <2> QED
    BY <2>1 DEF Fresh
<1>2. CASE Tick
  <2>1. lists'[k] \in {<<>>, lists[k]} /\ now' = now + 1 /\ now \in Nat
    BY <1>2 DEF Tick, LedgerInv
  <2>2. lists'[k] = lists[k]
    BY <2>1 DEF Fresh
  <2>3. \A n \in DOMAIN lists[k] : lists[k][n].ts \in Nat /\ lists[k][n].ttl \in Nat
    BY <2>1, EntriesOfList, LedgerBounds DEF EntriesFor
  <2> QED
    BY <2>1, <2>2, <2>3 DEF Fresh
<1>3. CASE RedisLost \/ ResolverLost
  BY <1>3 DEF RedisLost, ResolverLost, Fresh
<1>4. ASSUME NEW w \in writes, Write(w) \/ WriteCut(w)
      PROVE  \E v \in writes \ writes' : v.key = k /\ \E n \in DOMAIN v.ips : v.ips[n] = ip
  <2>1. now' = now /\ w \in writes \ writes' /\ w.key \in Keys
    BY <1>4 DEF Write, WriteCut, LedgerInv
  <2>2. PICK n \in 0..Len(w.ips) : \E list \in {Pushed(lists[w.key], w, n), Cut(Pushed(lists[w.key], w, n))} :
          lists' = [lists EXCEPT ![w.key] = list]
    BY <1>4, OneListWritten
  <2>0. PICK list \in {Pushed(lists[w.key], w, n), Cut(Pushed(lists[w.key], w, n))} :
          lists' = [lists EXCEPT ![w.key] = list]
    BY <2>2
  <2>3. w.key = k
    BY <2>0, <2>1 DEF Fresh, LedgerInv
  <2>4. Len(w.ips) \in Nat /\ DOMAIN w.ips = 1..Len(w.ips)
    BY LenProperties DEF LedgerInv
  <2> DEFINE Brought == {[ip |-> w.ips[m], ttl |-> w.ttl, ts |-> now] : m \in 1..Len(w.ips)}
             E == {lists[k][m] : m \in DOMAIN lists[k]} \cup Brought
  <2>5. lists[k] \in Seq(E)
    <3>1. lists[k] \in [1..Len(lists[k]) -> E] /\ Len(lists[k]) \in Nat
      BY EntriesOfList, LenProperties DEF LedgerInv
    <3> HIDE DEF E
    <3> QED
      BY <3>1
  <2>6. list \in Seq(E) /\ lists'[k] = list
    <3>1. \A m \in 1..Len(w.ips) : [ip |-> w.ips[m], ttl |-> w.ttl, ts |-> now] \in E
      OBVIOUS
    <3>2. lists'[k] = list
      BY <2>0, <2>1, <2>3 DEF LedgerInv
    <3> HIDE DEF E
    <3> QED
      <4>1. Pushed(lists[k], w, n) \in Seq(E) /\ Cut(Pushed(lists[k], w, n)) \in Seq(E)
        BY <2>4, <2>5, <3>1, PushedList
      <4> QED
        BY <2>0, <2>3, <3>2, <4>1
  <2>7. PICK m \in DOMAIN lists'[k] : lists'[k][m].ip = ip /\ lists'[k][m].ts + lists'[k][m].ttl >= now'
    BY DEF Fresh
  <2>8. lists'[k][m] \in E
    <3> HIDE DEF E
    <3> QED
      BY <2>6, <2>7, LenProperties, ElementOfSeq
  <2>9. lists'[k][m] \in Brought
    BY <2>1, <2>7, <2>8 DEF Fresh
  <2> QED
    BY <2>1, <2>3, <2>4, <2>7, <2>9
<1> QED
  BY <1>1, <1>2, <1>3, <1>4 DEF LedgerNext

\* The ledger vouches for an address only as the resolver did, and what is stale stays stale.
THEOREM LedgerHolds == LedgerSpec => LedgerIsFaithful
<1>1. LedgerInv /\ [LedgerNext]_ledgerVars =>
        [\A k \in Keys, ip \in Addresses :
           (Compare(k, ip) # "match" /\ Compare(k, ip)' = "match")
             => \E w \in writes \ writes' : w.key = k /\ \E n \in DOMAIN w.ips : w.ips[n] = ip]_ledgerVars
  BY NewMatches, MatchIsFresh
<1>2. LedgerInv => LedgerTypeOK /\ MatchWasTold /\ MatchIsRecent /\ PrivateNeverMatches
  BY LedgerSafe
<1> QED
  BY <1>1, <1>2, LedgerInitInv, LedgerStepInv, PTL DEF LedgerSpec, LedgerIsFaithful, StaleStaysStale

(***************************************************************************)
(* DeepScan: the crawl keeps to its budgets and goes breadth first.        *)
(***************************************************************************)
\* The pages in the order they were queued: those that have been rendered, then the queue.
Line(d, t) ==
  [n \in 1..(Len(d) + Len(t)) |->
     IF n <= Len(d) THEN [page |-> d[n].page, depth |-> d[n].depth] ELSE t[n - Len(d)]]

\* Every page has one place in it, no page stands before one that is nearer to the root.
Lined(s, v) ==
  /\ Cardinality(v) = Len(s) /\ v = {s[n].page : n \in 1..Len(s)}
  /\ \A m, n \in 1..Len(s) : /\ s[m].page = s[n].page => m = n
                             /\ m <= n => s[m].depth <= s[n].depth
  /\ 1 \in 1..Len(s) /\ s[1].page = Root /\ s[1].depth = 0

\* The budgets: the counter of pages on other hosts is theirs, unless all pages are spent.
Abroad(v) == {q \in v : Cross(q)}
Spent(v, c) ==
  /\ Cardinality(v) <= asked.pages /\ Cardinality(Abroad(v)) <= c
  /\ asked.same => c = 0
  /\ c = Cardinality(Abroad(v)) \/ Cardinality(v) >= asked.pages

\* A page that is not queued and cannot be any more; a link that has been looked at.
Refused(v, c, p) ==
  p \notin v /\ (Cardinality(v) >= asked.pages \/ (Cross(p) /\ (asked.same \/ c >= MaxCross)))
Met(s, v, c, p, e) ==
  Refused(v, c, p) \/ \E n \in 1..Len(s) : s[n].page = p /\ s[n].depth <= e

Entries == [page : DOMAIN WebPages, depth : 0..asked.depth]
Renders == [page : DOMAIN WebPages, depth : 0..asked.depth, links : Seq(DOMAIN WebPages)]
Asked == [depth : Nat \ {0}, pages : Nat \ {0}, same : BOOLEAN]

\* The line is a sequence of pages at some depth.
LEMMA LineType ==
  ASSUME NEW d \in Seq(Renders), NEW t \in Seq(Entries)
  PROVE  /\ Line(d, t) \in Seq(Entries) /\ Len(Line(d, t)) = Len(d) + Len(t)
         /\ Len(d) \in Nat /\ Len(t) \in Nat
         /\ \A n \in 1..(Len(d) + Len(t)) : Line(d, t)[n] \in Entries
<1>1. Len(d) \in Nat /\ Len(t) \in Nat /\ d \in [1..Len(d) -> Renders] /\ t \in [1..Len(t) -> Entries]
  BY LenProperties
<1> DEFINE L == Len(d) + Len(t)
<1>2. ASSUME NEW n \in 1..L
      PROVE  (IF n <= Len(d) THEN [page |-> d[n].page, depth |-> d[n].depth] ELSE t[n - Len(d)]) \in Entries
  <2>1. CASE n <= Len(d)
    <3>1. d[n] \in Renders
      BY <1>1, <2>1
    <3> QED
      BY <2>1, <3>1 DEF Renders, Entries
  <2>2. CASE n > Len(d)
    <3>1. n - Len(d) \in 1..Len(t)
      BY <1>1, <2>2
    <3> QED
      BY <1>1, <2>2, <3>1
  <2> QED
    BY <1>1, <2>1, <2>2
<1>3. Line(d, t) \in [1..L -> Entries] /\ L \in Nat
  BY <1>1, <1>2 DEF Line
<1> QED
  BY <1>1, <1>3

\* A page is queued at the end of the line.
LEMMA LineAppend ==
  ASSUME NEW d \in Seq(Renders), NEW t \in Seq(Entries), NEW x \in Entries
  PROVE  LET s == Line(d, t) u == Line(d, Append(t, x)) IN
         /\ Len(u) = Len(s) + 1 /\ u[Len(s) + 1] = x
         /\ \A n \in 1..Len(s) : u[n] = s[n]
<1>1. Append(t, x) \in Seq(Entries) /\ Len(Append(t, x)) = Len(t) + 1 /\ Append(t, x)[Len(t) + 1] = x
      /\ \A n \in 1..Len(t) : Append(t, x)[n] = t[n]
  BY AppendProperties
<1>2. Len(d) \in Nat /\ Len(t) \in Nat /\ Len(Line(d, t)) = Len(d) + Len(t)
      /\ Len(Line(d, Append(t, x))) = Len(d) + Len(t) + 1
  <2>1. Len(d) \in Nat /\ Len(t) \in Nat /\ Len(Line(d, t)) = Len(d) + Len(t)
    BY LineType
  <2>2. Len(Line(d, Append(t, x))) = Len(d) + Len(Append(t, x))
    BY <1>1, LineType
  <2> QED
    BY <1>1, <2>1, <2>2
<1>3. \A n \in 1..(Len(d) + Len(t)) : n > Len(d) => n - Len(d) \in 1..Len(t)
  BY <1>2
<1>4. \A n \in 1..(Len(d) + Len(t)) : Line(d, Append(t, x))[n] = Line(d, t)[n]
  BY <1>1, <1>2, <1>3 DEF Line
<1>5. Line(d, Append(t, x))[Len(d) + Len(t) + 1] = x
  BY <1>1, <1>2 DEF Line
<1> QED
  BY <1>2, <1>4, <1>5

\* The page at the head of the queue is rendered: the line stays what it is.
LEMMA LineShift ==
  ASSUME NEW d \in Seq(Renders), NEW t \in Seq(Entries), t # <<>>, NEW x \in Renders,
         x.page = t[1].page, x.depth = t[1].depth
  PROVE  /\ Line(Append(d, x), Tail(t)) = Line(d, t)
         /\ Append(d, x) \in Seq(Renders) /\ Tail(t) \in Seq(Entries)
         /\ Len(Append(d, x)) = Len(d) + 1 /\ Append(d, x)[Len(d) + 1] = x
         /\ \A n \in 1..Len(d) : Append(d, x)[n] = d[n]
<1>1. Append(d, x) \in Seq(Renders) /\ Len(Append(d, x)) = Len(d) + 1 /\ Append(d, x)[Len(d) + 1] = x
      /\ \A n \in 1..Len(d) : Append(d, x)[n] = d[n]
  BY AppendProperties
<1>2. Tail(t) \in Seq(Entries) /\ Len(Tail(t)) = Len(t) - 1 /\ \A n \in 1..Len(Tail(t)) : Tail(t)[n] = t[n + 1]
  BY HeadTailProperties
<1>3. Len(d) \in Nat /\ Len(t) \in Nat /\ Len(t) > 0 /\ t[1] \in Entries
  BY LenProperties, EmptySeq, ElementOfSeq
<1>4. t[1] = [page |-> x.page, depth |-> x.depth]
  BY <1>3 DEF Entries
<1> DEFINE L == Len(d) + Len(t)
<1>5. Len(Append(d, x)) + Len(Tail(t)) = L
  BY <1>1, <1>2, <1>3
<1>6. ASSUME NEW n \in 1..L
      PROVE  (IF n <= Len(Append(d, x)) THEN [page |-> Append(d, x)[n].page, depth |-> Append(d, x)[n].depth]
              ELSE Tail(t)[n - Len(Append(d, x))])
             = IF n <= Len(d) THEN [page |-> d[n].page, depth |-> d[n].depth] ELSE t[n - Len(d)]
  <2>1. CASE n <= Len(d)
    BY <1>1, <1>3, <2>1
  <2>2. CASE n = Len(d) + 1
    <3>1. n - Len(d) = 1 /\ n <= Len(Append(d, x)) /\ ~(n <= Len(d)) /\ Append(d, x)[n] = x
      BY <1>1, <1>3, <2>2
    <3> QED
      BY <1>4, <3>1
  <2>3. CASE n > Len(d) + 1
    <3>1. n - Len(Append(d, x)) \in 1..Len(Tail(t)) /\ n - Len(Append(d, x)) + 1 = n - Len(d)
      BY <1>1, <1>2, <1>3, <2>3
    <3> QED
      BY <1>1, <1>2, <1>3, <2>3, <3>1
  <2> QED
    BY <1>3, <2>1, <2>2, <2>3
<1> QED
  BY <1>1, <1>2, <1>5, <1>6 DEF Line

-----------------------------------------------------------------------------
\* States of the loop over the links.
Loops == [visited : {v \in SUBSET DOMAIN WebPages : IsFiniteSet(v)}, crossed : 0..MaxCross,
          todo : Seq(Entries), stop : BOOLEAN]
Up1(st, p) == st.crossed + IF Cross(p) THEN 1 ELSE 0

\* What becomes of a link.
Outcome(st, p, e, new) ==
  /\ new \in Loops
  /\ p \in st.visited \/ Barred(st, p) => new = st
  /\ ~(p \in st.visited \/ Barred(st, p)) /\ Full(st) =>
       /\ new.visited = st.visited /\ new.crossed = Up1(st, p)
       /\ new.todo = st.todo /\ new.stop = TRUE
  /\ ~(p \in st.visited \/ Barred(st, p)) /\ ~Full(st) =>
       /\ new.visited = st.visited \cup {p} /\ new.crossed = Up1(st, p)
       /\ new.todo = Append(st.todo, [page |-> p, depth |-> e]) /\ new.stop = st.stop

\* A link is passed over, ends the loop, or is queued.
LEMMA Enqueued ==
  ASSUME asked \in Asked, NEW st \in Loops, NEW p \in DOMAIN WebPages, NEW e \in 0..asked.depth
  PROVE  Outcome(st, p, e, Enqueue(st, p, e))
<1> DEFINE new == Enqueue(st, p, e)
<1>1. CASE p \in st.visited \/ Barred(st, p)
  BY <1>1 DEF Enqueue, Outcome
<1>2. CASE ~(p \in st.visited \/ Barred(st, p))
  <2> DEFINE c == Counted(st, p)
             v == c.visited \cup {p}
             t == Append(c.todo, [page |-> p, depth |-> e])
             longer == [c EXCEPT !.visited = v, !.todo = t]
             final == [c EXCEPT !.stop = TRUE]
  <2>1. Up1(st, p) \in 0..MaxCross
    BY <1>2, DeepBounds DEF Up1, Barred, Loops
  <2>2. c \in Loops /\ c.visited = st.visited /\ c.crossed = Up1(st, p) /\ c.todo = st.todo /\ c.stop = st.stop
    BY <2>1 DEF Counted, Up1, Loops
  <2>3. v \in {u \in SUBSET DOMAIN WebPages : IsFiniteSet(u)}
    <3>1. st.visited \in {u \in SUBSET DOMAIN WebPages : IsFiniteSet(u)}
      BY DEF Loops
    <3> QED
      BY <2>2, <3>1, FS_AddElement
  <2>4. t \in Seq(Entries)
    <3>1. [page |-> p, depth |-> e] \in Entries /\ c.todo \in Seq(Entries)
      BY <2>2 DEF Entries, Loops
    <3> QED
      BY <3>1, AppendProperties
  <2>5. CASE Full(st)
    <3>1. new = final
      BY <1>2, <2>5 DEF Enqueue
    <3> HIDE DEF c, new
    <3>2. final \in Loops
      BY <2>2 DEF Loops
    <3>3. final.visited = c.visited /\ final.crossed = c.crossed /\ final.todo = c.todo /\ final.stop = TRUE
      BY <2>2 DEF Loops
    <3> QED
      BY <1>2, <2>2, <2>5, <3>1, <3>2, <3>3 DEF Outcome, new
  <2>6. CASE ~Full(st)
    <3>1. new = longer
      BY <1>2, <2>6 DEF Enqueue, Queued
    <3>2. v = st.visited \cup {p} /\ t = Append(st.todo, [page |-> p, depth |-> e])
      BY <2>2
    <3> HIDE DEF c, v, t, new
    <3>3. longer \in Loops
      BY <2>2, <2>3, <2>4 DEF Loops
    <3>4. longer.visited = v /\ longer.crossed = c.crossed /\ longer.todo = t /\ longer.stop = c.stop
      BY <2>2 DEF Loops
    <3> QED
      BY <1>2, <2>2, <2>6, <3>1, <3>2, <3>3, <3>4 DEF Outcome, new
  <2> QED
    BY <2>5, <2>6
<1> QED
  BY <1>1, <1>2

\* What the loop keeps: the line is in order, and nothing in it is deeper than what it adds.
Fit(d, st, e) ==
  /\ Lined(Line(d, st.todo), st.visited) /\ Spent(st.visited, st.crossed)
  /\ \A n \in 1..Len(Line(d, st.todo)) : Line(d, st.todo)[n].depth <= e
  /\ st.stop => Full(st)
MetBy(d, st, p, e) == Met(Line(d, st.todo), st.visited, st.crossed, p, e)

\* One more page in line.
LEMMA QueuedFits ==
  ASSUME asked \in Asked, NEW d \in Seq(Renders), NEW st \in Loops, NEW p \in DOMAIN WebPages,
         NEW e \in 0..asked.depth, Fit(d, st, e), p \notin st.visited, ~Barred(st, p), ~Full(st),
         NEW new \in Loops, new.visited = st.visited \cup {p}, new.crossed = Up1(st, p),
         new.todo = Append(st.todo, [page |-> p, depth |-> e]), new.stop = st.stop
  PROVE  Fit(d, new, e) /\ MetBy(d, new, p, e) /\ \A q, f : MetBy(d, st, q, f) => MetBy(d, new, q, f)
<1> DEFINE s == Line(d, st.todo)
           u == Line(d, new.todo)
           N == Len(s)
<1>1. st.todo \in Seq(Entries) /\ [page |-> p, depth |-> e] \in Entries
  BY DEF Loops, Entries
<1>2. N \in Nat /\ Len(u) = N + 1 /\ u[N + 1] = [page |-> p, depth |-> e] /\ \A n \in 1..N : u[n] = s[n]
  <2>1. Len(u) = Len(s) + 1 /\ u[Len(s) + 1] = [page |-> p, depth |-> e] /\ \A n \in 1..Len(s) : u[n] = s[n]
    BY <1>1, LineAppend
  <2>2. N \in Nat
    BY <1>1, LineType
  <2> QED
    BY <2>1, <2>2
<1>3. 1..(N + 1) = 1..N \cup {N + 1} /\ N + 1 \notin 1..N
  BY <1>2
<1>5. IsFiniteSet(st.visited) /\ Cardinality(st.visited) \in Nat /\ st.crossed \in Nat
      /\ Cardinality(new.visited) = Cardinality(st.visited) + 1
  BY FS_AddElement, FS_CardinalityType, DeepBounds DEF Loops
<1>6. Lined(s, st.visited) /\ Spent(st.visited, st.crossed) /\ (\A n \in 1..N : s[n].depth <= e) /\ ~st.stop
  BY DEF Fit
<1> HIDE DEF s, u
<1>7. Lined(u, new.visited)
  <2>1. new.visited = {u[n].page : n \in 1..Len(u)}
    <3>1. {u[n].page : n \in 1..Len(u)} = {u[n].page : n \in 1..N} \cup {u[N + 1].page}
      BY <1>2, <1>3
    <3>2. {u[n].page : n \in 1..N} = {s[n].page : n \in 1..N}
      BY <1>2
    <3>3. st.visited = {s[n].page : n \in 1..N}
      BY <1>6 DEF Lined
    <3>4. u[N + 1].page = p
      BY <1>2
    <3> QED
      BY <3>1, <3>2, <3>3, <3>4
  <2>2. \A n \in 1..N : s[n].page # p /\ s[n].page \in st.visited
    BY <1>6 DEF Lined
  <2>3. ASSUME NEW m \in 1..Len(u), NEW n \in 1..Len(u)
        PROVE  (u[m].page = u[n].page => m = n) /\ (m <= n => u[m].depth <= u[n].depth)
    <3>1. CASE m \in 1..N /\ n \in 1..N
      BY <1>2, <1>6, <3>1 DEF Lined
    <3>2. CASE m = N + 1
      BY <1>2, <1>3, <2>2, <3>2
    <3>3. CASE n = N + 1 /\ m \in 1..N
      BY <1>2, <1>6, <2>2, <3>3
    <3> QED
      BY <1>2, <1>3, <3>1, <3>2, <3>3
  <2>4. 1 \in 1..Len(u) /\ u[1].page = Root /\ u[1].depth = 0
    <3>1. 1 \in 1..N /\ s[1].page = Root /\ s[1].depth = 0
      BY <1>6 DEF Lined
    <3> QED
      BY <1>2, <3>1
  <2> QED
    BY <1>2, <1>5, <1>6, <2>1, <2>3, <2>4 DEF Lined
<1>8. Spent(new.visited, new.crossed)
  <2>1. CASE Cross(p)
    <3>1. Abroad(new.visited) = Abroad(st.visited) \cup {p} /\ p \notin Abroad(st.visited)
          /\ IsFiniteSet(Abroad(st.visited))
      BY <1>5, <2>1, FS_Subset DEF Abroad
    <3>2. Cardinality(Abroad(new.visited)) = Cardinality(Abroad(st.visited)) + 1 /\ Cardinality(Abroad(st.visited)) \in Nat
      BY <3>1, FS_AddElement, FS_CardinalityType
    <3> QED
      BY <1>5, <1>6, <2>1, <3>2 DEF Spent, Up1, Barred, Full, Asked
  <2>2. CASE ~Cross(p)
    <3>1. Abroad(new.visited) = Abroad(st.visited)
      BY <2>2 DEF Abroad
    <3>2. new.crossed = st.crossed
      BY <1>5, <2>2 DEF Up1
    <3> QED
      BY <1>5, <1>6, <3>1, <3>2 DEF Spent, Full, Asked
  <2> QED
    BY <2>1, <2>2
<1>9. \A n \in 1..Len(u) : u[n].depth <= e
  BY <1>2, <1>3, <1>6
<1>10. Fit(d, new, e)
  BY <1>6, <1>7, <1>8, <1>9 DEF Fit, u
<1>11. MetBy(d, new, p, e)
  <2>1. N + 1 \in 1..Len(u) /\ u[N + 1].page = p /\ u[N + 1].depth <= e
    BY <1>2
  <2> QED
    BY <2>1 DEF MetBy, Met, u
<1>12. ASSUME NEW q, NEW f, MetBy(d, st, q, f) PROVE MetBy(d, new, q, f)
  <2>1. CASE Refused(st.visited, st.crossed, q)
    <3>1. Cross(q) /\ (asked.same \/ st.crossed >= MaxCross) /\ q \notin st.visited
      BY <2>1 DEF Refused, Full
    <3>2. q # p
      BY <3>1 DEF Barred
    <3>3. new.crossed >= st.crossed
      BY <1>5 DEF Up1
    <3>4. new.crossed \in Nat /\ MaxCross \in Nat
      BY DeepBounds DEF Loops
    <3>5. Refused(new.visited, new.crossed, q)
      BY <1>5, <3>1, <3>2, <3>3, <3>4 DEF Refused
    <3> QED
      BY <3>5 DEF MetBy, Met
  <2>2. CASE \E n \in 1..N : s[n].page = q /\ s[n].depth <= f
    BY <1>2, <1>3, <2>2 DEF MetBy, Met, u
  <2> QED
    BY <1>12, <2>1, <2>2 DEF MetBy, Met, s
<1> QED
  BY <1>10, <1>11, <1>12

\* A link is turned down: what was met stays met, and it is met itself.
LEMMA EnqueueFits ==
  ASSUME asked \in Asked, NEW d \in Seq(Renders), NEW st \in Loops, NEW p \in DOMAIN WebPages,
         NEW e \in 0..asked.depth, Fit(d, st, e), NEW new,
         new = IF st.stop THEN st ELSE Enqueue(st, p, e)
  PROVE  Fit(d, new, e) /\ MetBy(d, new, p, e) /\ \A q, f : MetBy(d, st, q, f) => MetBy(d, new, q, f)
<1> DEFINE one == Enqueue(st, p, e)
<1>0. Outcome(st, p, e, one)
  BY Enqueued
<1> HIDE DEF one
<1>1. new \in Loops
  BY <1>0 DEF Outcome, one
<1>2. p \in st.visited => MetBy(d, st, p, e)
  <2> SUFFICES ASSUME p \in st.visited PROVE MetBy(d, st, p, e)
    OBVIOUS
  <2>1. PICK n \in 1..Len(Line(d, st.todo)) : Line(d, st.todo)[n].page = p
    BY DEF Fit, Lined
  <2>2. Line(d, st.todo)[n].depth <= e
    BY DEF Fit
  <2> QED
    BY <2>1, <2>2 DEF MetBy, Met
<1>3. p \notin st.visited /\ Full(st) => MetBy(d, st, p, e)
  BY DEF MetBy, Met, Refused, Full
<1>4. p \notin st.visited /\ Barred(st, p) => MetBy(d, st, p, e)
  BY DEF MetBy, Met, Refused, Barred
<1>5. CASE new = st
  <2>1. p \in st.visited \/ Barred(st, p) \/ Full(st)
    <3>1. CASE st.stop
      BY <3>1 DEF Fit
    <3>2. CASE ~st.stop /\ ~(p \in st.visited \/ Barred(st, p) \/ Full(st))
      <4>1. one.visited = st.visited \cup {p} /\ one = st
        BY <1>0, <1>5, <3>2 DEF Outcome, one
      <4> QED
        BY <3>2, <4>1
    <3> QED
      BY <3>1, <3>2
  <2> QED
    BY <1>2, <1>3, <1>4, <1>5, <2>1
<1>6. CASE ~st.stop /\ p \notin st.visited /\ ~Barred(st, p) /\ Full(st)
  <2>1. new = one
    BY <1>6 DEF one
  <2>2. new.visited = st.visited /\ new.todo = st.todo /\ new.crossed = Up1(st, p)
    BY <1>0, <1>6, <2>1 DEF Outcome
  <2>3. Full(new) /\ Cardinality(new.visited) >= asked.pages
    BY <1>6, <2>2 DEF Full
  <2>4. Cardinality(Abroad(st.visited)) \in Nat /\ st.crossed \in Nat
    BY FS_Subset, FS_CardinalityType, DeepBounds DEF Abroad, Loops
  <2>5. Spent(new.visited, new.crossed)
    <3>1. Up1(st, p) \in Nat /\ Up1(st, p) >= st.crossed /\ (asked.same => Up1(st, p) = st.crossed)
      BY <1>6, <2>4 DEF Up1, Barred
    <3>2. Spent(st.visited, st.crossed)
      BY DEF Fit
    <3> QED
      BY <2>2, <2>3, <2>4, <3>1, <3>2 DEF Spent
  <2>6. Fit(d, new, e)
    BY <2>2, <2>3, <2>5 DEF Fit
  <2>7. \A q : q \notin new.visited => Refused(new.visited, new.crossed, q)
    BY <2>3 DEF Refused
  <2>8. \A q, f : MetBy(d, st, q, f) => MetBy(d, new, q, f)
    BY <2>2, <2>7 DEF MetBy, Met, Refused
  <2> QED
    BY <1>3, <1>6, <2>6, <2>8
<1>7. CASE ~st.stop /\ p \notin st.visited /\ ~Barred(st, p) /\ ~Full(st)
  <2>1. new = one
    BY <1>7 DEF one
  <2>2. /\ new.visited = st.visited \cup {p} /\ new.crossed = Up1(st, p)
        /\ new.todo = Append(st.todo, [page |-> p, depth |-> e]) /\ new.stop = st.stop
    BY <1>0, <1>7, <2>1 DEF Outcome
  <2> QED
    BY <1>1, <1>7, <2>2, QueuedFits
<1>8. new = st \/ (~st.stop /\ p \notin st.visited /\ ~Barred(st, p))
  <2>1. p \in st.visited \/ Barred(st, p) => one = st
    BY <1>0 DEF Outcome
  <2> QED
    BY <2>1 DEF one
<1> QED
  BY <1>5, <1>6, <1>7, <1>8

\* The loop as a whole.
LEMMA FollowFits ==
  ASSUME asked \in Asked, NEW d \in Seq(Renders), NEW links \in Seq(DOMAIN WebPages), NEW item \in Entries,
         NEW start \in Loops,
         start = [visited |-> visited, crossed |-> crossed, todo |-> Tail(todo), stop |-> FALSE],
         Fit(d, start, item.depth + 1)
  PROVE  LET st == Follow(item, links) IN
         /\ st \in Loops /\ Fit(d, st, item.depth + 1)
         /\ item.depth < asked.depth => \A p \in ToSet(links) : MetBy(d, st, p, item.depth + 1)
         /\ \A q, f : MetBy(d, start, q, f) => MetBy(d, st, q, f)
<1> DEFINE e == item.depth + 1
           first == [visited |-> visited, crossed |-> crossed, todo |-> Tail(todo), stop |-> FALSE]
           followed == IF item.depth < asked.depth THEN links ELSE <<>>
           N == Len(followed)
           Turn(n, st) == IF st.stop THEN st ELSE Enqueue(st, followed[n], e)
           Up(g) == [n \in 0..N |-> IF n = 0 THEN first ELSE Turn(n, g[n - 1])]
           after == CHOOSE g : g = Up(g)
           F == [n \in 1..N |-> [st \in Loops |-> Turn(n, st)]]
<1>1. Follow(item, links) = after[N]
  BY DEF Follow
<1>2. first = start
  OBVIOUS
<1>3. N \in Nat /\ \A n \in 1..N : followed[n] \in DOMAIN WebPages /\ item.depth < asked.depth
  <2>1. CASE item.depth < asked.depth
    BY <2>1, LenProperties, ElementOfSeq
  <2>2. CASE ~(item.depth < asked.depth)
    <3>1. N = 0
      BY <2>2
    <3> QED
      BY <3>1
  <2> QED
    BY <2>1, <2>2
<1>4. item.depth < asked.depth => e \in 0..asked.depth /\ followed = links
  BY DEF Entries, Asked
<1>5. ASSUME NEW n \in 1..N, NEW st \in Loops PROVE Turn(n, st) \in Loops
  <2>1. followed[n] \in DOMAIN WebPages /\ e \in 0..asked.depth
    BY <1>3, <1>4
  <2> HIDE DEF followed, e
  <2>2. Enqueue(st, followed[n], e) \in Loops
    BY <2>1, Enqueued DEF Outcome
  <2> QED
    BY <2>2
<1>6. ASSUME NEW n \in 1..N, NEW st \in Loops, Fit(d, st, e)
      PROVE  /\ Fit(d, Turn(n, st), e) /\ MetBy(d, Turn(n, st), followed[n], e)
             /\ \A q, f : MetBy(d, st, q, f) => MetBy(d, Turn(n, st), q, f)
  <2>1. followed[n] \in DOMAIN WebPages /\ e \in 0..asked.depth
    BY <1>3, <1>4
  <2> HIDE DEF followed, e
  <2> QED
    BY <1>6, <2>1, EnqueueFits
<1> HIDE DEF Turn, first, N
<1>7. F \in Steps(N, Loops)
  BY <1>5 DEF Steps
<1>8. PICK g \in [0..N -> Loops] : g[0] = first /\ \A n \in 1..N : g[n] = F[n][g[n - 1]]
  <2> HIDE DEF F
  <2>1. \E g \in [0..N -> Loops] : Follows(g, N, first, F)
    BY <1>2, <1>3, <1>7, Recursion
  <2> QED
    BY <2>1 DEF Follows
<1>9. \A n \in 1..N : F[n][g[n - 1]] = Turn(n, g[n - 1])
  <2>1. \A n \in 1..N : g[n - 1] \in Loops
    BY <1>3, <1>8
  <2> QED
    BY <2>1
<1>10. g = Up(g)
  <2> HIDE DEF F
  <2> QED
    BY <1>3, <1>8, <1>9
<1>11. after = Up(after)
  <2> HIDE DEF Up
  <2> QED
    BY <1>10
<1> HIDE DEF F, after
<1>12. after[0] = start /\ \A n \in 1..N : after[n] = Turn(n, after[n - 1])
  <2>1. after[0] = first
    BY <1>3, <1>11
  <2>2. \A n \in 1..N : n \in 0..N /\ n # 0 /\ after[n] = Turn(n, after[n - 1])
    BY <1>3, <1>11
  <2> QED
    BY <1>2, <2>1, <2>2
<1> HIDE DEF followed, e
<1> DEFINE Done(n, st) == /\ st \in Loops /\ Fit(d, st, e)
                          /\ \A i \in 1..n : MetBy(d, st, followed[i], e)
                          /\ \A q, f : MetBy(d, start, q, f) => MetBy(d, st, q, f)
           T == {n \in 0..N : Done(n, after[n])}
<1>13. 0 \in T
  <2>1. Fit(d, start, e)
    BY DEF e
  <2> QED
    BY <1>3, <1>12, <2>1
<1>14. ASSUME NEW n \in 1..N, n - 1 \in T PROVE n \in T
  <2> DEFINE st == after[n - 1]
             new == Turn(n, st)
  <2>1. Done(n - 1, st)
    BY <1>14
  <2>2. new \in Loops
    BY <1>5, <2>1
  <2>3. Fit(d, new, e) /\ MetBy(d, new, followed[n], e) /\ \A q, f : MetBy(d, st, q, f) => MetBy(d, new, q, f)
    BY <1>6, <2>1
  <2>4. \A i \in 1..n : i = n \/ i \in 1..(n - 1)
    BY <1>3
  <2>5. after[n] = new /\ n \in 0..N
    BY <1>3, <1>12
  <2> HIDE DEF st, new
  <2>6. Done(n, new)
    BY <2>1, <2>2, <2>3, <2>4
  <2> QED
    BY <2>5, <2>6
<1>15. \A n \in 1..N : n - 1 \in T => n \in T
  <2> HIDE DEF T
  <2> QED
    BY <1>14
<1>16. 0..N \subseteq T
  <2> HIDE DEF T, Up
  <2> QED
    BY <1>3, <1>13, <1>15, UpTo
<1>17. Done(N, after[N])
  <2>1. N \in 0..N
    BY <1>3
  <2> HIDE DEF Done
  <2> QED
    BY <1>16, <2>1
<1>18. item.depth < asked.depth => \A p \in ToSet(links) : \E i \in 1..N : followed[i] = p
  <2>1. DOMAIN links = 1..Len(links)
    BY LenProperties
  <2> QED
    BY <1>4, <2>1 DEF ToSet, N
<1> QED
  BY <1>1, <1>17, <1>18 DEF e

-----------------------------------------------------------------------------
DeepInv ==
  /\ asked \in Asked /\ ended \in BOOLEAN
  /\ visited \in {v \in SUBSET DOMAIN WebPages : IsFiniteSet(v)} /\ crossed \in 0..MaxCross
  /\ todo \in Seq(Entries) /\ done \in Seq(Renders)
  /\ Lined(Line(done, todo), visited) /\ Spent(visited, crossed)
  /\ todo # <<>> => \A n \in 1..Len(Line(done, todo)) : Line(done, todo)[n].depth <= todo[1].depth + 1
  /\ \A m \in 1..Len(done) : done[m].depth < asked.depth =>
       \A p \in ToSet(done[m].links) : Met(Line(done, todo), visited, crossed, p, done[m].depth + 1)

\* The crawl begins with its root, and goes on page by page.
LEMMA DeepInitInv == DeepInit => DeepInv
<1> SUFFICES ASSUME DeepInit PROVE DeepInv
  OBVIOUS
<1> DEFINE root == [page |-> Root, depth |-> 0]
           s == Line(done, todo)
<1>1. asked \in Asked /\ ended \in BOOLEAN /\ crossed = 0 /\ crossed \in 0..MaxCross
  <2>1. asked \in [depth : Depths, pages : PageLimits, same : BOOLEAN]
    BY DEF DeepInit
  <2>2. asked \in Asked
    BY <2>1, DeepBounds DEF Asked
  <2>3. ended \in BOOLEAN
    BY DEF DeepInit
  <2> QED
    BY <2>2, <2>3, DeepBounds DEF DeepInit
<1>2. visited = {Root} /\ visited \subseteq DOMAIN WebPages /\ IsFiniteSet(visited) /\ Cardinality(visited) = 1
  BY FS_Singleton, DeepBounds DEF DeepInit
<1>3. todo = <<root>> /\ done = <<>> /\ root \in Entries
  BY <1>1, DeepBounds DEF DeepInit, Entries, Asked
<1>4. todo \in Seq(Entries) /\ done \in Seq(Renders) /\ Len(todo) = 1 /\ Len(done) = 0 /\ todo[1] = root /\ todo # <<>>
  BY <1>3
<1>5. s = [n \in 1..1 |-> root]
  BY <1>4 DEF Line
<1>6. Len(s) = 1 /\ s[1] = root /\ DOMAIN s = 1..1
  <2>1. Len(s) = Len(done) + Len(todo)
    BY <1>4, LineType
  <2> QED
    BY <1>4, <1>5, <2>1
<1> HIDE DEF s
<1>7. Lined(s, visited)
  BY <1>2, <1>6 DEF Lined
<1>8. Abroad(visited) = {} /\ Cardinality(Abroad(visited)) = 0
  BY <1>2, FS_EmptySet DEF Abroad, Cross
<1>9. Spent(visited, crossed)
  BY <1>1, <1>2, <1>8 DEF Spent, Asked
<1> QED
  BY <1>1, <1>2, <1>4, <1>6, <1>7, <1>9 DEF DeepInv, s

LEMMA ScanInv == DeepInv /\ ScanPage => DeepInv'
<1> SUFFICES ASSUME DeepInv, ScanPage PROVE DeepInv'
  OBVIOUS
<1> DEFINE item == Head(todo)
<1>1. PICK links :
        /\ links = <<>> \/ \E q \in StandIns(item.page) : links = WebPages[q].links
        /\ LET st == Follow(item, links) IN
          /\ visited' = st.visited /\ crossed' = st.crossed /\ todo' = st.todo
          /\ done' = Append(done, [page |-> item.page, depth |-> item.depth, links |-> links])
  BY DEF ScanPage
<1> DEFINE x == [page |-> item.page, depth |-> item.depth, links |-> links]
           d == Append(done, x)
           start == [visited |-> visited, crossed |-> crossed, todo |-> Tail(todo), stop |-> FALSE]
           e == item.depth + 1
<1>2. asked' = asked /\ ended' = ended /\ todo # <<>> /\ asked \in Asked
  BY DEF ScanPage, DeepInv
<1>3. todo \in Seq(Entries) /\ done \in Seq(Renders) /\ item = todo[1] /\ item \in Entries
  <2>1. todo \in Seq(Entries) /\ done \in Seq(Renders)
    BY DEF DeepInv
  <2>2. Len(todo) \in Nat /\ 1 \in 1..Len(todo)
    BY <1>2, <2>1, EmptySeq, LenProperties
  <2>3. todo[1] \in Entries
    BY <2>1, <2>2, ElementOfSeq
  <2> QED
    BY <2>1, <2>3
<1>4. links \in Seq(DOMAIN WebPages)
  <2>1. StandIns(item.page) \subseteq DOMAIN WebPages
    BY <1>3 DEF Entries, StandIns
  <2>2. ASSUME NEW p \in StandIns(item.page) PROVE WebPages[p].links \in Seq(DOMAIN WebPages)
    <3> DEFINE l == WebPages[p].links
    <3>1. Len(l) \in Nat /\ l \in [1..Len(l) -> DOMAIN WebPages]
      BY <2>1, DeepBounds
    <3> HIDE DEF l
    <3>2. l \in Seq(DOMAIN WebPages)
      BY <3>1
    <3> QED
      BY <3>2 DEF l
  <2> QED
    BY <1>1, <2>2, EmptySeq
<1>5. x \in Renders /\ x.page = todo[1].page /\ x.depth = todo[1].depth /\ x.links = links
  BY <1>3, <1>4 DEF Entries, Renders
<1> HIDE DEF x, item
<1>6. /\ Line(d, Tail(todo)) = Line(done, todo)
      /\ d \in Seq(Renders) /\ Tail(todo) \in Seq(Entries)
      /\ Len(d) = Len(done) + 1 /\ d[Len(done) + 1] = x /\ \A n \in 1..Len(done) : d[n] = done[n]
  BY <1>2, <1>3, <1>5, LineShift
<1>7. start \in Loops /\ start.visited = visited /\ start.todo = Tail(todo) /\ start.crossed = crossed
  BY <1>6 DEF DeepInv, Loops
<1>8. start.stop = FALSE
  OBVIOUS
<1> HIDE DEF d
<1>9. Fit(d, start, e)
  <2> HIDE DEF start
  <2>1. Lined(Line(done, todo), visited) /\ Spent(visited, crossed)
        /\ \A n \in 1..Len(Line(done, todo)) : Line(done, todo)[n].depth <= e
    BY <1>2, <1>3 DEF DeepInv
  <2> QED
    BY <1>6, <1>7, <1>8, <2>1 DEF Fit
<1> DEFINE st == Follow(item, links)
<1>10. st \in Loops /\ Fit(d, st, e)
       /\ (item.depth < asked.depth => \A p \in ToSet(links) : MetBy(d, st, p, e))
       /\ \A q, f : MetBy(d, start, q, f) => MetBy(d, st, q, f)
  <2> HIDE DEF start, e
  <2>1. start = [visited |-> visited, crossed |-> crossed, todo |-> Tail(todo), stop |-> FALSE] /\ e = item.depth + 1
    BY DEF start, e
  <2> QED
    BY <1>2, <1>3, <1>4, <1>6, <1>7, <1>9, <2>1, FollowFits
<1>11. visited' = st.visited /\ crossed' = st.crossed /\ todo' = st.todo /\ done' = d
  BY <1>1 DEF d, x, item
<1> HIDE DEF st, start
<1>12. /\ Line(done, todo)' = Line(d, st.todo) /\ Asked' = Asked /\ Entries' = Entries /\ Renders' = Renders
  BY <1>2, <1>11 DEF Line, Asked, Entries, Renders
<1> DEFINE s == Line(d, st.todo)
<1>19. s \in Seq(Entries) /\ Len(s) = Len(d) + Len(st.todo)
       /\ \A n \in 1..(Len(d) + Len(st.todo)) : s[n] \in Entries
  <2>1. st.todo \in Seq(Entries)
    BY <1>10 DEF Loops
  <2> QED
    BY <1>6, <2>1, LineType
<1>13. Lined(s, st.visited) /\ Spent(st.visited, st.crossed) /\ \A n \in 1..Len(s) : s[n].depth <= e
  BY <1>10 DEF Fit
<1>14. st.todo \in Seq(Entries) /\ st.visited \in {v \in SUBSET DOMAIN WebPages : IsFiniteSet(v)} /\ st.crossed \in 0..MaxCross
  BY <1>10 DEF Loops
<1>15. ASSUME st.todo # <<>> PROVE \A n \in 1..Len(s) : s[n].depth <= st.todo[1].depth + 1
  <2> HIDE DEF s
  <2>1. Len(st.todo) \in Nat /\ Len(st.todo) >= 1 /\ Len(done) \in Nat
    BY <1>3, <1>14, <1>15, EmptySeq, LenProperties
  <2>2. /\ Len(d) \in 1..(Len(d) + Len(st.todo)) /\ Len(d) + 1 \in 1..(Len(d) + Len(st.todo))
        /\ Len(d) <= Len(d) + 1 /\ ~(Len(d) + 1 <= Len(d)) /\ Len(d) + 1 - Len(d) = 1
    <3>1. Len(d) \in Nat /\ Len(d) >= 1
      BY <1>6, <2>1
    <3> QED
      BY <2>1, <3>1
  <2>3. s[Len(d)].depth = item.depth /\ s[Len(d) + 1] = st.todo[1]
    <3>1. s[Len(d)] = [page |-> d[Len(d)].page, depth |-> d[Len(d)].depth]
      BY <2>2 DEF Line, s
    <3>2. s[Len(d) + 1] = st.todo[1]
      BY <2>2 DEF Line, s
    <3> QED
      BY <1>3, <1>5, <1>6, <3>1, <3>2
  <2>4. item.depth <= st.todo[1].depth
    BY <1>13, <1>19, <2>2, <2>3 DEF Lined
  <2>5. item.depth \in Nat /\ \A n \in 1..Len(s) : s[n].depth \in Nat
    BY <1>3, <1>19 DEF Entries
  <2>6. st.todo[1].depth \in Nat
    BY <1>19, <2>2, <2>3, <2>5
  <2> QED
    BY <1>13, <2>4, <2>5, <2>6
<1>16. ASSUME NEW m \in 1..Len(d), d[m].depth < asked.depth, NEW p \in ToSet(d[m].links)
       PROVE  MetBy(d, st, p, d[m].depth + 1)
  <2>1. Len(done) \in Nat
    BY <1>3, LenProperties
  <2>2. CASE m \in 1..Len(done)
    <3>1. Met(Line(done, todo), visited, crossed, p, done[m].depth + 1)
      BY <1>6, <1>16, <2>2 DEF DeepInv
    <3>2. MetBy(d, start, p, d[m].depth + 1)
      BY <1>6, <1>7, <2>2, <3>1 DEF MetBy
    <3> QED
      BY <1>10, <3>2
  <2>3. CASE m = Len(done) + 1
    <3>1. d[m] = x /\ x.depth = item.depth
      BY <1>3, <1>5, <1>6, <2>3
    <3> QED
      BY <1>5, <1>10, <1>16, <3>1
  <2> QED
    BY <1>6, <2>1, <2>2, <2>3
<1>17. \A m \in 1..Len(d) : d[m].depth < asked.depth =>
         \A p \in ToSet(d[m].links) : Met(s, st.visited, st.crossed, p, d[m].depth + 1)
  BY <1>16 DEF MetBy
<1> HIDE DEF s
<1>18. ended' \in BOOLEAN
  BY <1>2 DEF DeepInv
<1>20. Lined(Line(done, todo), visited)' /\ Spent(visited, crossed)'
  BY <1>2, <1>11, <1>12, <1>13 DEF Spent, Abroad, Cross, s, Lined
<1>21. (todo # <<>> => \A n \in 1..Len(Line(done, todo)) : Line(done, todo)[n].depth <= todo[1].depth + 1)'
  BY <1>11, <1>12, <1>15 DEF s
<1>22. (\A m \in 1..Len(done) : done[m].depth < asked.depth =>
          \A p \in ToSet(done[m].links) : Met(Line(done, todo), visited, crossed, p, done[m].depth + 1))'
  BY <1>2, <1>11, <1>12, <1>17 DEF Met, Refused, Cross, s
<1>23. (asked \in Asked /\ visited \in {v \in SUBSET DOMAIN WebPages : IsFiniteSet(v)} /\ crossed \in 0..MaxCross
        /\ todo \in Seq(Entries) /\ done \in Seq(Renders))'
  BY <1>2, <1>6, <1>11, <1>12, <1>14
<1> QED
  BY <1>18, <1>20, <1>21, <1>22, <1>23 DEF DeepInv

LEMMA DeepStepInv == DeepInv /\ [DeepNext]_deepVars => DeepInv'
<1> SUFFICES ASSUME DeepInv, [DeepNext]_deepVars PROVE DeepInv'
  OBVIOUS
<1>1. CASE ScanPage
  BY <1>1, ScanInv
<1>2. CASE EndScan \/ UNCHANGED deepVars
  <2>1. UNCHANGED <<asked, visited, todo, crossed, done>>
    BY <1>2 DEF EndScan, deepVars
  <2>2. ended' \in BOOLEAN
    BY <1>2 DEF EndScan, deepVars, DeepInv
  <2>3. Entries' = Entries /\ Renders' = Renders /\ Asked' = Asked /\ Line(done, todo)' = Line(done, todo)
        /\ Spent(visited, crossed)' = Spent(visited, crossed)
    BY <2>1 DEF Entries, Renders, Asked, Line, Spent, Abroad, Cross
  <2>4. (asked \in Asked /\ visited \in {v \in SUBSET DOMAIN WebPages : IsFiniteSet(v)} /\ crossed \in 0..MaxCross
         /\ todo \in Seq(Entries) /\ done \in Seq(Renders))'
    BY <2>1, <2>3 DEF DeepInv
  <2>5. (Lined(Line(done, todo), visited) /\ Spent(visited, crossed))'
    BY <2>1, <2>3 DEF DeepInv, Lined
  <2>6. (todo # <<>> => \A n \in 1..Len(Line(done, todo)) : Line(done, todo)[n].depth <= todo[1].depth + 1)'
    BY <2>1, <2>3 DEF DeepInv
  <2>7. (\A m \in 1..Len(done) : done[m].depth < asked.depth =>
           \A p \in ToSet(done[m].links) : Met(Line(done, todo), visited, crossed, p, done[m].depth + 1))'
    <3> SUFFICES ASSUME NEW m \in 1..Len(done), done[m].depth < asked.depth, NEW p \in ToSet(done[m].links)
                 PROVE  Met(Line(done, todo), visited, crossed, p, done[m].depth + 1)'
      BY <2>1
    <3>1. Met(Line(done, todo), visited, crossed, p, done[m].depth + 1)
      BY DEF DeepInv
    <3>2. Refused(visited, crossed, p)' = Refused(visited, crossed, p)
      BY <2>1 DEF Refused, Cross
    <3> QED
      BY <2>1, <2>3, <3>1, <3>2 DEF Met
  <2> QED
    BY <2>2, <2>4, <2>5, <2>6, <2>7 DEF DeepInv
<1> QED
  BY <1>1, <1>2 DEF DeepNext

-----------------------------------------------------------------------------
\* Where a page stands in the line.
LEMMA LinePlaces ==
  ASSUME DeepInv
  PROVE  LET s == Line(done, todo) IN
         /\ Len(done) \in Nat /\ Len(todo) \in Nat /\ Len(s) = Len(done) + Len(todo)
         /\ DOMAIN done = 1..Len(done) /\ DOMAIN todo = 1..Len(todo)
         /\ \A n \in 1..Len(done) : /\ n \in 1..Len(s) /\ done[n] \in Renders
                                    /\ s[n].page = done[n].page /\ s[n].depth = done[n].depth
         /\ \A n \in 1..Len(todo) : /\ Len(done) + n \in 1..Len(s) /\ todo[n] \in Entries
                                    /\ s[Len(done) + n] = todo[n]
<1> DEFINE s == Line(done, todo)
<1>1. done \in Seq(Renders) /\ todo \in Seq(Entries)
  BY DEF DeepInv
<1>2. Len(done) \in Nat /\ Len(todo) \in Nat /\ Len(s) = Len(done) + Len(todo)
  BY <1>1, LineType
<1>3. DOMAIN done = 1..Len(done) /\ DOMAIN todo = 1..Len(todo)
      /\ (\A n \in 1..Len(done) : done[n] \in Renders) /\ (\A n \in 1..Len(todo) : todo[n] \in Entries)
  BY <1>1, LenProperties, ElementOfSeq
<1>4. ASSUME NEW n \in 1..Len(done)
      PROVE  n \in 1..Len(s) /\ s[n].page = done[n].page /\ s[n].depth = done[n].depth
  <2>1. n \in 1..(Len(done) + Len(todo)) /\ n <= Len(done)
    BY <1>2
  <2>2. s[n] = [page |-> done[n].page, depth |-> done[n].depth]
    BY <2>1 DEF Line
  <2> QED
    BY <1>2, <2>1, <2>2
<1>5. ASSUME NEW n \in 1..Len(todo) PROVE Len(done) + n \in 1..Len(s) /\ s[Len(done) + n] = todo[n]
  <2>1. Len(done) + n \in 1..(Len(done) + Len(todo)) /\ ~(Len(done) + n <= Len(done)) /\ Len(done) + n - Len(done) = n
    BY <1>2
  <2> QED
    BY <1>2, <2>1 DEF Line
<1> QED
  BY <1>2, <1>3, <1>4, <1>5

\* Nothing that is queued stands deeper than over the links of what has been rendered.
LEMMA NothingShallower ==
  ASSUME DeepInv, NEW j \in 0..asked.depth, NEW m \in 1..Len(done), done[m].page \in Within[j]
  PROVE  done[m].depth <= j
<1> DEFINE s == Line(done, todo)
           N == asked.depth
           V == SUBSET DOMAIN WebPages
           Linked(R) == UNION {ToSet(done[i].links) : i \in {k \in DOMAIN done : done[k].page \in R}}
           Wider(R) == R \cup Linked(R)
           Up(g) == [n \in 0..N |-> IF n = 0 THEN {Root} ELSE Wider(g[n - 1])]
           reach == CHOOSE g : g = Up(g)
           F == [n \in 1..N |-> [R \in V |-> Wider(R)]]
<1>1. Within = reach
  BY DEF Within
<1>2. N \in Nat /\ {Root} \in V
  BY DeepBounds DEF DeepInv, Asked
<1>3. \A R \in V : Wider(R) \in V
  <2>1. \A i \in DOMAIN done : ToSet(done[i].links) \subseteq DOMAIN WebPages
    <3> SUFFICES ASSUME NEW i \in DOMAIN done PROVE ToSet(done[i].links) \subseteq DOMAIN WebPages
      OBVIOUS
    <3>1. done[i] \in Renders
      BY LinePlaces
    <3>2. done[i].links \in Seq(DOMAIN WebPages)
      BY <3>1 DEF Renders
    <3> QED
      BY <3>2, LenProperties, ElementOfSeq DEF ToSet
  <2> QED
    BY <2>1
<1> HIDE DEF Linked, Wider, V, N
<1>4. F \in Steps(N, V)
  BY <1>3 DEF Steps
<1>5. PICK g \in [0..N -> V] : g[0] = {Root} /\ \A n \in 1..N : g[n] = F[n][g[n - 1]]
  <2> HIDE DEF F
  <2>1. \E g \in [0..N -> V] : Follows(g, N, {Root}, F)
    BY <1>2, <1>4, Recursion
  <2> QED
    BY <2>1 DEF Follows
<1>6. \A n \in 1..N : F[n][g[n - 1]] = Wider(g[n - 1])
  <2>1. \A n \in 1..N : g[n - 1] \in V
    BY <1>2, <1>5
  <2> QED
    BY <2>1
<1>7. g = Up(g)
  <2> HIDE DEF F
  <2> QED
    BY <1>2, <1>5, <1>6
<1>8. reach = Up(reach)
  <2> HIDE DEF Up
  <2> QED
    BY <1>7
<1> HIDE DEF F, reach
<1>9. reach[0] = {Root} /\ \A n \in 1..N : reach[n] = reach[n - 1] \cup Linked(reach[n - 1])
  <2>1. reach[0] = {Root}
    BY <1>2, <1>8
  <2>2. \A n \in 1..N : n \in 0..N /\ n # 0 /\ reach[n] = Wider(reach[n - 1])
    <3> SUFFICES ASSUME NEW n \in 1..N PROVE n \in 0..N /\ n # 0 /\ reach[n] = Wider(reach[n - 1])
      OBVIOUS
    <3>1. n \in 0..N /\ n # 0
      BY <1>2
    <3> QED
      BY <1>8, <3>1
  <2> QED
    BY <2>1, <2>2 DEF Wider
<1> DEFINE Shallow(n) == \A i \in 1..Len(s) : s[i].page \in reach[n] => s[i].depth <= n
           T == {n \in 0..N : Shallow(n)}
<1>10. Lined(s, visited) /\ \A i \in 1..Len(s) : s[i].depth \in Nat
  <2>1. done \in Seq(Renders) /\ todo \in Seq(Entries) /\ Lined(s, visited)
    BY DEF DeepInv
  <2>2. Len(s) = Len(done) + Len(todo) /\ \A i \in 1..(Len(done) + Len(todo)) : s[i] \in Entries
    BY <2>1, LineType
  <2> QED
    BY <2>1, <2>2 DEF Entries
<1> HIDE DEF s
<1>11. 0 \in T
  <2>1. ASSUME NEW i \in 1..Len(s), s[i].page \in reach[0] PROVE s[i].depth <= 0
    <3>1. 1 \in 1..Len(s) /\ s[1].page = Root /\ s[1].depth = 0
      BY <1>10 DEF Lined
    <3>2. i = 1
      <4>1. s[i].page = Root
        BY <1>9, <2>1
      <4> QED
        BY <1>10, <3>1, <4>1 DEF Lined
    <3> QED
      BY <3>1, <3>2
  <2> QED
    BY <1>2, <2>1
<1>12. ASSUME NEW n \in 1..N, n - 1 \in T PROVE n \in T
  <2>1. Shallow(n - 1) /\ n \in 0..N /\ n - 1 \in Nat
    BY <1>2, <1>12
  <2>2. ASSUME NEW i \in 1..Len(s), s[i].page \in reach[n] PROVE s[i].depth <= n
    <3>1. CASE s[i].page \in reach[n - 1]
      BY <1>10, <2>1, <3>1
    <3>2. CASE s[i].page \in Linked(reach[n - 1])
      <4>1. PICK k \in DOMAIN done : done[k].page \in reach[n - 1] /\ s[i].page \in ToSet(done[k].links)
        BY <3>2 DEF Linked
      <4>2. k \in 1..Len(done) /\ k \in 1..Len(s) /\ s[k].page = done[k].page /\ s[k].depth = done[k].depth
        BY LinePlaces DEF s
      <4>3. done[k].depth <= n - 1 /\ done[k].depth \in Nat
        BY <1>10, <2>1, <4>1, <4>2
      <4>4. done[k].depth < asked.depth
        BY <1>2, <4>3 DEF N
      <4>5. Met(s, visited, crossed, s[i].page, done[k].depth + 1)
        BY <4>1, <4>2, <4>4 DEF DeepInv, s
      <4>6. s[i].page \in visited
        BY <1>10 DEF Lined
      <4>7. PICK h \in 1..Len(s) : s[h].page = s[i].page /\ s[h].depth <= done[k].depth + 1
        BY <4>5, <4>6 DEF Met, Refused
      <4>8. h = i
        BY <1>10, <4>7 DEF Lined
      <4> QED
        BY <1>10, <4>3, <4>7, <4>8
    <3> QED
      BY <1>9, <2>2, <3>1, <3>2
  <2> QED
    BY <2>1, <2>2
<1>13. \A n \in 1..N : n - 1 \in T => n \in T
  <2> HIDE DEF T
  <2> QED
    BY <1>12
<1>14. 0..N \subseteq T
  <2> HIDE DEF T, Up
  <2> QED
    BY <1>2, <1>11, <1>13, UpTo
<1>15. Shallow(j)
  BY <1>14 DEF N
<1>16. m \in 1..Len(s) /\ s[m].page = done[m].page /\ s[m].depth = done[m].depth
  BY LinePlaces DEF s
<1> QED
  BY <1>1, <1>15, <1>16

\* So the crawl is fair.
LEMMA DeepSafe == DeepInv => CrawlIsFair
<1> SUFFICES ASSUME DeepInv PROVE CrawlIsFair
  OBVIOUS
<1> DEFINE s == Line(done, todo)
<1>1. /\ Len(done) \in Nat /\ Len(todo) \in Nat /\ Len(s) = Len(done) + Len(todo)
      /\ DOMAIN done = 1..Len(done) /\ DOMAIN todo = 1..Len(todo)
      /\ \A n \in 1..Len(done) : /\ n \in 1..Len(s) /\ done[n] \in Renders
                                 /\ s[n].page = done[n].page /\ s[n].depth = done[n].depth
      /\ \A n \in 1..Len(todo) : /\ Len(done) + n \in 1..Len(s) /\ todo[n] \in Entries
                                 /\ s[Len(done) + n] = todo[n]
  BY LinePlaces
<1>2. Lined(s, visited) /\ Spent(visited, crossed) /\ asked \in Asked
      /\ visited \subseteq DOMAIN WebPages /\ IsFiniteSet(visited) /\ crossed \in 0..MaxCross /\ MaxCross \in Nat
  BY DeepBounds DEF DeepInv
<1> HIDE DEF s
<1>3. DeepTypeOK
  <2>1. Root \in visited
    BY <1>2 DEF Lined
  <2>2. \A n \in DOMAIN todo : todo[n].page \in visited /\ todo[n].depth \in 0..asked.depth
    <3>1. \A n \in 1..Len(s) : s[n].page \in visited
      BY <1>2 DEF Lined
    <3>2. \A n \in 1..Len(todo) : todo[n].page \in visited /\ todo[n] \in Entries
      BY <1>1, <3>1
    <3> QED
      BY <1>1, <3>2 DEF Entries
  <2>3. ended \in BOOLEAN
    BY DEF DeepInv
  <2> QED
    BY <1>2, <2>1, <2>2, <2>3 DEF DeepTypeOK
<1>4. RendersAreBounded
  <2>1. \A m, n \in DOMAIN done : done[m].page = done[n].page => m = n
    BY <1>1, <1>2 DEF Lined
  <2>2. Len(done) + Len(todo) <= asked.pages
    BY <1>1, <1>2 DEF Lined, Spent
  <2>3. {p \in Scanned : Cross(p)} \subseteq Abroad(visited)
    BY <1>1, <1>2 DEF Scanned, Abroad, Lined
  <2>4. IsFiniteSet(Abroad(visited))
    BY <1>2, FS_Subset DEF Abroad
  <2>5. Cardinality({p \in Scanned : Cross(p)}) <= Cardinality(Abroad(visited))
        /\ Cardinality({p \in Scanned : Cross(p)}) \in Nat /\ Cardinality(Abroad(visited)) \in Nat
    BY <2>3, <2>4, FS_Subset, FS_CardinalityType
  <2>6. Cardinality({p \in Scanned : Cross(p)}) <= IF asked.same THEN 0 ELSE MaxCross
    BY <1>2, <2>5 DEF Spent
  <2> QED
    BY <2>1, <2>2, <2>6 DEF RendersAreBounded
<1>5. ShallowFirst
  <2>1. \A m, n \in DOMAIN done : m < n => done[m].depth <= done[n].depth
    BY <1>1, <1>2 DEF Lined
  <2>2. ASSUME NEW n \in DOMAIN done, done[n].depth > 0 PROVE done[n].page \notin Within[done[n].depth - 1]
    <3>1. done[n].depth \in 0..asked.depth /\ asked.depth \in Nat
      BY <1>1, <1>2 DEF Renders, Asked
    <3>2. done[n].depth - 1 \in 0..asked.depth /\ ~(done[n].depth <= done[n].depth - 1)
      BY <2>2, <3>1
    <3> QED
      BY <1>1, <3>2, NothingShallower
  <2> QED
    BY <2>1, <2>2 DEF ShallowFirst
<1>6. RefusedForCause
  <2>1. ASSUME NEW n \in DOMAIN done, done[n].depth < asked.depth, NEW p \in ToSet(done[n].links) \ visited
        PROVE  \/ Cross(p) /\ asked.same
               \/ Cardinality(visited) >= asked.pages
               \/ Cross(p) /\ Cardinality(Abroad(visited)) >= MaxCross
    <3>1. Met(s, visited, crossed, p, done[n].depth + 1)
      BY <1>1, <2>1 DEF DeepInv, s
    <3>2. Refused(visited, crossed, p)
      BY <1>2, <2>1, <3>1 DEF Met, Lined
    <3> QED
      BY <1>2, <3>2 DEF Refused, Spent
  <2> QED
    BY <2>1 DEF RefusedForCause, Abroad
<1> QED
  BY <1>3, <1>4, <1>5, <1>6 DEF CrawlIsFair

\* The crawl of deep scan keeps to its budgets, goes breadth first, and turns down nothing
\* that they leave room for, whatever the pages link to.
THEOREM CrawlHolds == DeepSpec => []CrawlIsFair
<1>1. DeepInit => DeepInv
  BY DeepInitInv
<1>2. DeepInv /\ [DeepNext]_deepVars => DeepInv'
  BY DeepStepInv
<1>3. DeepInv => CrawlIsFair
  BY DeepSafe
<1> QED
  BY <1>1, <1>2, <1>3, PTL DEF DeepSpec

=============================================================================
