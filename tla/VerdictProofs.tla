--------------------------- MODULE VerdictProofs ---------------------------
(***************************************************************************)
(* Proofs about the verdict pipeline, for any requests, URLs and profiles: *)
(* what requests may take from the two caches, what their evidence is      *)
(* about, and that the persisted rows agree.                               *)
(***************************************************************************)
EXTENDS VerdictPipeline, TLAPS

\* What a request has, by where it is.
Progress ==
  \A r \in Requests :
    /\ pc[r] = "idle" => profile[r] = None /\ joined[r] = None
    /\ pc[r] # "idle" => profile[r] \in Profiles
    /\ pc[r] \in {"idle", "lookup", "tier2", "rendering", "waiting"} => outcome[r] = None
    /\ pc[r] \in {"idle", "lookup", "tier2", "rendering", "returning", "waiting"}
         => render[r] = None
    /\ pc[r] = "rendering" => loaded[r] # None
    /\ pc[r] = "returning" => outcome[r] # None
    /\ pc[r] \in {"answering", "done"} <=> answer[r] # None
    /\ pc[r] = "answering" => answer[r].by = r
    /\ pc[r] = "waiting" => joined[r] # None
    /\ pc[r] = "storing" => render[r] # None /\ Key[render[r].url] = Key[profile[r].url]

\* A registered call is its leader's, still inside do(), and of its key.
CallsLed ==
  \A k \in Keys : inflight[k] # None =>
    pc[inflight[k]] \in {"rendering", "returning"} /\ Key[profile[inflight[k]].url] = k

\* Who joined a call asked for the same key; a call returns a render of its leader's URL.
CallsFit ==
  /\ \A r \in Requests : joined[r] # None =>
       pc[joined[r]] # "idle" /\ Key[profile[joined[r]].url] = Key[profile[r].url]
  /\ \A r \in Requests : outcome[r] \in Renders =>
       outcome[r].url = profile[r].url /\ outcome[r].id = [from |-> "render", of |-> r]

\* Cache 2 holds renders of the URL's key, or for the domain of a key that is also a
\* cached page's, never a challenge.
StoredRendersFit ==
  /\ \A u \in Urls : rcache[u] # None =>
       Key[rcache[u].url] = Key[u] /\ rcache[u].content # "challenge"
  /\ dcache # None => /\ \E v \in Urls \ Uncached : Key[v] = Key[dcache.url]
                      /\ dcache.content # "challenge"

\* The ids a request found when it arrived are of calls that were over: neither its own
\* nor the one it joined is among them.
PastIsPast ==
  \A r \in Requests :
    /\ \A i \in past[r] : outcome[i.of] # None /\ pc[i.of] # "returning"
    /\ [from |-> "render", of |-> r] \notin past[r]
    /\ joined[r] # None => [from |-> "render", of |-> joined[r]] \notin past[r]

\* An answer, and what Cache 1 holds, is the answer of the scan it names, about the same
\* URL; another scan's was read where that is allowed, and an elevated one's is no ALLOW.
AnswersAreKept ==
  /\ \A r \in Requests : answer[r] # None =>
       /\ answer[answer[r].by] = answer[r]
       /\ profile[answer[r].by].url = profile[r].url
       /\ answer[r].by # r => /\ MayReadVerdict(profile[r])
                              /\ answer[r].verdict = "ALLOW" => ~Elevated(profile[answer[r].by])
  /\ \A u \in Urls : vcache[u] # None =>
       /\ answer[vcache[u].by] = vcache[u]
       /\ profile[vcache[u].by].url = u
       /\ vcache[u].verdict = "ALLOW" => ~Elevated(profile[vcache[u].by])

\* What TLC checks is not inductive: what a request takes from another's call or from a
\* cache fits it only because of what was put there, and when.
IInv ==
  /\ TypeOK /\ Progress /\ CallsLed /\ CallsFit /\ StoredRendersFit /\ PastIsPast
  /\ AnswersAreKept /\ EvidenceIsFit /\ ChallengeNotReused

-----------------------------------------------------------------------------
\* What the parts of requests, renders, answers and rows are.
LEMMA Parts ==
  /\ \A p \in Profiles : p.url \in Urls /\ p.ip \in {"none", "public", "private"}
  /\ \A i \in EvidenceIds : i.of \in Requests
  /\ \A x \in Renders :
       x.id \in EvidenceIds /\ x.url \in Urls /\ x.content \in Contents
  /\ \A a \in Answers : a.by \in Requests /\ a.id \in EvidenceIds /\ a.verdict \in Verdicts
  /\ \A u \in Urls : Key[u] \in Keys
  /\ \A e \in EvidenceRows : e.url \in Urls /\ e.judged \in Requests
  BY ProfilesAssumption DEF EvidenceIds, Renders, Answers, Keys, EvidenceRows

\* And how they are made.
LEMMA Makings ==
  /\ \A r \in Requests : \A w \in {"render", "scan"} : [from |-> w, of |-> r] \in EvidenceIds
  /\ \A i \in EvidenceIds, u \in Urls, c \in Contents :
       [id |-> i, url |-> u, content |-> c] \in Renders
  /\ \A v \in Verdicts, w \in Reasons, i \in EvidenceIds, p \in {"none", "public", "private"},
        r \in Requests :
       [verdict |-> v, reason |-> w, id |-> i, ip |-> p, by |-> r] \in Answers
  /\ \A u \in Urls, r \in Requests : [url |-> u, judged |-> r] \in EvidenceRows
  BY DEF EvidenceIds, Renders, Answers, EvidenceRows

\* What a request found on arrival stays over while calls that are over do.
LEMMA PastKept ==
  ASSUME TypeOK, PastIsPast, UNCHANGED <<past, joined>>,
         \A q \in Requests : outcome[q] # None /\ pc[q] # "returning" =>
                              outcome'[q] # None /\ pc'[q] # "returning"
  PROVE  PastIsPast'
<1>1. \A q \in Requests : \A i \in past[q] : i.of \in Requests
  BY Parts DEF TypeOK
<1>2. \A q \in Requests : \A i \in past'[q] : outcome'[i.of] # None /\ pc'[i.of] # "returning"
  BY <1>1 DEF PastIsPast
<1> QED
  BY <1>2 DEF PastIsPast

-----------------------------------------------------------------------------
\* One lemma per step of a request.
LEMMA ArriveInv == ASSUME IInv, NEW r \in Requests, Arrive(r) PROVE IInv'
<1> USE NoneAssumption, Parts DEF IInv, TypeOK, OrNone
<1>1. PICK p \in Profiles : profile' = [profile EXCEPT ![r] = p]
  BY DEF Arrive
<1>2. /\ pc[r] = "idle" /\ pc' = [pc EXCEPT ![r] = "lookup"]
      /\ past' = [past EXCEPT ![r] = Rendered]
      /\ UNCHANGED <<dead, joined, loaded, outcome, render, answer, caches, inflight, rows, world>>
  BY DEF Arrive
<1> USE DEF caches, rows, world
<1>3. /\ profile[r] = None /\ joined[r] = None /\ outcome[r] = None /\ render[r] = None
      /\ answer[r] = None
  BY <1>2 DEF Progress
<1>4. \A i \in Rendered :
        i \in EvidenceIds /\ outcome[i.of] \in Renders /\ pc[i.of] # "returning"
  <2> SUFFICES ASSUME NEW q \in Requests, outcome[q] \in Renders, pc[q] # "returning"
               PROVE  /\ outcome[q].id \in EvidenceIds
                      /\ outcome[outcome[q].id.of] \in Renders /\ pc[outcome[q].id.of] # "returning"
    BY DEF Rendered
  <2>1. outcome[q].id = [from |-> "render", of |-> q]
    BY DEF CallsFit
  <2>2. outcome[q].id.of = q
    BY <2>1
  <2> QED
    BY <2>2
<1>5. \A q \in Requests : q # r => profile'[q] = profile[q] /\ past'[q] = past[q] /\ pc'[q] = pc[q]
  BY <1>1, <1>2
<1>6. profile'[r] = p /\ pc'[r] = "lookup" /\ past'[r] = Rendered
  BY <1>1, <1>2
<1>7. \A q \in Requests : joined[q] # r
  BY <1>2 DEF CallsFit
<1>8. /\ \A q \in Requests : answer[q] # None => answer[q].by # r
      /\ \A u \in Urls : vcache[u] # None => vcache[u].by # r
  <2>1. \A q \in Requests : answer[q] # None => answer[q].by # r
    BY <1>3 DEF AnswersAreKept
  <2>2. \A u \in Urls : vcache[u] # None => vcache[u].by # r
    BY <1>3 DEF AnswersAreKept
  <2> QED
    BY <2>1, <2>2
<1>9. TypeOK'
  BY <1>1, <1>2, <1>4 DEF PCs
<1>10. Progress'
  BY <1>1, <1>2, <1>3 DEF Progress
<1>11. CallsLed'
  BY <1>1, <1>2 DEF CallsLed
<1>12. CallsFit'
  <2>1. \A q \in Requests : joined'[q] # None =>
          pc'[joined'[q]] # "idle" /\ Key[profile'[joined'[q]].url] = Key[profile'[q].url]
    <3> SUFFICES ASSUME NEW q \in Requests, joined[q] # None
                 PROVE  pc'[joined[q]] # "idle" /\ Key[profile'[joined[q]].url] = Key[profile'[q].url]
      BY <1>2
    <3>1. joined[q] \in Requests /\ joined[q] # r /\ q # r
      BY <1>3, <1>7
    <3> QED
      BY <1>5, <3>1 DEF CallsFit
  <2>2. \A q \in Requests : outcome'[q] \in Renders =>
          outcome'[q].url = profile'[q].url /\ outcome'[q].id = [from |-> "render", of |-> q]
    BY <1>2, <1>3, <1>5 DEF CallsFit
  <2> QED
    BY <2>1, <2>2 DEF CallsFit
<1>13. PastIsPast'
  <2> SUFFICES ASSUME NEW q \in Requests
               PROVE  /\ \A i \in past'[q] : outcome[i.of] # None /\ pc'[i.of] # "returning"
                      /\ [from |-> "render", of |-> q] \notin past'[q]
                      /\ joined[q] # None => [from |-> "render", of |-> joined[q]] \notin past'[q]
    BY <1>2 DEF PastIsPast
  <2>1. CASE q = r
    <3>1. \A i \in Rendered : i.of \in Requests /\ i.of # r
      BY <1>3, <1>4
    <3> QED
      BY <1>3, <1>4, <1>5, <1>6, <2>1, <3>1
  <2>2. CASE q # r
    <3>1. \A i \in past[q] : i.of \in Requests /\ i.of # r
      BY <1>3 DEF PastIsPast
    <3> QED
      BY <1>5, <2>2, <3>1 DEF PastIsPast
  <2> QED
    BY <2>1, <2>2
<1>14. AnswersAreKept'
  <2>1. \A q \in Requests : answer'[q] # None =>
       /\ answer'[answer'[q].by] = answer'[q]
       /\ profile'[answer'[q].by].url = profile'[q].url
       /\ answer'[q].by # q => /\ MayReadVerdict(profile'[q])
                               /\ answer'[q].verdict = "ALLOW" => ~Elevated(profile'[answer'[q].by])
    <3> SUFFICES ASSUME NEW q \in Requests, answer[q] # None
                 PROVE  /\ answer[answer[q].by] = answer[q]
                        /\ profile'[answer[q].by].url = profile'[q].url
                        /\ answer[q].by # q =>
                             /\ MayReadVerdict(profile'[q])
                             /\ answer[q].verdict = "ALLOW" => ~Elevated(profile'[answer[q].by])
      BY <1>2
    <3>1. q # r /\ answer[q].by \in Requests /\ answer[q].by # r
      BY <1>3, <1>8
    <3> QED
      BY <1>5, <3>1 DEF AnswersAreKept
  <2>2. \A u \in Urls : vcache'[u] # None =>
       /\ answer'[vcache'[u].by] = vcache'[u]
       /\ profile'[vcache'[u].by].url = u
       /\ vcache'[u].verdict = "ALLOW" => ~Elevated(profile'[vcache'[u].by])
    <3> SUFFICES ASSUME NEW u \in Urls, vcache[u] # None
                 PROVE  /\ answer[vcache[u].by] = vcache[u]
                        /\ profile'[vcache[u].by].url = u
                        /\ vcache[u].verdict = "ALLOW" => ~Elevated(profile'[vcache[u].by])
      BY <1>2
    <3>1. vcache[u].by \in Requests /\ vcache[u].by # r
      BY <1>8
    <3> QED
      BY <1>5, <3>1 DEF AnswersAreKept
  <2> QED
    BY <2>1, <2>2 DEF AnswersAreKept
<1>15. EvidenceIsFit' /\ ChallengeNotReused'
  <2> SUFFICES ASSUME NEW q \in Requests, render[q] # None
               PROVE  q # r
    BY <1>2, <1>5 DEF EvidenceIsFit, EvidenceScope, RescanOnNewEvidence, ChallengeNotReused
  <2> QED
    BY <1>3
<1>16. StoredRendersFit'
  BY <1>2 DEF StoredRendersFit
<1> QED
  BY <1>9, <1>10, <1>11, <1>12, <1>13, <1>14, <1>15, <1>16

LEMMA CacheHitInv == ASSUME IInv, NEW r \in Requests, CacheHit(r) PROVE IInv'
<1> USE NoneAssumption, Parts DEF IInv, TypeOK, OrNone, request, caches, rows, world
<1> DEFINE u == profile[r].url
           a == vcache[u]
<1>1. /\ pc[r] = "lookup" /\ MayReadVerdict(profile[r]) /\ a # None
      /\ answer' = [answer EXCEPT ![r] = a] /\ pc' = [pc EXCEPT ![r] = "done"]
      /\ UNCHANGED <<request, joined, loaded, outcome, render, caches, inflight, rows, world>>
  BY DEF CacheHit
<1>2. /\ profile[r] \in Profiles /\ u \in Urls /\ a \in Answers
      /\ answer[r] = None /\ outcome[r] = None /\ render[r] = None
  BY <1>1 DEF Progress
<1>3. /\ a.by \in Requests /\ a.by # r /\ answer[a.by] = a /\ profile[a.by].url = u
      /\ a.verdict = "ALLOW" => ~Elevated(profile[a.by])
  BY <1>1, <1>2 DEF AnswersAreKept
<1> HIDE DEF u, a
<1>4. answer' \in [Requests -> OrNone(Answers)]
  BY <1>1, <1>2
<1>5. TypeOK'
  BY <1>1, <1>4 DEF PCs
<1>6. Progress'
  BY <1>1, <1>2 DEF Progress
<1>7. CallsLed' /\ CallsFit'
  BY <1>1 DEF CallsLed, CallsFit
<1>8. AnswersAreKept'
  <2>1. answer'[r] = a /\ \A q \in Requests : q # r => answer'[q] = answer[q]
    BY <1>1
  <2>2. ASSUME NEW q \in Requests, answer'[q] # None
        PROVE  /\ answer'[answer'[q].by] = answer'[q]
               /\ profile[answer'[q].by].url = profile[q].url
               /\ answer'[q].by # q =>
                    /\ MayReadVerdict(profile[q])
                    /\ answer'[q].verdict = "ALLOW" => ~Elevated(profile[answer'[q].by])
    <3>1. CASE q = r
      BY <1>1, <1>3, <2>1, <3>1 DEF u
    <3>2. CASE q # r
      <4>1. answer[q].by \in Requests /\ answer[q].by # r
        BY <1>2, <2>1, <2>2, <3>2 DEF AnswersAreKept
      <4> QED
        BY <2>1, <2>2, <3>2, <4>1 DEF AnswersAreKept
    <3> QED
      BY <3>1, <3>2
  <2>3. ASSUME NEW v \in Urls, vcache[v] # None
        PROVE  /\ answer'[vcache[v].by] = vcache[v]
               /\ profile[vcache[v].by].url = v
               /\ vcache[v].verdict = "ALLOW" => ~Elevated(profile[vcache[v].by])
    <3>1. vcache[v].by \in Requests /\ vcache[v].by # r
      BY <1>2, <2>3 DEF AnswersAreKept
    <3> QED
      BY <2>1, <2>3, <3>1 DEF AnswersAreKept
  <2> QED
    BY <1>1, <2>2, <2>3 DEF AnswersAreKept
<1>9. StoredRendersFit' /\ PastIsPast' /\ EvidenceIsFit' /\ ChallengeNotReused'
  BY <1>1 DEF StoredRendersFit, PastIsPast, EvidenceIsFit, EvidenceScope, RescanOnNewEvidence,
              ChallengeNotReused
<1> QED
  BY <1>5, <1>6, <1>7, <1>8, <1>9

LEMMA QuietInv ==
  ASSUME IInv, NEW r \in Requests, CacheMiss(r) \/ SkipTier2(r) \/ FollowerGivesUp(r)
  PROVE  IInv'
<1> USE NoneAssumption, Parts DEF IInv, TypeOK, OrNone, request, caches, rows, world
<1>1. \/ pc[r] = "lookup" /\ pc' = [pc EXCEPT ![r] = "tier2"]
      \/ pc[r] \in {"tier2", "waiting"} /\ pc' = [pc EXCEPT ![r] = "deciding"]
  BY DEF CacheMiss, SkipTier2, FollowerGivesUp
<1>2. UNCHANGED <<request, joined, loaded, outcome, render, answer, caches, inflight, rows, world>>
  BY DEF CacheMiss, SkipTier2, FollowerGivesUp
<1>3. TypeOK' /\ Progress'
  BY <1>1, <1>2 DEF PCs, Progress
<1>4. CallsLed' /\ CallsFit'
  BY <1>1, <1>2 DEF CallsLed, CallsFit
<1>5. /\ StoredRendersFit' /\ AnswersAreKept'
      /\ EvidenceIsFit' /\ ChallengeNotReused'
  BY <1>2 DEF StoredRendersFit, AnswersAreKept, EvidenceIsFit, EvidenceScope,
              RescanOnNewEvidence, ChallengeNotReused
<1>6. PastIsPast'
  BY <1>1, <1>2, PastKept
<1> QED
  BY <1>3, <1>4, <1>5, <1>6

LEMMA RenderHitInv == ASSUME IInv, NEW r \in Requests, RenderHit(r) PROVE IInv'
<1> USE NoneAssumption, Parts DEF IInv, TypeOK, OrNone, request, caches, rows, world
<1>1. PICK x \in StoredRenders(profile[r].url) : render' = [render EXCEPT ![r] = x]
  BY DEF RenderHit
<1>2. /\ pc[r] = "tier2" /\ MayReadRender(profile[r]) /\ pc' = [pc EXCEPT ![r] = "deciding"]
      /\ UNCHANGED <<request, joined, loaded, outcome, answer, caches, inflight, rows, world>>
  BY DEF RenderHit
<1>3. profile[r] \in Profiles /\ outcome[r] = None /\ answer[r] = None
  BY <1>2 DEF Progress
<1>4. /\ x \in Renders /\ x.content # "challenge"
      /\ InScope(x, profile[r].url)
  BY <1>3 DEF StoredRenders, MayUseDomainRender, StoredRendersFit, InScope
<1>5. render'[r] = x /\ \A q \in Requests : q # r => render'[q] = render[q]
  BY <1>1
<1>6. render' \in [Requests -> OrNone(Renders)]
  BY <1>1, <1>4
<1>7. TypeOK'
  BY <1>2, <1>6 DEF PCs
<1>8. Progress'
  BY <1>2, <1>3, <1>5 DEF Progress
<1>9. CallsLed' /\ CallsFit'
  BY <1>2 DEF CallsLed, CallsFit
<1>10. EvidenceIsFit'
  <2> SUFFICES ASSUME NEW q \in Requests, render'[q] # None
               PROVE  /\ InScope(render'[q], profile[q].url)
                      /\ profile[q] # None /\ (profile[q].force \/ profile[q].mode = "paranoid")
                           => render'[q].id \notin past[q]
    BY <1>2 DEF EvidenceIsFit, EvidenceScope, RescanOnNewEvidence
  <2>1. CASE q = r
    BY <1>2, <1>4, <1>5, <2>1 DEF MayReadRender
  <2>2. CASE q # r
    BY <1>5, <2>2 DEF EvidenceIsFit, EvidenceScope, RescanOnNewEvidence
  <2> QED
    BY <2>1, <2>2
<1>11. ChallengeNotReused'
  BY <1>2, <1>4, <1>5 DEF ChallengeNotReused
<1>12. StoredRendersFit' /\ PastIsPast' /\ AnswersAreKept'
  BY <1>2 DEF StoredRendersFit, PastIsPast, AnswersAreKept
<1> QED
  BY <1>7, <1>8, <1>9, <1>10, <1>11, <1>12

LEMMA LeadRenderInv == ASSUME IInv, NEW r \in Requests, LeadRender(r) PROVE IInv'
<1> USE NoneAssumption, Parts DEF IInv, TypeOK, OrNone, request, caches, rows, world
<1> DEFINE u == profile[r].url
           k == Key[u]
<1>1. /\ pc[r] = "tier2" /\ pc' = [pc EXCEPT ![r] = "rendering"]
      /\ inflight' = [inflight EXCEPT ![k] = r] /\ loaded' = [loaded EXCEPT ![r] = page[u]]
      /\ UNCHANGED <<request, joined, outcome, render, answer, caches, rows, world>>
  BY DEF LeadRender
<1>2. u \in Urls /\ k \in Keys /\ outcome[r] = None /\ render[r] = None /\ answer[r] = None
  BY <1>1 DEF Progress
<1>3. page[u] \in Contents /\ page[u] # None
  BY <1>2
<1> HIDE DEF u, k
<1>4. TypeOK'
  <2>1. inflight' \in [Keys -> OrNone(Requests)] /\ loaded' \in [Requests -> OrNone(Contents)]
    BY <1>1, <1>3
  <2> QED
    BY <1>1, <2>1 DEF PCs
<1>5. Progress'
  BY <1>1, <1>2, <1>3 DEF Progress
<1>6. CallsLed'
  <2>1. /\ inflight'[k] = r /\ \A j \in Keys : j # k => inflight'[j] = inflight[j]
        /\ pc'[r] = "rendering" /\ \A q \in Requests : q # r => pc'[q] = pc[q]
    BY <1>1, <1>2
  <2>2. ASSUME NEW j \in Keys, inflight'[j] # None
        PROVE  pc'[inflight'[j]] \in {"rendering", "returning"} /\ Key[profile[inflight'[j]].url] = j
    <3>1. CASE j = k
      BY <2>1, <3>1 DEF k, u
    <3>2. CASE j # k
      <4>1. inflight[j] \in Requests /\ inflight[j] # r
        BY <1>1, <2>1, <2>2, <3>2 DEF CallsLed
      <4> QED
        BY <2>1, <2>2, <3>2, <4>1 DEF CallsLed
    <3> QED
      BY <3>1, <3>2
  <2> QED
    BY <1>1, <2>2 DEF CallsLed
<1>7. CallsFit'
  BY <1>1 DEF CallsFit
<1>8. /\ StoredRendersFit' /\ PastIsPast' /\ AnswersAreKept'
      /\ EvidenceIsFit' /\ ChallengeNotReused'
  BY <1>1 DEF StoredRendersFit, PastIsPast, AnswersAreKept, EvidenceIsFit, EvidenceScope,
              RescanOnNewEvidence, ChallengeNotReused
<1> QED
  BY <1>4, <1>5, <1>6, <1>7, <1>8

LEMMA JoinRenderInv == ASSUME IInv, NEW r \in Requests, JoinRender(r) PROVE IInv'
<1> USE NoneAssumption, Parts DEF IInv, TypeOK, OrNone, request, caches, rows, world
<1> DEFINE k == Key[profile[r].url]
           l == inflight[k]
<1>1. /\ pc[r] = "tier2" /\ l # None
      /\ joined' = [joined EXCEPT ![r] = l] /\ pc' = [pc EXCEPT ![r] = "waiting"]
      /\ UNCHANGED <<request, loaded, outcome, render, answer, caches, inflight, rows, world>>
  BY DEF JoinRender
<1>2. /\ profile[r].url \in Urls /\ k \in Keys
      /\ outcome[r] = None /\ render[r] = None /\ answer[r] = None
  BY <1>1 DEF Progress
<1>3. l \in Requests /\ pc[l] \in {"rendering", "returning"} /\ Key[profile[l].url] = k /\ l # r
  BY <1>1, <1>2 DEF CallsLed
<1>4. outcome[l] = None \/ pc[l] = "returning"
  BY <1>3 DEF Progress
<1> HIDE DEF k, l
<1>5. /\ joined'[r] = l /\ \A q \in Requests : q # r => joined'[q] = joined[q]
      /\ pc'[r] = "waiting" /\ \A q \in Requests : q # r => pc'[q] = pc[q]
  BY <1>1
<1>6. TypeOK'
  <2>1. joined' \in [Requests -> OrNone(Requests)]
    BY <1>1, <1>3
  <2> QED
    BY <1>1, <2>1 DEF PCs
<1>7. Progress'
  BY <1>1, <1>2, <1>3 DEF Progress
<1>8. CallsLed'
  BY <1>1 DEF CallsLed
<1>9. CallsFit'
  <2>1. ASSUME NEW q \in Requests, joined'[q] # None
        PROVE  pc'[joined'[q]] # "idle" /\ Key[profile[joined'[q]].url] = Key[profile[q].url]
    <3>1. CASE q = r
      BY <1>3, <1>5, <3>1 DEF k
    <3>2. CASE q # r
      <4>1. joined[q] \in Requests /\ pc[joined[q]] # "idle"
        BY <1>5, <2>1, <3>2 DEF CallsFit
      <4> QED
        BY <1>5, <2>1, <3>2, <4>1 DEF CallsFit
    <3> QED
      BY <3>1, <3>2
  <2> QED
    BY <1>1, <2>1 DEF CallsFit
<1>10. PastIsPast'
  <2>1. ASSUME NEW q \in Requests, joined'[q] # None
        PROVE  [from |-> "render", of |-> joined'[q]] \notin past[q]
    <3>1. CASE q = r
      <4>1. \A i \in past[r] : outcome[i.of] # None /\ pc[i.of] # "returning"
        BY DEF PastIsPast
      <4>2. [from |-> "render", of |-> l].of = l
        OBVIOUS
      <4>3. [from |-> "render", of |-> l] \notin past[r]
        BY <1>4, <4>1, <4>2
      <4> QED
        BY <1>5, <3>1, <4>3
    <3>2. CASE q # r
      BY <1>5, <2>1, <3>2 DEF PastIsPast
    <3> QED
      BY <3>1, <3>2
  <2> QED
    BY <1>1, <2>1 DEF PastIsPast
<1>11. ChallengeNotReused'
  BY <1>1, <1>2, <1>5 DEF ChallengeNotReused
<1>12. StoredRendersFit' /\ AnswersAreKept' /\ EvidenceIsFit'
  BY <1>1 DEF StoredRendersFit, AnswersAreKept, EvidenceIsFit, EvidenceScope, RescanOnNewEvidence
<1> QED
  BY <1>6, <1>7, <1>8, <1>9, <1>10, <1>11, <1>12

LEMMA RenderEndsInv == ASSUME IInv, NEW r \in Requests, RenderEnds(r) PROVE IInv'
<1> USE NoneAssumption, Parts DEF IInv, TypeOK, OrNone, request, caches, rows, world
<1> DEFINE u == profile[r].url
           id == [from |-> "render", of |-> r]
<1>1. /\ pc[r] = "rendering" /\ pc' = [pc EXCEPT ![r] = "returning"]
      /\ UNCHANGED <<request, joined, loaded, render, answer, caches, inflight, rows, world>>
  BY DEF RenderEnds
<1>2. /\ u \in Urls /\ loaded[r] \in Contents /\ page[u] \in Contents
      /\ outcome[r] = None /\ render[r] = None /\ answer[r] = None /\ id \in EvidenceIds
  BY <1>1, Makings DEF Progress
<1>3. PICK o \in {Failed} \cup Renders :
        /\ o # Failed => o.id = id /\ o.url = u
        /\ outcome' = [outcome EXCEPT ![r] = o]
  <2> DEFINE got == {[id |-> id, url |-> u, content |-> c] : c \in {loaded[r], page[u]}}
  <2>1. \A c \in {loaded[r], page[u]} : [id |-> id, url |-> u, content |-> c] \in Renders
    BY <1>2, Makings
  <2>2. \A x \in got : x \in Renders /\ x.id = id /\ x.url = u
    BY <2>1
  <2>3. PICK o \in {Failed} \cup got : outcome' = [outcome EXCEPT ![r] = o]
    BY DEF RenderEnds
  <2> HIDE DEF got, id
  <2> QED
    BY <2>2, <2>3
<1> HIDE DEF u, id
<1>4. o # None
  BY <1>3
<1>5. /\ outcome'[r] = o /\ \A q \in Requests : q # r => outcome'[q] = outcome[q]
      /\ pc'[r] = "returning" /\ \A q \in Requests : q # r => pc'[q] = pc[q]
  BY <1>1, <1>3
<1>6. TypeOK'
  <2>1. outcome' \in [Requests -> OrNone(Renders \cup {Failed})]
    BY <1>3
  <2> QED
    BY <1>1, <2>1 DEF PCs
<1>7. Progress'
  BY <1>1, <1>2, <1>3, <1>4 DEF Progress
<1>8. CallsLed'
  BY <1>1, <1>5 DEF CallsLed
<1>9. CallsFit'
  <2>1. \A q \in Requests : pc[q] # "idle" => pc'[q] # "idle"
    BY <1>5
  <2>2. \A q \in Requests : outcome'[q] \in Renders =>
          outcome'[q].url = profile[q].url /\ outcome'[q].id = [from |-> "render", of |-> q]
    BY <1>3, <1>5 DEF CallsFit, u, id
  <2> QED
    BY <1>1, <2>1, <2>2 DEF CallsFit
<1>10. PastIsPast'
  BY <1>1, <1>2, <1>4, <1>5, PastKept
<1>11. EvidenceIsFit' /\ ChallengeNotReused' /\ StoredRendersFit' /\ AnswersAreKept'
  BY <1>1 DEF EvidenceIsFit, EvidenceScope, RescanOnNewEvidence, ChallengeNotReused,
              StoredRendersFit, AnswersAreKept
<1> QED
  BY <1>6, <1>7, <1>8, <1>9, <1>10, <1>11

\* A leader that returns, and a follower that is served, have a render of their key whose
\* call was not over when they arrived.
LEMMA ServedInv ==
  ASSUME IInv, NEW r \in Requests, NEW l \in {r, joined[r]}, NEW o \in {Failed} \cup Renders,
         pc[r] \in {"returning", "waiting"}, l \in Requests, o = outcome[l],
         Key[profile[l].url] = Key[profile[r].url],
         [from |-> "render", of |-> l] \notin past[r],
         inflight' \in [Keys -> OrNone(Requests)],
         \A k \in Keys : inflight'[k] # None => inflight'[k] = inflight[k] /\ inflight[k] # r,
         render' = [render EXCEPT ![r] = IF o = Failed THEN None ELSE o],
         pc' = [pc EXCEPT ![r] = IF o = Failed THEN "deciding" ELSE "storing"],
         UNCHANGED <<request, joined, loaded, outcome, answer, caches, rows, world>>
  PROVE  IInv'
<1> USE NoneAssumption, Parts DEF IInv, TypeOK, OrNone, request, caches, rows, world
<1>1. profile[r] \in Profiles /\ render[r] = None /\ answer[r] = None
  BY DEF Progress
<1>2. o # Failed => o \in Renders /\ o # None /\ Key[o.url] = Key[profile[r].url]
                    /\ o.id = [from |-> "render", of |-> l]
  BY DEF CallsFit
<1>3. /\ render'[r] = (IF o = Failed THEN None ELSE o)
      /\ \A q \in Requests : q # r => render'[q] = render[q]
      /\ pc'[r] = (IF o = Failed THEN "deciding" ELSE "storing")
      /\ \A q \in Requests : q # r => pc'[q] = pc[q]
  OBVIOUS
<1>4. TypeOK'
  <2>1. render' \in [Requests -> OrNone(Renders)]
    BY <1>2
  <2>2. pc' \in [Requests -> PCs]
    BY DEF PCs
  <2> QED
    BY <2>1, <2>2
<1>5. Progress'
  <2> SUFFICES ASSUME NEW q \in Requests
               PROVE  /\ pc'[q] = "idle" => profile[q] = None /\ joined[q] = None
                      /\ pc'[q] # "idle" => profile[q] \in Profiles
                      /\ pc'[q] \in {"idle", "lookup", "tier2", "rendering", "waiting"}
                           => outcome[q] = None
                      /\ pc'[q] \in {"idle", "lookup", "tier2", "rendering", "returning", "waiting"}
                           => render'[q] = None
                      /\ pc'[q] = "rendering" => loaded[q] # None
                      /\ pc'[q] = "returning" => outcome[q] # None
                      /\ pc'[q] \in {"answering", "done"} <=> answer[q] # None
                      /\ pc'[q] = "answering" => answer[q].by = q
                      /\ pc'[q] = "waiting" => joined[q] # None
                      /\ pc'[q] = "storing" =>
                           render'[q] # None /\ Key[render'[q].url] = Key[profile[q].url]
    BY DEF Progress
  <2>1. CASE q = r
    BY <1>1, <1>2, <1>3, <2>1
  <2>2. CASE q # r
    BY <1>3, <2>2 DEF Progress
  <2> QED
    BY <2>1, <2>2
<1>6. CallsLed'
  BY <1>3 DEF CallsLed
<1>7. CallsFit'
  <2>1. \A q \in Requests : pc[q] # "idle" => pc'[q] # "idle"
    BY <1>3
  <2> QED
    BY <2>1 DEF CallsFit
<1>8. PastIsPast'
  BY <1>3, PastKept
<1>9. EvidenceIsFit'
  <2> SUFFICES ASSUME NEW q \in Requests, render'[q] # None
               PROVE  /\ InScope(render'[q], profile[q].url)
                      /\ profile[q] # None /\ (profile[q].force \/ profile[q].mode = "paranoid")
                           => render'[q].id \notin past[q]
    BY DEF EvidenceIsFit, EvidenceScope, RescanOnNewEvidence
  <2>1. CASE q = r
    BY <1>2, <1>3, <2>1 DEF InScope
  <2>2. CASE q # r
    BY <1>3, <2>2 DEF EvidenceIsFit, EvidenceScope, RescanOnNewEvidence
  <2> QED
    BY <2>1, <2>2
<1>10. ChallengeNotReused'
  BY <1>2, <1>3 DEF ChallengeNotReused
<1>11. StoredRendersFit' /\ AnswersAreKept'
  BY DEF StoredRendersFit, AnswersAreKept
<1> QED
  BY <1>4, <1>5, <1>6, <1>7, <1>8, <1>9, <1>10, <1>11

LEMMA UnregisterInv == ASSUME IInv, NEW r \in Requests, Unregister(r) PROVE IInv'
<1> USE NoneAssumption, Parts DEF IInv, TypeOK, OrNone
<1> DEFINE k == Key[profile[r].url]
           o == outcome[r]
<1>1. /\ pc[r] = "returning"
      /\ inflight' = IF inflight[k] = r THEN [inflight EXCEPT ![k] = None] ELSE inflight
      /\ render' = [render EXCEPT ![r] = IF o = Failed THEN None ELSE o]
      /\ pc' = [pc EXCEPT ![r] = IF o = Failed THEN "deciding" ELSE "storing"]
      /\ UNCHANGED <<request, joined, loaded, outcome, answer, caches, rows, world>>
  BY DEF Unregister
<1>2. profile[r].url \in Urls /\ k \in Keys /\ o \in {Failed} \cup Renders
  BY <1>1 DEF Progress
<1>3. [from |-> "render", of |-> r] \notin past[r]
  BY DEF PastIsPast
<1>4. inflight' \in [Keys -> OrNone(Requests)]
  BY <1>1, <1>2
<1>5. \A j \in Keys : inflight'[j] # None => inflight'[j] = inflight[j] /\ inflight[j] # r
  <2> SUFFICES ASSUME NEW j \in Keys, inflight'[j] # None
               PROVE  inflight'[j] = inflight[j] /\ inflight[j] # r
    OBVIOUS
  <2>1. inflight[j] # None /\ inflight'[j] = inflight[j]
    BY <1>1, <1>2
  <2>2. inflight[j] = r => j = k
    BY <2>1 DEF CallsLed
  <2> QED
    BY <1>1, <1>2, <2>1, <2>2
<1> HIDE DEF k, o
<1> QED
  BY <1>1, <1>2, <1>3, <1>4, <1>5, ServedInv DEF o

LEMMA FollowerServedInv == ASSUME IInv, NEW r \in Requests, FollowerServed(r) PROVE IInv'
<1> USE NoneAssumption, Parts DEF IInv, TypeOK, OrNone
<1> DEFINE l == joined[r]
           o == outcome[l]
<1>1. /\ pc[r] = "waiting" /\ o # None
      /\ render' = [render EXCEPT ![r] = IF o = Failed THEN None ELSE o]
      /\ pc' = [pc EXCEPT ![r] = IF o = Failed THEN "deciding" ELSE "storing"]
      /\ UNCHANGED <<request, joined, loaded, outcome, answer, caches, inflight, rows, world>>
  BY DEF FollowerServed
<1>2. l \in Requests /\ Key[profile[l].url] = Key[profile[r].url] /\ o \in {Failed} \cup Renders
  BY <1>1 DEF Progress, CallsFit
<1>3. [from |-> "render", of |-> l] \notin past[r]
  BY <1>1 DEF Progress, PastIsPast
<1>4. /\ inflight' \in [Keys -> OrNone(Requests)]
      /\ \A j \in Keys : inflight'[j] # None => inflight'[j] = inflight[j] /\ inflight[j] # r
  BY <1>1 DEF CallsLed
<1> HIDE DEF o, l
<1> QED
  BY <1>1, <1>2, <1>3, <1>4, ServedInv DEF o, l

LEMMA StoreRenderInv == ASSUME IInv, NEW r \in Requests, StoreRender(r) PROVE IInv'
<1> USE NoneAssumption, Parts DEF IInv, TypeOK, OrNone, request, rows, world
<1> DEFINE u == profile[r].url
           x == render[r]
<1>1. /\ pc[r] = "storing" /\ pc' = [pc EXCEPT ![r] = "deciding"]
      /\ UNCHANGED <<request, joined, loaded, outcome, render, answer, vcache, inflight, rows, world>>
  BY DEF StoreRender
<1>2. \/ /\ x.content # "challenge" /\ rcache' = [rcache EXCEPT ![u] = x]
         /\ dcache' = dcache \/ (u \notin Uncached /\ dcache' = x)
      \/ UNCHANGED <<rcache, dcache>>
  BY DEF StoreRender, Storable, MayUseDomainRender
<1>3. u \in Urls /\ x \in Renders /\ Key[x.url] = Key[u]
  BY <1>1 DEF Progress
<1> HIDE DEF u, x
<1>4. TypeOK'
  <2>1. rcache' \in [Urls -> OrNone(Renders)]
    BY <1>2, <1>3
  <2>2. dcache' \in OrNone(Renders)
    BY <1>2, <1>3
  <2> QED
    BY <1>1, <2>1, <2>2 DEF PCs
<1>5. Progress'
  BY <1>1 DEF Progress
<1>6. CallsLed' /\ CallsFit'
  BY <1>1 DEF CallsLed, CallsFit
<1>7. StoredRendersFit'
  BY <1>2, <1>3 DEF StoredRendersFit
<1>8. PastIsPast' /\ AnswersAreKept' /\ EvidenceIsFit' /\ ChallengeNotReused'
  BY <1>1 DEF PastIsPast, AnswersAreKept, EvidenceIsFit, EvidenceScope, RescanOnNewEvidence,
              ChallengeNotReused
<1> QED
  BY <1>4, <1>5, <1>6, <1>7, <1>8

\* The verdicts and reasons of the policy engine.
LEMMA JudgeTypes ==
  ASSUME NEW p, NEW f, NEW x, NEW j \in Judge(p, f, x)
  PROVE  j.verdict \in Verdicts /\ j.reason \in Reasons
  BY DEF Judge, Verdicts, Reasons

\* Decide gives an answer of its own, and persists all of it or none.
LEMMA DecideSteps ==
  ASSUME IInv, NEW r \in Requests, Decide(r)
  PROVE  /\ pc[r] = "deciding" /\ pc' = [pc EXCEPT ![r] = "answering"]
         /\ UNCHANGED <<request, joined, loaded, outcome, render, caches, inflight, world>>
         /\ \E a \in Answers : /\ a.by = r /\ answer' = [answer EXCEPT ![r] = a]
                               /\ Persist(r, a) \/ UNCHANGED rows
<1> USE NoneAssumption, Parts DEF IInv, TypeOK, OrNone
<1>1. /\ pc[r] = "deciding" /\ pc' = [pc EXCEPT ![r] = "answering"]
      /\ UNCHANGED <<request, joined, loaded, outcome, render, caches, inflight, world>>
  BY DEF Decide
<1>2. profile[r] \in Profiles
  BY <1>1 DEF Progress
<1> DEFINE id == IF render[r] # None THEN render[r].id ELSE [from |-> "scan", of |-> r]
           made(j) == [verdict |-> j.verdict, reason |-> j.reason, id |-> id,
                       ip |-> profile[r].ip, by |-> r]
<1>3. id \in EvidenceIds
  BY Makings
<1>4. PICK f \in FeedResults : \E j \in Judge(profile[r], f, render[r]) :
        answer' = [answer EXCEPT ![r] = made(j)] /\ (Persist(r, made(j)) \/ UNCHANGED rows)
  BY DEF Decide
<1>5. PICK j \in Judge(profile[r], f, render[r]) :
        answer' = [answer EXCEPT ![r] = made(j)] /\ (Persist(r, made(j)) \/ UNCHANGED rows)
  BY <1>4
<1>6. j.verdict \in Verdicts /\ j.reason \in Reasons
  BY JudgeTypes
<1>7. made(j) \in Answers
  <2> HIDE DEF id
  <2> QED
    BY <1>2, <1>3, <1>6, Makings
<1>8. made(j).by = r
  OBVIOUS
<1> HIDE DEF made
<1> QED
  BY <1>1, <1>5, <1>7, <1>8

LEMMA DecideInv == ASSUME IInv, NEW r \in Requests, Decide(r) PROVE IInv'
<1> USE NoneAssumption, Parts DEF IInv, TypeOK, OrNone, request, caches, world
<1>1. /\ pc[r] = "deciding" /\ pc' = [pc EXCEPT ![r] = "answering"]
      /\ UNCHANGED <<request, joined, loaded, outcome, render, caches, inflight, world>>
  BY DecideSteps
<1>2. PICK a \in Answers : /\ a.by = r /\ answer' = [answer EXCEPT ![r] = a]
                           /\ Persist(r, a) \/ UNCHANGED rows
  BY DecideSteps
<1>3. profile[r] \in Profiles /\ answer[r] = None
  BY <1>1 DEF Progress
<1>4. answer'[r] = a /\ \A q \in Requests : q # r => answer'[q] = answer[q]
  BY <1>2
<1>5. TypeOK'
  <2>1. answer' \in [Requests -> OrNone(Answers)]
    BY <1>2
  <2>2. /\ evidence' \in [EvidenceIds -> OrNone(EvidenceRows)]
        /\ urls' \in [Urls -> OrNone([verdict : Verdicts, id : EvidenceIds])]
        /\ history' \subseteq [by : Requests, url : Urls, id : EvidenceIds]
    <3>1. CASE UNCHANGED rows
      BY <3>1 DEF rows
    <3>2. CASE Persist(r, a)
      <4>1. PICK v \in Urls : evidence' = [evidence EXCEPT ![a.id] = [url |-> v, judged |-> r]]
        BY <1>3, <3>2 DEF Persist
      <4>2. evidence' \in [EvidenceIds -> OrNone(EvidenceRows)]
        BY <4>1, Makings
      <4>3. urls' \in [Urls -> OrNone([verdict : Verdicts, id : EvidenceIds])]
        BY <1>3, <3>2 DEF Persist
      <4>4. history' \subseteq [by : Requests, url : Urls, id : EvidenceIds]
        BY <1>3, <3>2 DEF Persist
      <4> QED
        BY <4>2, <4>3, <4>4
    <3> QED
      BY <1>2, <3>1, <3>2
  <2> QED
    BY <1>1, <2>1, <2>2 DEF PCs
<1>6. Progress'
  BY <1>1, <1>2, <1>3, <1>4 DEF Progress
<1>7. CallsLed' /\ CallsFit'
  BY <1>1 DEF CallsLed, CallsFit
<1>8. AnswersAreKept'
  <2>1. ASSUME NEW q \in Requests, answer'[q] # None
        PROVE  /\ answer'[answer'[q].by] = answer'[q]
               /\ profile[answer'[q].by].url = profile[q].url
               /\ answer'[q].by # q =>
                    /\ MayReadVerdict(profile[q])
                    /\ answer'[q].verdict = "ALLOW" => ~Elevated(profile[answer'[q].by])
    <3>1. CASE q = r
      BY <1>2, <1>4, <3>1
    <3>2. CASE q # r
      <4>1. answer[q].by \in Requests /\ answer[q].by # r
        BY <1>3, <1>4, <2>1, <3>2 DEF AnswersAreKept
      <4> QED
        BY <1>4, <2>1, <3>2, <4>1 DEF AnswersAreKept
    <3> QED
      BY <3>1, <3>2
  <2>2. ASSUME NEW v \in Urls, vcache[v] # None
        PROVE  /\ answer'[vcache[v].by] = vcache[v]
               /\ profile[vcache[v].by].url = v
               /\ vcache[v].verdict = "ALLOW" => ~Elevated(profile[vcache[v].by])
    <3>1. vcache[v].by \in Requests /\ vcache[v].by # r
      BY <1>3, <2>2 DEF AnswersAreKept
    <3> QED
      BY <1>4, <2>2, <3>1 DEF AnswersAreKept
  <2> QED
    BY <1>1, <2>1, <2>2 DEF AnswersAreKept
<1>9. StoredRendersFit' /\ PastIsPast' /\ EvidenceIsFit' /\ ChallengeNotReused'
  BY <1>1 DEF StoredRendersFit, PastIsPast, EvidenceIsFit, EvidenceScope, RescanOnNewEvidence,
              ChallengeNotReused
<1> QED
  BY <1>5, <1>6, <1>7, <1>8, <1>9

LEMMA RespondInv == ASSUME IInv, NEW r \in Requests, Respond(r) PROVE IInv'
<1> USE NoneAssumption, Parts DEF IInv, TypeOK, OrNone, Respond, request, caches, rows, world
<1>1. TypeOK' /\ Progress'
  BY DEF PCs, Progress
<1>2. CallsLed' /\ CallsFit'
  BY DEF CallsLed, CallsFit
<1>3. AnswersAreKept'
  <2>1. profile[r] \in Profiles /\ answer[r] # None /\ answer[r].by = r
    BY DEF Progress
  <2>2. \/ UNCHANGED vcache
        \/ /\ MayWriteVerdict(profile[r], answer[r])
           /\ vcache' = [vcache EXCEPT ![profile[r].url] = answer[r]]
    OBVIOUS
  <2>3. CASE UNCHANGED vcache
    BY <2>3 DEF AnswersAreKept
  <2>4. CASE /\ MayWriteVerdict(profile[r], answer[r])
             /\ vcache' = [vcache EXCEPT ![profile[r].url] = answer[r]]
    BY <2>1, <2>4 DEF AnswersAreKept, MayWriteVerdict
  <2> QED
    BY <2>2, <2>3, <2>4
<1>4. StoredRendersFit' /\ EvidenceIsFit' /\ ChallengeNotReused'
  BY DEF StoredRendersFit, EvidenceIsFit, EvidenceScope, RescanOnNewEvidence, ChallengeNotReused
<1>5. PastIsPast'
  <2>1. \A q \in Requests : pc'[q] # "returning" \/ pc'[q] = pc[q]
    OBVIOUS
  <2> QED
    BY <2>1, PastKept
<1> QED
  BY <1>1, <1>2, <1>3, <1>4, <1>5

-----------------------------------------------------------------------------
\* A context that ends, a page that turns and a stutter change nothing it speaks of.
LEMMA OutsideInv ==
  ASSUME IInv, (\E r \in Requests : ContextEnds(r)) \/ (\E u \in Urls : PageTurns(u)) \/ UNCHANGED vars
  PROVE  IInv'
<1> USE DEF IInv, request, caches, rows, world
<1>1. /\ UNCHANGED <<pc, profile, past, joined, loaded, outcome, render, answer, caches, inflight, rows>>
      /\ dead' \in [Requests -> BOOLEAN]
      /\ page' \in [Urls -> Contents] /\ UNCHANGED listed
  BY DEF ContextEnds, PageTurns, vars, TypeOK, Contents
<1>2. TypeOK' /\ Progress' /\ CallsLed' /\ CallsFit'
  BY <1>1 DEF TypeOK, Progress, CallsLed, CallsFit
<1>3. /\ StoredRendersFit' /\ PastIsPast' /\ AnswersAreKept'
      /\ EvidenceIsFit' /\ ChallengeNotReused'
  BY <1>1 DEF StoredRendersFit, PastIsPast, AnswersAreKept, EvidenceIsFit, EvidenceScope,
              RescanOnNewEvidence, ChallengeNotReused
<1> QED
  BY <1>2, <1>3

LEMMA InitInv == Init => IInv
<1> SUFFICES ASSUME Init PROVE IInv
  OBVIOUS
<1> USE NoneAssumption DEF Init
<1>1. TypeOK
  BY WorldAssumption DEF TypeOK, OrNone, PCs, Contents
<1>2. Progress /\ CallsLed /\ CallsFit /\ StoredRendersFit /\ PastIsPast /\ AnswersAreKept
  BY DEF Progress, CallsLed, CallsFit, StoredRendersFit, PastIsPast, AnswersAreKept
<1>3. EvidenceIsFit /\ ChallengeNotReused
  BY DEF EvidenceIsFit, EvidenceScope, RescanOnNewEvidence, ChallengeNotReused
<1> QED
  BY <1>1, <1>2, <1>3 DEF IInv

\* Every step of a request, of its context and of a page keeps the invariant.
LEMMA StepInv == IInv /\ [Next]_vars => IInv'
<1> SUFFICES ASSUME IInv, [Next]_vars PROVE IInv'
  OBVIOUS
<1>1. ASSUME NEW r \in Requests, Work(r) PROVE IInv'
  BY <1>1, CacheHitInv, QuietInv, RenderHitInv, LeadRenderInv, JoinRenderInv, RenderEndsInv,
     UnregisterInv, FollowerServedInv, StoreRenderInv, DecideInv, RespondInv DEF Work
<1>2. ASSUME NEW r \in Requests, Arrive(r) PROVE IInv'
  BY <1>2, ArriveInv
<1> QED
  BY <1>1, <1>2, OutsideInv DEF Next

LEMMA Invariance == Spec => []IInv
  BY InitInv, StepInv, PTL DEF Spec

\* An answer from the cache crosses no mode the wrong way, and is one that a scan gave.
LEMMA FitAnswers == IInv => CachedAnswersFit
<1> SUFFICES ASSUME IInv PROVE CachedAnswersFit
  OBVIOUS
<1> USE NoneAssumption, Parts DEF IInv
<1>1. ASSUME NEW r \in Requests, Done(r)
      PROVE  answer[r] # None
  BY <1>1 DEF Done, Progress
<1>2. ModesIsolated
  BY <1>1 DEF ModesIsolated, AnswersAreKept, MayReadVerdict
<1>3. CachedAnswerIsAnAnswer
  BY <1>1 DEF CachedAnswerIsAnAnswer, AnswersAreKept
<1> QED
  BY <1>2, <1>3 DEF CachedAnswersFit

\* However requests interleave, what one is told from Cache 1 is the answer a scan of the
\* same URL gave; elevated modes, rescans and sensitive pages get their own.
THEOREM CachedAnswersHold == Spec => []CachedAnswersFit
  BY Invariance, FitAnswers, PTL

\* Evidence is about the page judged, and for a rescan or a paranoid request it was still
\* being collected when the request arrived.
THEOREM EvidenceHolds == Spec => []EvidenceIsFit
<1>1. IInv => EvidenceIsFit
  BY DEF IInv
<1> QED
  BY <1>1, Invariance, PTL

\* A bot-protection page judges only those who waited for that very render.
THEOREM ChallengesHold == Spec => []ChallengeNotReused
<1>1. IInv => ChallengeNotReused
  BY DEF IInv
<1> QED
  BY <1>1, Invariance, PTL

-----------------------------------------------------------------------------
(* The rows *)

RowsAgree == EvidenceIsThere /\ ScanIsRecorded

\* Only Decide writes rows: all three for one answer, or none.
LEMMA WhoWritesRows ==
  ASSUME IInv, [Next]_vars
  PROVE  \/ UNCHANGED rows
         \/ \E r \in Requests, a \in Answers : profile[r] \in Profiles /\ Persist(r, a)
<1>1. ASSUME NEW r \in Requests, Work(r), ~Decide(r) PROVE UNCHANGED rows
  BY <1>1 DEF Work, CacheHit, CacheMiss, SkipTier2, RenderHit, LeadRender, JoinRender, RenderEnds,
              Unregister, FollowerServed, FollowerGivesUp, StoreRender, Respond
<1>2. ASSUME NEW r \in Requests, Decide(r)
      PROVE  \/ UNCHANGED rows
             \/ \E a \in Answers : profile[r] \in Profiles /\ Persist(r, a)
  <2>1. profile[r] \in Profiles
    BY <1>2, DecideSteps DEF IInv, Progress
  <2> QED
    BY <1>2, <2>1, DecideSteps
<1>3. ASSUME NEW r \in Requests, Arrive(r) \/ ContextEnds(r) PROVE UNCHANGED rows
  BY <1>3 DEF Arrive, ContextEnds
<1>4. ASSUME NEW u \in Urls, PageTurns(u) PROVE UNCHANGED rows
  BY <1>4 DEF PageTurns
<1>5. UNCHANGED vars => UNCHANGED rows
  BY DEF vars
<1> QED
  BY <1>1, <1>2, <1>3, <1>4, <1>5 DEF Next

\* Persisting keeps evidence about its page, and all rows in agreement.
LEMMA PersistKeeps ==
  ASSUME TypeOK, NEW r \in Requests, NEW a \in Answers, profile[r] \in Profiles, Persist(r, a)
  PROVE  /\ RowsAgree => RowsAgree'
         /\ \A i \in EvidenceIds :
              evidence[i] # None => evidence'[i] # None /\ evidence'[i].url = evidence[i].url
<1> USE NoneAssumption, Parts DEF TypeOK, OrNone
<1> DEFINE u == profile[r].url
           row == [url |-> IF evidence[a.id] = None THEN u ELSE evidence[a.id].url, judged |-> r]
<1>1. /\ evidence' = [evidence EXCEPT ![a.id] = row]
      /\ urls' = [urls EXCEPT ![u] = [verdict |-> a.verdict, id |-> a.id]]
      /\ history' = history \cup {[by |-> r, url |-> u, id |-> a.id]}
  BY DEF Persist
<1>2. u \in Urls /\ a.id \in EvidenceIds
  OBVIOUS
<1>3. row \in EvidenceRows
  BY Makings
<1>4. evidence[a.id] # None => row.url = evidence[a.id].url
  OBVIOUS
<1> HIDE DEF row
<1>5. /\ evidence'[a.id] = row /\ \A i \in EvidenceIds : i # a.id => evidence'[i] = evidence[i]
      /\ urls'[u].id = a.id /\ \A v \in Urls : v # u => urls'[v] = urls[v]
  BY <1>1, <1>2
<1>6. row # None
  BY <1>3
<1>7. \A i \in EvidenceIds :
        evidence[i] # None => evidence'[i] # None /\ evidence'[i].url = evidence[i].url
  BY <1>4, <1>5, <1>6
<1>8. EvidenceIsThere => EvidenceIsThere'
  BY <1>2, <1>5, <1>6, <1>7 DEF EvidenceIsThere
<1>9. ScanIsRecorded => ScanIsRecorded'
  <2> SUFFICES ASSUME ScanIsRecorded, NEW v \in Urls, urls'[v] # None
               PROVE  \E h \in history' : h.url = v /\ h.id = urls'[v].id
    BY DEF ScanIsRecorded
  <2>1. CASE v = u
    <3> DEFINE h == [by |-> r, url |-> u, id |-> a.id]
    <3>1. h \in history' /\ h.url = u /\ h.id = a.id
      BY <1>1
    <3> HIDE DEF h
    <3> QED
      BY <1>5, <2>1, <3>1
  <2>2. CASE v # u
    BY <1>1, <1>5, <2>2 DEF ScanIsRecorded
  <2> QED
    BY <2>1, <2>2
<1> QED
  BY <1>7, <1>8, <1>9 DEF RowsAgree

\* Persisted rows point at one another, and none is ever turned to another page.
THEOREM RowsAreKept == Spec => RowsHold
<1>1. Init => RowsAgree
  BY DEF Init, RowsAgree, EvidenceIsThere, ScanIsRecorded
<1>2. IInv /\ RowsAgree /\ [Next]_vars => RowsAgree'
  <2> SUFFICES ASSUME IInv, RowsAgree, [Next]_vars PROVE RowsAgree'
    OBVIOUS
  <2>1. CASE UNCHANGED rows
    BY <2>1 DEF rows, RowsAgree, EvidenceIsThere, ScanIsRecorded
  <2>2. ASSUME NEW r \in Requests, NEW a \in Answers, profile[r] \in Profiles, Persist(r, a)
        PROVE  RowsAgree'
    BY <2>2, PersistKeeps DEF IInv
  <2> QED
    BY <2>1, <2>2, WhoWritesRows
<1>3. IInv /\ [Next]_vars =>
        [\A i \in EvidenceIds :
           evidence[i] # None => evidence'[i] # None /\ evidence'[i].url = evidence[i].url]_vars
  <2> SUFFICES ASSUME IInv, [Next]_vars
               PROVE  \A i \in EvidenceIds :
                        evidence[i] # None => evidence'[i] # None /\ evidence'[i].url = evidence[i].url
    OBVIOUS
  <2>1. CASE UNCHANGED rows
    BY <2>1 DEF rows
  <2>2. ASSUME NEW r \in Requests, NEW a \in Answers, profile[r] \in Profiles, Persist(r, a)
        PROVE  \A i \in EvidenceIds :
                 evidence[i] # None => evidence'[i] # None /\ evidence'[i].url = evidence[i].url
    BY <2>2, PersistKeeps DEF IInv
  <2> QED
    BY <2>1, <2>2, WhoWritesRows
<1>4. Spec => [](EvidenceIsThere /\ ScanIsRecorded)
  BY <1>1, <1>2, Invariance, PTL DEF Spec, RowsAgree
<1>5. Spec => EvidenceKeepsItsPage
  BY <1>3, Invariance, PTL DEF Spec, EvidenceKeepsItsPage
<1> QED
  BY <1>4, <1>5 DEF RowsHold
=============================================================================
