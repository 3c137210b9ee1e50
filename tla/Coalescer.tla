----------------------------- MODULE Coalescer -----------------------------
(***************************************************************************)
(* Request coalescing for sandbox renders (verdict-api, coalesce.go) and   *)
(* the two-attempt render it wraps (pipeline.go, callSandboxWithRetry).    *)
(*                                                                         *)
(* A caller is one goroutine serving one request.  Under the mutex it      *)
(* either joins the registered call of its key or registers itself as the  *)
(* leader; a leader renders (one attempt, perhaps a second), broadcasts    *)
(* the outcome and unregisters.  A call is identified with its leader.     *)
(*                                                                         *)
(* Time is counted in units the configuration chooses.  Tick is urgent: it *)
(* waits for goroutines that can run, so an attempt ends by its timeout    *)
(* and a woken follower leaves before the clock moves on.                  *)
(***************************************************************************)
EXTENDS Integers

CONSTANTS
  Callers,       \* requests, each served by one goroutine
  Keys,          \* normalised URLs
  None,          \* "no call"
  CoalesceTTL,   \* coalesceTTL (60s)
  FirstAttempt,  \* timeout of the first sandbox call (45s)
  RetryAttempt,  \* timeout of the second (30s)
  Budgets,       \* deadlines a request may come with (/v1/check 90s, /v1/scan 12s)
  MaxTime        \* bound on the clock

ASSUME NoneAssumption == None \notin Callers
ASSUME TimeAssumption ==
  /\ CoalesceTTL \in Nat \ {0}
  /\ FirstAttempt \in Nat \ {0}
  /\ RetryAttempt \in Nat \ {0}
  /\ Budgets \subseteq Nat \ {0}
  /\ MaxTime \in Nat

VARIABLES
  now,        \* the clock
  pc,         \* where each goroutine is
  key,        \* the key each request asked for
  deadline,   \* when its context ends: the handler's timeout, or the moment
              \* its client goes away
  calls,      \* c.calls: the registered call of each key
  startedAt,  \* when it entered do(): startedAt of the call it leads, if it does
  attemptAt,  \* when its current sandbox attempt began
  first,      \* what the first attempt returned
  outcome,    \* inflightCall.resp/err; the done channel is closed once set
  joined,     \* the call a follower waits on
  reply       \* what do() returned to it

request == <<key, startedAt, joined>>
work == <<attemptAt, first, outcome>>
vars == <<now, pc, deadline, calls, request, work, reply>>

Results == {"full", "partial", "error"}  \* screenshot, none, or an error

\* The program counters:
\*   idle -> waiting -> finished            (follower)
\*   idle -> first [-> second] -> closing -> finished   (leader)
PCs == {"idle", "waiting", "first", "second", "closing", "finished"}

Rendering(c) == pc[c] \in {"first", "second"}

\* ctx.Err() # nil
CtxDone(c) == now >= deadline[c]

\* Faulty variant: an entry is taken for wedged once the first attempt is over.
FreshForAnAttempt(k) == calls[k] # None /\ now - startedAt[calls[k]] < FirstAttempt

\* An entry exists and is younger than coalesceTTL.
Fresh(k) == calls[k] # None /\ now - startedAt[calls[k]] < CoalesceTTL

Init ==
  /\ now = 0
  /\ pc = [c \in Callers |-> "idle"]
  /\ key \in [Callers -> Keys]
  /\ deadline = [c \in Callers |-> 0]
  /\ calls = [k \in Keys |-> None]
  /\ startedAt = [c \in Callers |-> 0]
  /\ attemptAt = [c \in Callers |-> 0]
  /\ first = [c \in Callers |-> "none"]
  /\ outcome = [c \in Callers |-> "none"]
  /\ joined = [c \in Callers |-> None]
  /\ reply = [c \in Callers |-> "none"]

Enter(c) ==
  /\ pc[c] = "idle"
  /\ startedAt' = [startedAt EXCEPT ![c] = now]
  /\ \E b \in Budgets : deadline' = [deadline EXCEPT ![c] = now + b]
  /\ UNCHANGED <<now, key, first, outcome, reply>>

\* do(), lines under the mutex, when a young call is registered.
Join(c) ==
  /\ Enter(c)
  /\ Fresh(key[c])
  /\ joined' = [joined EXCEPT ![c] = calls[key[c]]]
  /\ pc' = [pc EXCEPT ![c] = "waiting"]
  /\ UNCHANGED <<calls, attemptAt>>

\* do() when none is, or only one past its TTL, which is replaced.
Lead(c) ==
  /\ Enter(c)
  /\ ~Fresh(key[c])
  /\ calls' = [calls EXCEPT ![key[c]] = c]
  /\ attemptAt' = [attemptAt EXCEPT ![c] = now]
  /\ pc' = [pc EXCEPT ![c] = "first"]
  /\ UNCHANGED joined

\* fn returned r: assign resp and err, close(done).
Broadcast(c, r) ==
  /\ outcome' = [outcome EXCEPT ![c] = r]
  /\ pc' = [pc EXCEPT ![c] = "closing"]
  /\ UNCHANGED <<now, deadline, calls, request, attemptAt, reply>>

\* The first sandbox attempt ends with r.  A screenshot, or a dead context,
\* ends the call; otherwise it is tried once more.
FirstEnds(c) ==
  /\ pc[c] = "first"
  /\ \E r \in Results :
       /\ first' = [first EXCEPT ![c] = r]
       /\ \/ /\ r = "full" \/ CtxDone(c)
             /\ Broadcast(c, r)
          \/ /\ r # "full" /\ ~CtxDone(c)
             /\ pc' = [pc EXCEPT ![c] = "second"]
             /\ attemptAt' = [attemptAt EXCEPT ![c] = now]
             /\ UNCHANGED <<now, deadline, calls, request, outcome, reply>>

\* Faulty variant: the last answer wins.
CombineLast(r1, r2) == r2

\* What the two attempts together return: a screenshot from the second, else
\* the first attempt's answer if it had one, else the second's.
Combine(r1, r2) ==
  IF r2 = "full" THEN r2 ELSE IF r1 # "error" THEN r1 ELSE r2

\* Faulty variant: retry until there is a screenshot.
SecondEndsOnSuccess(c) ==
  /\ pc[c] = "second"
  /\ \/ Broadcast(c, "full") /\ UNCHANGED first
     \/ /\ attemptAt' = [attemptAt EXCEPT ![c] = now]
        /\ UNCHANGED <<now, pc, deadline, calls, request, first, outcome, reply>>

SecondEnds(c) ==
  /\ pc[c] = "second"
  /\ \E r \in Results : Broadcast(c, Combine(first[c], r))
  /\ UNCHANGED first

\* Faulty variant: the identity check is dropped.
UnregisterAny(c) ==
  /\ pc[c] = "closing"
  /\ calls' = [calls EXCEPT ![key[c]] = None]
  /\ reply' = [reply EXCEPT ![c] = outcome[c]]
  /\ pc' = [pc EXCEPT ![c] = "finished"]
  /\ UNCHANGED <<now, deadline, request, work>>

\* The leader takes the mutex again, removes its own entry only, and returns.
Unregister(c) ==
  /\ pc[c] = "closing"
  /\ calls' = IF calls[key[c]] = c THEN [calls EXCEPT ![key[c]] = None] ELSE calls
  /\ reply' = [reply EXCEPT ![c] = outcome[c]]
  /\ pc' = [pc EXCEPT ![c] = "finished"]
  /\ UNCHANGED <<now, deadline, request, work>>

\* Faulty variant: the result is read without waiting for done.
FollowerServedUnwaited(c) ==
  /\ pc[c] = "waiting"
  /\ reply' = [reply EXCEPT ![c] = outcome[joined[c]]]
  /\ pc' = [pc EXCEPT ![c] = "finished"]
  /\ UNCHANGED <<now, deadline, calls, request, work>>

\* select: <-call.done
FollowerServed(c) ==
  /\ pc[c] = "waiting"
  /\ outcome[joined[c]] # "none"
  /\ reply' = [reply EXCEPT ![c] = outcome[joined[c]]]
  /\ pc' = [pc EXCEPT ![c] = "finished"]
  /\ UNCHANGED <<now, deadline, calls, request, work>>

\* select: <-ctx.Done()
FollowerGivesUp(c) ==
  /\ pc[c] = "waiting"
  /\ CtxDone(c)
  /\ reply' = [reply EXCEPT ![c] = "ctx"]
  /\ pc' = [pc EXCEPT ![c] = "finished"]
  /\ UNCHANGED <<now, deadline, calls, request, work>>

\* The client of c disconnects: r.Context() is cancelled.
Disconnect(c) ==
  /\ pc[c] \notin {"idle", "finished"}
  /\ ~CtxDone(c)
  /\ deadline' = [deadline EXCEPT ![c] = now]
  /\ UNCHANGED <<now, pc, calls, request, work, reply>>

\* Goroutine c has a step it takes before time moves on.
Due(c) ==
  \/ pc[c] = "closing"
  \/ pc[c] = "waiting" /\ (CtxDone(c) \/ outcome[joined[c]] # "none")
  \/ Rendering(c) /\ CtxDone(c)
  \/ pc[c] = "first" /\ now >= attemptAt[c] + FirstAttempt
  \/ pc[c] = "second" /\ now >= attemptAt[c] + RetryAttempt

\* Time is observed only by requests in progress.
Tick ==
  /\ now < MaxTime
  /\ \E c \in Callers : pc[c] \notin {"idle", "finished"}
  /\ \A c \in Callers : ~Due(c)
  /\ now' = now + 1
  /\ UNCHANGED <<pc, deadline, calls, request, work, reply>>

Step(c) ==
  \/ Join(c) \/ Lead(c) \/ FirstEnds(c) \/ SecondEnds(c) \/ Unregister(c)
  \/ FollowerServed(c) \/ FollowerGivesUp(c) \/ Disconnect(c)

Next == Tick \/ \E c \in Callers : Step(c)

Spec == Init /\ [][Next]_vars

-----------------------------------------------------------------------------
\* Every variable holds what the code stores there.
TypeOK ==
  /\ now \in Nat
  /\ pc \in [Callers -> PCs]
  /\ key \in [Callers -> Keys]
  /\ deadline \in [Callers -> Nat]
  /\ calls \in [Keys -> Callers \cup {None}]
  /\ startedAt \in [Callers -> Nat]
  /\ attemptAt \in [Callers -> Nat]
  /\ first \in [Callers -> Results \cup {"none"}]
  /\ outcome \in [Callers -> Results \cup {"none"}]
  /\ joined \in [Callers -> Callers \cup {None}]
  /\ reply \in [Callers -> Results \cup {"none", "ctx"}]

\* Deduplication: two renders of one key never run together unless the older
\* is past coalesceTTL.  Broken by a leader that removes its successor's entry,
\* or by an entry that is dropped while its render still runs.
RendersSpacedByTTL ==
  \A c, d \in Callers :
    /\ c # d /\ key[c] = key[d]
    /\ Rendering(c) /\ Rendering(d)
    => \/ startedAt[d] - startedAt[c] >= CoalesceTTL
       \/ startedAt[c] - startedAt[d] >= CoalesceTTL

\* The load bound the coalescer exists for: since both attempts together are
\* shorter than two TTLs, no key ever has three renders running at once,
\* however many requests arrive and whichever of them are wedged.
NoThreeRenders ==
  \A c, d, e \in Callers :
    (c # d /\ d # e /\ c # e /\ key[c] = key[d] /\ key[d] = key[e])
      => ~(Rendering(c) /\ Rendering(d) /\ Rendering(e))

\* A follower is given its own key's outcome, the same one its leader returns,
\* or its own context's error: never another call's result, never a result
\* read before the leader stored it.
FollowersShareTheOutcome ==
  \A c \in Callers :
    joined[c] # None /\ pc[c] = "finished"
      => /\ key[joined[c]] = key[c]
         /\ \/ reply[c] = "ctx" /\ CtxDone(c)
            \/ reply[c] = outcome[joined[c]] /\ reply[c] # "none"

\* A retry never loses what the first attempt had: when an attempt produced a
\* page, the caller is not told the render failed.
RetryKeepsThePage ==
  \A c \in Callers : outcome[c] = "error" => first[c] = "error"

\* However badly the render is wedged, a caller with a live context waits no
\* longer than the two attempts together.
FollowerWaitBounded ==
  \A c \in Callers :
    pc[c] = "waiting" => now - startedAt[c] <= FirstAttempt + RetryAttempt

\* A call that still renders within its TTL stays registered: nothing but its
\* own leader removes it, and only after the outcome is broadcast.
YoungCallsStayRegistered ==
  [][\A k \in Keys :
       (Fresh(k) /\ outcome[calls[k]] = "none") => calls'[k] = calls[k]]_vars

\* coalesce.go:31 calls coalesceTTL the "maximum time a single inflight entry
\* can block followers".
FollowerBlockedAtMostTTL ==
  \A c \in Callers :
    pc[c] = "waiting" => now - startedAt[c] <= CoalesceTTL
=============================================================================
