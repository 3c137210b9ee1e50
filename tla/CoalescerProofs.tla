-------------------------- MODULE CoalescerProofs --------------------------
(***************************************************************************)
(* What the coalescer guarantees for any number of requests, keys and any  *)
(* timeouts.  The inductive invariant IInv relates the registered call of  *)
(* each key, the renders that run and the calls that followers wait on.    *)
(***************************************************************************)
EXTENDS Coalescer, TLAPS

\* A registered call has its key's leader still in do().
Registered ==
  \A k \in Keys :
    calls[k] # None => /\ key[calls[k]] = k
                       /\ pc[calls[k]] \in {"first", "second", "closing"}

\* A render is within its timeouts.
RenderTimes ==
  \A c \in Callers :
    /\ startedAt[c] <= now
    /\ pc[c] = "first" => /\ attemptAt[c] = startedAt[c]
                          /\ attemptAt[c] <= now
                          /\ now <= attemptAt[c] + FirstAttempt
    /\ pc[c] = "second" => /\ startedAt[c] <= attemptAt[c]
                           /\ attemptAt[c] <= startedAt[c] + FirstAttempt
                           /\ attemptAt[c] <= now
                           /\ now <= attemptAt[c] + RetryAttempt

\* A render younger than the TTL is the registered call of its key.
YoungRendersRegistered ==
  \A c \in Callers :
    Rendering(c) /\ now - startedAt[c] < CoalesceTTL => calls[key[c]] = c

\* The outcome is stored once, by the leader, when the render is over.
OutcomeStored ==
  \A c \in Callers :
    /\ pc[c] \in {"idle", "waiting", "first", "second"} => outcome[c] = "none"
    /\ pc[c] = "closing" => outcome[c] # "none"
    /\ outcome[c] = "error" => first[c] = "error"
    /\ pc[c] = "second" => first[c] \in Results

\* A follower waits on a call of its key that renders or is over.
Followers ==
  \A c \in Callers :
    /\ pc[c] # "finished" => reply[c] = "none"
    /\ pc[c] \notin {"waiting", "finished"} => joined[c] = None
    /\ pc[c] = "waiting" => joined[c] # None /\ now - startedAt[c] <= FirstAttempt + RetryAttempt
    /\ joined[c] # None => /\ key[joined[c]] = key[c]
                           /\ startedAt[joined[c]] <= startedAt[c]
                           /\ Rendering(joined[c]) \/ outcome[joined[c]] # "none"
    /\ joined[c] # None /\ pc[c] = "finished"
         => \/ reply[c] = "ctx" /\ CtxDone(c)
            \/ reply[c] = outcome[joined[c]] /\ reply[c] # "none"

IInv ==
  /\ TypeOK
  /\ Registered
  /\ RenderTimes
  /\ YoungRendersRegistered
  /\ RendersSpacedByTTL
  /\ OutcomeStored
  /\ Followers

USE NoneAssumption, TimeAssumption
USE DEF Results, PCs

\* The types are preserved by every step.
LEMMA TypeStep == TypeOK /\ Followers /\ [Next]_vars => TypeOK'
<1> SUFFICES ASSUME TypeOK, Followers, [Next]_vars PROVE TypeOK'
  OBVIOUS
<1> USE DEF TypeOK
<1>1. CASE Tick
  BY <1>1 DEF Tick, request, work
<1>2. ASSUME NEW c \in Callers, Step(c) PROVE TypeOK'
  <2>1. CASE Join(c)
    BY <2>1 DEF Join, Enter, Fresh
  <2>2. CASE Lead(c)
    BY <2>2 DEF Lead, Enter
  <2>3. CASE FirstEnds(c)
    BY <2>3 DEF FirstEnds, Broadcast, request
  <2>4. CASE SecondEnds(c)
    BY <2>4 DEF SecondEnds, Broadcast, Combine, request
  <2>5. CASE Unregister(c)
    BY <2>5 DEF Unregister, request, work
  <2>6. CASE FollowerServed(c)
    <3>1. joined[c] \in Callers
      BY <2>6 DEF FollowerServed, Followers
    <3>2. QED BY <2>6, <3>1 DEF FollowerServed, request, work
  <2>7. CASE FollowerGivesUp(c)
    BY <2>7 DEF FollowerGivesUp, request, work
  <2>8. CASE Disconnect(c)
    BY <2>8 DEF Disconnect, request, work
  <2>9. QED BY <1>2, <2>1, <2>2, <2>3, <2>4, <2>5, <2>6, <2>7, <2>8 DEF Step
<1>3. CASE UNCHANGED vars
  BY <1>3 DEF vars, request, work
<1>4. QED BY <1>1, <1>2, <1>3 DEF Next

\* A new leader starts only when no young call of its key is registered, so
\* the renders that still run on that key are all past the TTL.
LEMMA LeadStep ==
  ASSUME IInv, NEW c \in Callers, Lead(c) PROVE IInv'
<1> USE DEF IInv, TypeOK
<1>1. TypeOK'
  BY TypeStep DEF Next, Step
<1>2. /\ pc[c] = "idle" /\ key' = key /\ now' = now
      /\ pc' = [pc EXCEPT ![c] = "first"]
      /\ calls' = [calls EXCEPT ![key[c]] = c]
      /\ startedAt' = [startedAt EXCEPT ![c] = now]
      /\ attemptAt' = [attemptAt EXCEPT ![c] = now]
      /\ UNCHANGED <<first, outcome, joined, reply>>
      /\ \A d \in Callers \ {c} : deadline'[d] = deadline[d]
  BY DEF Lead, Enter
<1>3. \A d \in Callers :
        Rendering(d) /\ key[d] = key[c] => now - startedAt[d] >= CoalesceTTL
  BY NoneAssumption DEF Lead, Fresh, YoungRendersRegistered, Rendering
<1>4. \A d \in Callers : d # c => Rendering(d)' = Rendering(d)
  BY <1>2 DEF Rendering
<1>5. Registered'
  BY <1>2 DEF Registered
<1>6. RenderTimes'
  BY <1>2 DEF RenderTimes
<1>7. YoungRendersRegistered'
  BY <1>2, <1>3, <1>4 DEF YoungRendersRegistered, Rendering
<1>8. RendersSpacedByTTL'
  BY <1>2, <1>3, <1>4 DEF RendersSpacedByTTL
<1>9. OutcomeStored'
  BY <1>2 DEF OutcomeStored
<1>10. Followers'
  <2>1. \A d \in Callers : joined[d] # c
    BY <1>2 DEF Followers, OutcomeStored, Rendering
  <2>2. QED BY <1>2, <1>4, <2>1 DEF Followers, CtxDone
<1>11. QED BY <1>1, <1>5, <1>6, <1>7, <1>8, <1>9, <1>10

\* A follower joins a call of its own key that is still in do().
LEMMA JoinStep ==
  ASSUME IInv, NEW c \in Callers, Join(c) PROVE IInv'
<1> USE DEF IInv, TypeOK
<1>1. TypeOK'
  BY TypeStep DEF Next, Step
<1>2. /\ pc[c] = "idle" /\ key' = key /\ now' = now
      /\ pc' = [pc EXCEPT ![c] = "waiting"]
      /\ joined' = [joined EXCEPT ![c] = calls[key[c]]]
      /\ startedAt' = [startedAt EXCEPT ![c] = now]
      /\ UNCHANGED <<calls, attemptAt, first, outcome, reply>>
      /\ \A d \in Callers \ {c} : deadline'[d] = deadline[d]
      /\ calls[key[c]] \in Callers
  BY DEF Join, Enter, Fresh
<1>3. \A d \in Callers : Rendering(d)' = Rendering(d)
  BY <1>2 DEF Rendering
<1>4. \A d \in Callers : Rendering(d) => d # c
  BY <1>2 DEF Rendering
<1>5. Registered'
  BY <1>2 DEF Registered
<1>6. RenderTimes'
  BY <1>2 DEF RenderTimes
<1>7. YoungRendersRegistered'
  BY <1>2, <1>3, <1>4 DEF YoungRendersRegistered
<1>8. RendersSpacedByTTL'
  BY <1>2, <1>3, <1>4 DEF RendersSpacedByTTL
<1>9. OutcomeStored'
  BY <1>2 DEF OutcomeStored
<1>10. Followers'
  <2>1. \A d \in Callers : joined[d] # c
    BY <1>2 DEF Followers, OutcomeStored, Rendering
  <2>2. ASSUME NEW l \in Callers, l = calls[key[c]]
        PROVE /\ key[l] = key[c] /\ l # c /\ startedAt[l] <= now
              /\ Rendering(l) \/ outcome[l] # "none"
    BY <1>2, <2>2, NoneAssumption DEF Registered, OutcomeStored, Rendering, Join, Fresh, RenderTimes
  <2>3. QED BY <1>2, <1>3, <2>1, <2>2 DEF Followers, CtxDone
<1>11. QED BY <1>1, <1>5, <1>6, <1>7, <1>8, <1>9, <1>10

\* The end of an attempt stores an outcome or begins the retry.
LEMMA AttemptStep ==
  ASSUME IInv, NEW c \in Callers, FirstEnds(c) \/ SecondEnds(c) PROVE IInv'
<1> USE DEF IInv, TypeOK
<1>1. TypeOK'
  BY TypeStep DEF Next, Step
<1>2. /\ UNCHANGED <<now, deadline, calls, key, startedAt, joined, reply>>
      /\ \A d \in Callers \ {c} : /\ pc'[d] = pc[d]
                                  /\ outcome'[d] = outcome[d]
                                  /\ attemptAt'[d] = attemptAt[d]
                                  /\ first'[d] = first[d]
  BY DEF FirstEnds, SecondEnds, Broadcast, request
<1>3. \/ /\ pc'[c] = "closing" /\ outcome'[c] \in Results
         /\ outcome'[c] = "error" => first'[c] = "error"
         /\ pc[c] \in {"first", "second"}
      \/ /\ pc[c] = "first" /\ pc'[c] = "second"
         /\ attemptAt'[c] = now /\ outcome'[c] = outcome[c]
         /\ first'[c] \in Results
  <2>1. CASE FirstEnds(c)
    BY <2>1 DEF FirstEnds, Broadcast, request
  <2>2. CASE SecondEnds(c)
    <3>1. pc[c] = "second" /\ first' = first
      BY <2>2 DEF SecondEnds
    <3>2. PICK r \in Results : Broadcast(c, Combine(first[c], r))
      BY <2>2 DEF SecondEnds
    <3>3. first[c] \in Results
      BY <3>1 DEF OutcomeStored
    <3>4. QED BY <3>1, <3>2, <3>3 DEF Broadcast, Combine
  <2>3. QED BY <2>1, <2>2
<1>4. outcome[c] = "none" /\ Rendering(c)
  BY DEF OutcomeStored, FirstEnds, SecondEnds, Rendering
<1>5. \A d \in Callers : Rendering(d)' => Rendering(d)
  BY <1>2, <1>3, <1>4 DEF Rendering
<1>6. Registered'
  BY <1>2, <1>3 DEF Registered
<1>7. RenderTimes'
  BY <1>2, <1>3 DEF RenderTimes
<1>8. YoungRendersRegistered'
  BY <1>2, <1>5 DEF YoungRendersRegistered
<1>9. RendersSpacedByTTL'
  BY <1>2, <1>5 DEF RendersSpacedByTTL
<1>10. OutcomeStored'
  BY <1>2, <1>3, <1>4 DEF OutcomeStored
<1>11. Followers'
  <2>1. \A d \in Callers : Rendering(d) \/ outcome[d] # "none"
                           => (Rendering(d) \/ outcome[d] # "none")'
    BY <1>2, <1>3 DEF Rendering
  <2>2. \A d \in Callers : outcome[d] # "none" => outcome'[d] = outcome[d]
    BY <1>2, <1>4
  <2>3. \A d \in Callers : /\ pc'[d] = "waiting" <=> pc[d] = "waiting"
                           /\ pc'[d] = "finished" <=> pc[d] = "finished"
    BY <1>2, <1>3
  <2>4. QED BY <1>2, <2>1, <2>2, <2>3 DEF Followers, CtxDone
<1>12. QED BY <1>1, <1>6, <1>7, <1>8, <1>9, <1>10, <1>11

\* A caller that leaves do() takes no other call's entry with it.
LEMMA LeaveStep ==
  ASSUME IInv, NEW c \in Callers,
         Unregister(c) \/ FollowerServed(c) \/ FollowerGivesUp(c)
  PROVE  IInv'
<1> USE DEF IInv, TypeOK
<1>1. TypeOK'
  BY TypeStep DEF Next, Step
<1>2. /\ UNCHANGED <<now, deadline, key, startedAt, joined, attemptAt, first, outcome>>
      /\ pc' = [pc EXCEPT ![c] = "finished"]
      /\ \A d \in Callers \ {c} : reply'[d] = reply[d]
      /\ pc[c] \in {"closing", "waiting"}
  BY DEF Unregister, FollowerServed, FollowerGivesUp, request, work
<1>3. \A d \in Callers : Rendering(d)' = Rendering(d) /\ (Rendering(d) => d # c)
  BY <1>2 DEF Rendering
<1>4. \A k \in Keys : /\ calls'[k] \in {calls[k], None}
                      /\ calls'[k] # calls[k] => calls[k] = c
                      /\ calls'[k] # c
  BY NoneAssumption DEF Unregister, FollowerServed, FollowerGivesUp, Registered
<1>5. Registered'
  BY <1>2, <1>4 DEF Registered
<1>6. RenderTimes'
  BY <1>2 DEF RenderTimes
<1>7. YoungRendersRegistered'
  BY <1>2, <1>3, <1>4 DEF YoungRendersRegistered
<1>8. RendersSpacedByTTL'
  BY <1>2, <1>3 DEF RendersSpacedByTTL
<1>9. OutcomeStored'
  BY <1>2 DEF OutcomeStored
<1>10. Followers'
  <2>1. joined[c] # None => \/ reply'[c] = "ctx" /\ CtxDone(c)
                            \/ reply'[c] = outcome[joined[c]] /\ reply'[c] # "none"
    BY DEF Unregister, FollowerServed, FollowerGivesUp, Followers
  <2>2. QED BY <1>2, <1>3, <2>1 DEF Followers, CtxDone
<1>11. QED BY <1>1, <1>5, <1>6, <1>7, <1>8, <1>9, <1>10

\* The clock moves only when nobody is due: attempts are within their
\* timeouts, and followers wait on a call that still renders.
LEMMA TickStep == ASSUME IInv, Tick PROVE IInv'
<1> USE DEF IInv, TypeOK
<1>1. TypeOK'
  BY TypeStep DEF Next
<1>2. /\ now' = now + 1
      /\ UNCHANGED <<pc, deadline, key, calls, startedAt, joined, attemptAt, first,
                     outcome, reply>>
      /\ \A c \in Callers : ~Due(c)
  BY DEF Tick, request, work
<1>3. \A c \in Callers : Rendering(c)' = Rendering(c)
  BY <1>2 DEF Rendering
<1>4. Registered' /\ RendersSpacedByTTL' /\ OutcomeStored'
  BY <1>2, <1>3 DEF Registered, RendersSpacedByTTL, OutcomeStored
<1>5. RenderTimes'
  BY <1>2 DEF RenderTimes, Due, Rendering
<1>6. YoungRendersRegistered'
  BY <1>2, <1>3 DEF YoungRendersRegistered
<1>7. Followers'
  <2>1. ASSUME NEW c \in Callers, pc[c] = "waiting"
        PROVE  now + 1 - startedAt[c] <= FirstAttempt + RetryAttempt
    <3>1. joined[c] \in Callers /\ startedAt[joined[c]] <= startedAt[c]
      BY <2>1 DEF Followers
    <3>2. Rendering(joined[c]) /\ ~Due(joined[c])
      BY <1>2, <2>1, <3>1 DEF Due, Followers
    <3>3. now + 1 - startedAt[joined[c]] <= FirstAttempt + RetryAttempt
      BY <3>1, <3>2 DEF Due, Rendering, RenderTimes
    <3>4. QED BY <3>1, <3>3
  <2>2. \A c \in Callers : CtxDone(c) => CtxDone(c)'
    BY <1>2 DEF CtxDone
  <2>3. QED BY <1>2, <1>3, <2>1, <2>2 DEF Followers
<1>8. QED BY <1>1, <1>4, <1>5, <1>6, <1>7

\* A client going away moves only its own deadline, and only while it is in do().
LEMMA DisconnectStep ==
  ASSUME IInv, NEW c \in Callers, Disconnect(c) PROVE IInv'
<1> USE DEF IInv, TypeOK
<1>1. TypeOK'
  BY TypeStep DEF Next, Step
<1>2. /\ UNCHANGED <<now, pc, key, calls, startedAt, joined, attemptAt, first,
                     outcome, reply>>
      /\ deadline' = [deadline EXCEPT ![c] = now]
  BY DEF Disconnect, request, work
<1>3. \A d \in Callers : CtxDone(d) => CtxDone(d)'
  BY <1>2 DEF CtxDone
<1>4. /\ Registered' /\ RenderTimes' /\ YoungRendersRegistered'
      /\ RendersSpacedByTTL' /\ OutcomeStored'
  BY <1>2 DEF Registered, RenderTimes, YoungRendersRegistered, RendersSpacedByTTL,
              OutcomeStored, Rendering
<1>5. Followers'
  BY <1>2, <1>3 DEF Followers, Rendering
<1>6. QED BY <1>1, <1>4, <1>5

\* The invariant holds of every behaviour of the coalescer.
THEOREM Invariance == Spec => []IInv
<1>1. Init => IInv
  BY DEF Init, IInv, TypeOK, Registered, RenderTimes, YoungRendersRegistered,
         RendersSpacedByTTL, OutcomeStored, Followers, Rendering
<1>2. IInv /\ [Next]_vars => IInv'
  <2> SUFFICES ASSUME IInv, [Next]_vars PROVE IInv'
    OBVIOUS
  <2>1. CASE Tick
    BY <2>1, TickStep
  <2>2. ASSUME NEW c \in Callers, Step(c) PROVE IInv'
    BY <2>2, JoinStep, LeadStep, AttemptStep, LeaveStep, DisconnectStep DEF Step
  <2>3. CASE UNCHANGED vars
    BY <2>3 DEF vars, request, work, IInv, TypeOK, Registered, RenderTimes,
                YoungRendersRegistered, RendersSpacedByTTL, OutcomeStored, Followers,
                Rendering, CtxDone
  <2>4. QED BY <2>1, <2>2, <2>3 DEF Next
<1>3. QED BY <1>1, <1>2, PTL DEF Spec

\* The variables keep their types.
THEOREM TypeCorrectness == Spec => []TypeOK
<1>1. IInv => TypeOK
  BY DEF IInv
<1>2. QED BY <1>1, Invariance, PTL

\* Two renders of one key run together only when the older is past the TTL.
THEOREM Deduplication == Spec => []RendersSpacedByTTL
<1>1. IInv => RendersSpacedByTTL
  BY DEF IInv
<1>2. QED BY <1>1, Invariance, PTL

\* When the two attempts are shorter than two TTLs (75s and 120s in the code),
\* a key never has three renders running.
THEOREM RenderLoadBounded ==
  ASSUME FirstAttempt + RetryAttempt < 2 * CoalesceTTL
  PROVE  Spec => []NoThreeRenders
<1>1. IInv => NoThreeRenders
  <2> SUFFICES ASSUME IInv, NEW c \in Callers, NEW d \in Callers, NEW e \in Callers,
                      c # d, d # e, c # e, key[c] = key[d], key[d] = key[e],
                      Rendering(c), Rendering(d), Rendering(e)
               PROVE  FALSE
    BY DEF NoThreeRenders
  <2>1. \A x \in {c, d, e} : /\ startedAt[x] \in Nat /\ startedAt[x] <= now
                             /\ now <= startedAt[x] + FirstAttempt + RetryAttempt
    BY DEF IInv, TypeOK, RenderTimes, Rendering
  <2>2. \A x, y \in {c, d, e} :
          x # y => \/ startedAt[y] - startedAt[x] >= CoalesceTTL
                   \/ startedAt[x] - startedAt[y] >= CoalesceTTL
    BY DEF IInv, RendersSpacedByTTL
  <2>3. now \in Nat
    BY DEF IInv, TypeOK
  <2>4. QED BY <2>1, <2>2, <2>3
<1>2. QED BY <1>1, Invariance, PTL

\* Followers receive their own call's outcome.
THEOREM SharedOutcome == Spec => []FollowersShareTheOutcome
<1>1. IInv => FollowersShareTheOutcome
  BY DEF IInv, Followers, FollowersShareTheOutcome, TypeOK
<1>2. QED BY <1>1, Invariance, PTL

\* No caller waits on a wedged render beyond the two attempts.
THEOREM WaitBounded == Spec => []FollowerWaitBounded
<1>1. IInv => FollowerWaitBounded
  BY DEF IInv, Followers, FollowerWaitBounded
<1>2. QED BY <1>1, Invariance, PTL

\* A page seen by the first attempt is not reported as a failed render.
THEOREM PageKept == Spec => []RetryKeepsThePage
<1>1. IInv => RetryKeepsThePage
  BY DEF IInv, OutcomeStored, RetryKeepsThePage
<1>2. QED BY <1>1, Invariance, PTL

\* A young call that still renders is never replaced nor removed.
THEOREM YoungCallsKept == Spec => YoungCallsStayRegistered
<1>1. IInv /\ [Next]_vars =>
        [\A k \in Keys :
           (Fresh(k) /\ outcome[calls[k]] = "none") => calls'[k] = calls[k]]_vars
  <2> SUFFICES ASSUME IInv, NEW k \in Keys, Next,
                      Fresh(k), outcome[calls[k]] = "none"
               PROVE  calls'[k] = calls[k]
    OBVIOUS
  <2>1. \A c \in Callers : Lead(c) => calls'[k] = calls[k]
    BY DEF Lead, IInv, TypeOK
  <2>2. \A c \in Callers : Unregister(c) => calls'[k] = calls[k]
    BY DEF Unregister, IInv, TypeOK, OutcomeStored
  <2>3. QED
    BY <2>1, <2>2 DEF Next, Step, Tick, Join, FirstEnds, SecondEnds, Broadcast,
                      FollowerServed, FollowerGivesUp, Disconnect
<1>2. QED BY <1>1, Invariance, PTL DEF Spec, YoungCallsStayRegistered
============================================================================
