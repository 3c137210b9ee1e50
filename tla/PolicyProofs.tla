---------------------------- MODULE PolicyProofs ----------------------------
(***************************************************************************)
(* What PolicyEngine promises of every input, however many facts are seen. *)
(* Apply is a chain of stages; each stage is described once by what it may *)
(* do to the result before it, and the chain is followed from the start.   *)
(***************************************************************************)
EXTENDS PolicyEngine, TLAPS

Verdicts == {"ALLOW", "WARN", "ISOLATE", "BLOCK"}
Results == [verdict : Verdicts, soft : Nat, checks : BOOLEAN, done : BOOLEAN]

-----------------------------------------------------------------------------
\* The chain of stages, one equation each.
LEMMA TrailSteps ==
  ASSUME NEW i
  PROVE  LET t == Trail(i) IN
         /\ Len(t) = 30
         /\ t[1] = Start
         /\ t[2] = Connection(i, t[1])
         /\ t[3] = VendorDNS(i, t[2])
         /\ t[4] = Homoglyph(i, t[3])
         /\ t[5] = ScamStage(i, t[4], "ss_hard", "ss_block", "ss_warn")
         /\ t[6] = ScamStage(i, t[5], "ps_hard", "ps_block", "ps_warn")
         /\ t[7] = ScamStage(i, t[6], "cd_hard", "cd_block", "cd_warn")
         /\ t[8] = Category(i, t[7])
         /\ t[9] = Feeds(i, t[8])
         /\ t[10] = OAuthAndScareware(i, t[9])
         /\ t[11] = Sink(i, t[10])
         /\ t[12] = Replica(i, t[11])
         /\ t[13] = ReplicaBelow(i, t[12])
         /\ t[14] = FailClosed(i, t[13])
         /\ t[15] = OfficialInstall(i, t[14])
         /\ t[16] = ShellCommand(i, t[15])
         /\ t[17] = SuspiciousHost(i, t[16])
         /\ t[18] = FreshDomain(i, t[17])
         /\ t[19] = RawIP(i, t[18])
         /\ t[20] = YARA(i, t[19])
         /\ t[21] = HealthGate(i, t[20])
         /\ t[22] = Clickjack(i, t[21])
         /\ t[23] = SoftRule(i, t[22], "obfuscated_js", 2)
         /\ t[24] = SoftRule(i, t[23], "hidden_iframes", 2)
         /\ t[25] = RiskyDownload(i, t[24])
         /\ t[26] = SoftRule(i, t[25], "hidden_anchors", 2)
         /\ t[27] = SoftRule(i, t[26], "dns_divergence", 1)
         /\ t[28] = SoftMapping(i, t[27])
         /\ t[29] = ParanoidGate(i, t[28])
         /\ t[30] = UltraGate(i, t[29])
BY DEF Trail

-----------------------------------------------------------------------------
(* What a stage may do to a result it reaches *)

\* A stage that only blocks or warns.
Early(r, s) ==
  s = r \/ (~r.done /\ (s = Return(r, "BLOCK") \/ s = Raise(r)))

\* A stage that returns a warning or worse, or counts a soft rule.
Middle(r, s) ==
  \/ s = r
  \/ ~r.done /\ \/ \E v \in {"WARN", "ISOLATE", "BLOCK"} : s = Return(r, v)
                \/ s = Stop(r) \/ s = Set(r, "WARN") \/ s = Fire(r, 2)

\* A stage behind Stage H, which may have isolated: nothing less than that is set.
Late(r, s) ==
  \/ s = r
  \/ ~r.done /\ \/ \E v \in {"ISOLATE", "BLOCK"} : s = Return(r, v)
                \/ \E w \in {1, 2} : s = Fire(r, w)
                \/ s = Raise(r)
                \/ r.verdict = "ALLOW" /\ s = Set(r, "ISOLATE")

\* A result that was not returned has warned at most.
AtMostWarns(r) == r.done \/ r.verdict \in {"ALLOW", "WARN"}

\* Only BLOCK has been returned.
BlocksOrGoesOn(r) == r.done => r.verdict = "BLOCK"

\* A returned result stays, and the verdict is not weakened.
Follows(r, s) ==
  /\ s \in Results
  /\ r.done => s = r
  /\ Severity(r.verdict) <= Severity(s.verdict)

LEMMA Order ==
  /\ Severity("ALLOW") = 0 /\ Severity("WARN") = 1
  /\ Severity("ISOLATE") = 2 /\ Severity("BLOCK") = 3
BY DEF Severity

LEMMA Extremes ==
  \A v \in Verdicts : /\ Severity(v) \in 0..3
                      /\ Severity(v) <= Severity("BLOCK")
                      /\ Severity("ALLOW") <= Severity(v)
BY Order DEF Verdicts

LEMMA Changes ==
  ASSUME NEW r \in Results, NEW v \in Verdicts
  PROVE  /\ Return(r, v) \in Results /\ Return(r, v).done /\ Return(r, v).verdict = v
         /\ Set(r, v) \in Results /\ Set(r, v).verdict = v /\ Set(r, v).done = r.done
         /\ Stop(r) \in Results /\ Stop(r).done /\ Stop(r).verdict = r.verdict
<1>1. Return(r, v) \in Results /\ Return(r, v).done /\ Return(r, v).verdict = v
  BY DEF Results, Return
<1>2. Set(r, v) \in Results /\ Set(r, v).verdict = v /\ Set(r, v).done = r.done
  BY DEF Results, Set
<1>3. Stop(r) \in Results /\ Stop(r).done /\ Stop(r).verdict = r.verdict
  BY DEF Results, Stop
<1>. QED
  BY <1>1, <1>2, <1>3

LEMMA Firing ==
  ASSUME NEW r \in Results, NEW w \in Nat
  PROVE  /\ Fire(r, w) \in Results
         /\ Fire(r, w).verdict = r.verdict
         /\ Fire(r, w).done = r.done
BY DEF Results, Fire

LEMMA Raising ==
  ASSUME NEW r \in Results
  PROVE  /\ Raise(r) \in Results /\ Raise(r).done = r.done
         /\ Raise(r).verdict # "ALLOW"
         /\ r.verdict # "ALLOW" => Raise(r).verdict = r.verdict
         /\ r.verdict = "ALLOW" => Raise(r).verdict = "WARN"
BY Changes DEF Raise, Verdicts

LEMMA EarlyFollows ==
  ASSUME NEW r \in Results, AtMostWarns(r), BlocksOrGoesOn(r), NEW s, Early(r, s)
  PROVE  Follows(r, s) /\ AtMostWarns(s) /\ BlocksOrGoesOn(s)
<1>1. CASE s = r
  BY <1>1, Extremes DEF Follows, Results
<1>2. CASE ~r.done /\ s = Return(r, "BLOCK")
  BY <1>2, Changes, Extremes DEF Follows, AtMostWarns, BlocksOrGoesOn, Verdicts, Results
<1>3. CASE ~r.done /\ s = Raise(r)
  BY <1>3, Raising, Order DEF Follows, AtMostWarns, BlocksOrGoesOn
<1>. QED
  BY <1>1, <1>2, <1>3 DEF Early

LEMMA MiddleFollows ==
  ASSUME NEW r \in Results, AtMostWarns(r), NEW s, Middle(r, s)
  PROVE  Follows(r, s) /\ AtMostWarns(s)
<1>1. CASE s = r
  BY <1>1, Extremes DEF Follows, Results
<1>2. ASSUME NEW v \in {"WARN", "ISOLATE", "BLOCK"}, ~r.done, s = Return(r, v)
      PROVE  Follows(r, s) /\ AtMostWarns(s)
  BY <1>2, Changes, Order DEF Follows, AtMostWarns, Verdicts
<1>3. CASE ~r.done /\ s = Stop(r)
  BY <1>3, Changes, Order DEF Follows, AtMostWarns, Verdicts
<1>4. CASE ~r.done /\ s = Set(r, "WARN")
  BY <1>4, Changes, Order DEF Follows, AtMostWarns, Verdicts
<1>5. CASE ~r.done /\ s = Fire(r, 2)
  <2>1. s \in Results /\ s.verdict = r.verdict /\ s.done = r.done
    BY <1>5, Firing
  <2>2. Severity(r.verdict) \in Int
    BY Extremes DEF Results
  <2>. QED
    BY <1>5, <2>1, <2>2 DEF Follows, AtMostWarns
<1>. QED
  BY <1>1, <1>2, <1>3, <1>4, <1>5 DEF Middle

LEMMA LateFollows ==
  ASSUME NEW r \in Results, NEW s, Late(r, s), r.done \/ r.verdict # "BLOCK"
  PROVE  Follows(r, s) /\ (s.done \/ s.verdict # "BLOCK")
<1>0. r.verdict \in Verdicts
  BY DEF Results
<1>1. CASE s = r
  BY <1>1, Extremes DEF Follows, Results
<1>2. ASSUME NEW v \in {"ISOLATE", "BLOCK"}, ~r.done, s = Return(r, v)
      PROVE  Follows(r, s) /\ s.done
  BY <1>0, <1>2, Changes, Order DEF Follows, Verdicts
<1>3. ASSUME NEW w \in {1, 2}, ~r.done, s = Fire(r, w)
      PROVE  Follows(r, s) /\ s.verdict # "BLOCK"
  <2>1. s \in Results /\ s.verdict = r.verdict
    BY <1>3, Firing
  <2>2. Severity(r.verdict) \in Int
    BY <1>0, Extremes
  <2>. QED
    BY <1>3, <2>1, <2>2 DEF Follows
<1>4. CASE ~r.done /\ s = Raise(r)
  BY <1>0, <1>4, Raising, Order DEF Follows, Verdicts
<1>5. CASE ~r.done /\ r.verdict = "ALLOW" /\ s = Set(r, "ISOLATE")
  BY <1>5, Changes, Order DEF Follows, Verdicts
<1>. QED
  BY <1>1, <1>2, <1>3, <1>4, <1>5 DEF Late

-----------------------------------------------------------------------------
(* Which stage is which *)

LEMMA ConnectionStage ==
  ASSUME NEW i, NEW r, ~r.done
  PROVE  Early(r, Connection(i, r))
BY DEF Connection, Early

LEMMA EarlyStages ==
  ASSUME NEW i, NEW r
  PROVE  /\ Early(r, VendorDNS(i, r))
         /\ Early(r, Homoglyph(i, r))
         /\ \A hard, block, warn : Early(r, ScamStage(i, r, hard, block, warn))
         /\ Early(r, Category(i, r))
         /\ Early(r, OAuthAndScareware(i, r))
         /\ Early(r, Sink(i, r))
<1>1. Early(r, VendorDNS(i, r))
  BY DEF VendorDNS, Reached, Early
<1>2. Early(r, Homoglyph(i, r))
  BY DEF Homoglyph, Reached, Early
<1>3. ASSUME NEW hard, NEW block, NEW warn
      PROVE  Early(r, ScamStage(i, r, hard, block, warn))
  BY DEF ScamStage, Reached, Early
<1>4. Early(r, Category(i, r))
  BY DEF Category, Reached, Early
<1>5. Early(r, OAuthAndScareware(i, r))
  BY DEF OAuthAndScareware, Reached, Early
<1>6. Early(r, Sink(i, r))
  BY DEF Sink, Reached, Early
<1>. QED
  BY <1>1, <1>2, <1>3, <1>4, <1>5, <1>6

\* A single medium row sets WARN where Raise would: no more than that was reached.
LEMMA FeedsStage ==
  ASSUME NEW i, NEW r \in Results, AtMostWarns(r)
  PROVE  Early(r, Feeds(i, r))
<1>1. CASE Feeds(i, r) = r \/ (~r.done /\ Feeds(i, r) = Return(r, "BLOCK"))
  BY <1>1 DEF Early
<1>2. CASE ~r.done /\ Feeds(i, r) = Set(r, "WARN")
  <2>1. r.verdict = "ALLOW" => Set(r, "WARN") = Raise(r)
    BY DEF Raise
  <2>2. r.verdict = "WARN" => Set(r, "WARN") = r
    BY DEF Set, Results
  <2>. QED
    BY <1>2, <2>1, <2>2 DEF Early, AtMostWarns
<1>. QED
  BY <1>1, <1>2 DEF Feeds, Reached

LEMMA MiddleStages ==
  ASSUME NEW i, NEW r
  PROVE  /\ Middle(r, Replica(i, r))
         /\ Middle(r, ReplicaBelow(i, r))
         /\ Middle(r, FailClosed(i, r))
         /\ Middle(r, ShellCommand(i, r))
         /\ Middle(r, SuspiciousHost(i, r))
         /\ Middle(r, FreshDomain(i, r))
         /\ Middle(r, RawIP(i, r))
         /\ Middle(r, YARA(i, r))
<1>1. Middle(r, Replica(i, r))
  BY DEF Replica, Reached, Middle
<1>2. Middle(r, FailClosed(i, r))
  BY DEF FailClosed, Reached, Middle
<1>3. Middle(r, ReplicaBelow(i, r))
  BY DEF ReplicaBelow, Reached, Middle
<1>4. Middle(r, ShellCommand(i, r))
  BY DEF ShellCommand, Reached, Middle
<1>5. Middle(r, SuspiciousHost(i, r))
  BY DEF SuspiciousHost, Reached, Middle
<1>6. Middle(r, FreshDomain(i, r)) /\ Middle(r, RawIP(i, r)) /\ Middle(r, YARA(i, r))
  BY DEF FreshDomain, RawIP, YARA, Reached, Middle
<1>. QED
  BY <1>1, <1>2, <1>3, <1>4, <1>5, <1>6

\* Stage H isolates only what was not rendered, and the overlay rule behind it needs
\* a render: it never replaces ISOLATE by WARN.
LEMMA HealthAndOverlay ==
  ASSUME NEW i, Consistent(i), NEW r \in Results, AtMostWarns(r)
  PROVE  LET h == HealthGate(i, r)
             c == Clickjack(i, h)
         IN  /\ Follows(r, h) /\ Follows(h, c)
             /\ c.done \/ c.verdict # "BLOCK"
<1>. DEFINE h == HealthGate(i, r)
            c == Clickjack(i, h)
<1>1. h = r \/ (~r.done /\ h = Set(r, "ISOLATE") /\ ~i.rendered)
  BY DEF HealthGate, Reached
<1>2. CASE h = r
  <2>1. Middle(r, c) \/ (~r.done /\ c = Return(r, "ISOLATE"))
    BY <1>2 DEF Clickjack, Reached, Middle
  <2>2. Middle(r, c)
    BY <2>1 DEF Middle
  <2>3. Follows(r, c) /\ AtMostWarns(c)
    BY <2>2, MiddleFollows
  <2>4. Follows(r, r)
    BY Extremes DEF Follows, Results
  <2>. QED
    BY <1>2, <2>3, <2>4 DEF AtMostWarns
<1>3. CASE ~r.done /\ h = Set(r, "ISOLATE") /\ ~i.rendered
  <2>1. Follows(r, h) /\ h.verdict = "ISOLATE"
    BY <1>3, Changes, Order DEF Follows, AtMostWarns, Verdicts
  <2>2. ~Sees(i, "clickjack")
    BY <1>3 DEF Consistent, Sees, RenderFacts
  <2>3. c = h
    BY <2>2 DEF Clickjack, Reached
  <2>4. Follows(h, h)
    BY <2>1, Order DEF Follows
  <2>. QED
    BY <2>1, <2>3, <2>4
<1>. QED
  BY <1>1, <1>2, <1>3

LEMMA LateStages ==
  ASSUME NEW i, NEW r \in Results
  PROVE  /\ \A f : Late(r, SoftRule(i, r, f, 2)) /\ Late(r, SoftRule(i, r, f, 1))
         /\ Late(r, RiskyDownload(i, r))
         /\ Late(r, SoftMapping(i, r))
         /\ Late(r, ParanoidGate(i, r))
<1>1. ASSUME NEW f PROVE Late(r, SoftRule(i, r, f, 2)) /\ Late(r, SoftRule(i, r, f, 1))
  BY DEF SoftRule, Reached, Late
<1>2. Late(r, RiskyDownload(i, r))
  BY DEF RiskyDownload, Reached, Late
<1>3. Late(r, SoftMapping(i, r))
  BY DEF SoftMapping, Reached, Late
<1>4. Late(r, ParanoidGate(i, r))
  BY DEF ParanoidGate, Reached, Late
<1>. QED
  BY <1>1, <1>2, <1>3, <1>4

LEMMA UltraStage ==
  ASSUME NEW i, NEW r \in Results
  PROVE  Follows(r, UltraGate(i, r))
<1>1. CASE r.done
  BY <1>1, Extremes DEF UltraGate, Reached, Follows, Results
<1>2. CASE ~r.done
  <2>. DEFINE s == UltraGate(i, r)
  <2>1. s = [r EXCEPT !.checks = TRUE,
                      !.verdict = IF i.mode = "ultra" /\ @ = "ALLOW" /\ ~Cleared(i)
                                  THEN "ISOLATE" ELSE @]
    BY <1>2 DEF UltraGate, Reached
  <2>2. s \in Results
    BY <2>1 DEF Results, Verdicts
  <2>3. s.verdict = r.verdict \/ (r.verdict = "ALLOW" /\ s.verdict = "ISOLATE")
    BY <2>1 DEF Results
  <2>4. Severity(r.verdict) \in Int
    BY Extremes DEF Results
  <2>. QED
    BY <1>2, <2>2, <2>3, <2>4, Order DEF Follows
<1>. QED
  BY <1>1, <1>2

LEMMA OfficialStage ==
  ASSUME NEW i, NEW r \in Results, AtMostWarns(r)
  PROVE  LET s == OfficialInstall(i, r) IN
         /\ s \in Results /\ AtMostWarns(s) /\ (r.done => s = r)
         /\ Follows(r, s) \/ Sees(i, "official_install")
<1>. DEFINE s == OfficialInstall(i, r)
<1>1. Follows(r, r)
  BY Extremes DEF Follows, Results
<1>2. ASSUME ~r.done, Sees(i, "official_install"), NEW v \in {"WARN", "ALLOW"}, s = Return(r, v)
      PROVE  s \in Results /\ AtMostWarns(s)
  <2>1. Return(r, v) \in Results /\ Return(r, v).done
    BY Changes DEF Verdicts
  <2>. QED
    BY <1>2, <2>1 DEF AtMostWarns
<1>3. \/ s = r
      \/ /\ ~r.done /\ Sees(i, "official_install")
         /\ s = Return(r, "WARN") \/ s = Return(r, "ALLOW")
  BY DEF OfficialInstall, Reached
<1>. HIDE DEF s
<1>4. ASSUME ~r.done, Sees(i, "official_install"),
             s = Return(r, "WARN") \/ s = Return(r, "ALLOW")
      PROVE  s \in Results /\ AtMostWarns(s)
  BY <1>2, <1>4
<1>5. s \in Results /\ AtMostWarns(s) /\ (r.done => s = r)
  BY <1>3, <1>4
<1>6. Follows(r, s) \/ Sees(i, "official_install")
  BY <1>1, <1>3
<1>. QED
  BY <1>5, <1>6 DEF s

-----------------------------------------------------------------------------
(* The chain *)

\* Up to stage D: Apply goes on or has returned BLOCK.
LEMMA FrontChain ==
  ASSUME NEW i
  PROVE  LET t == Trail(i) IN
         /\ \A n \in 1..11 : t[n] \in Results /\ AtMostWarns(t[n]) /\ BlocksOrGoesOn(t[n])
         /\ \A n \in 2..11 : Follows(t[n - 1], t[n])
<1>. DEFINE t == Trail(i)
            Good(r) == r \in Results /\ AtMostWarns(r) /\ BlocksOrGoesOn(r)
<1>1. /\ t[1] = Start
      /\ t[2] = Connection(i, t[1])
      /\ t[3] = VendorDNS(i, t[2])
      /\ t[4] = Homoglyph(i, t[3])
      /\ t[5] = ScamStage(i, t[4], "ss_hard", "ss_block", "ss_warn")
      /\ t[6] = ScamStage(i, t[5], "ps_hard", "ps_block", "ps_warn")
      /\ t[7] = ScamStage(i, t[6], "cd_hard", "cd_block", "cd_warn")
      /\ t[8] = Category(i, t[7])
      /\ t[9] = Feeds(i, t[8])
      /\ t[10] = OAuthAndScareware(i, t[9])
      /\ t[11] = Sink(i, t[10])
  BY TrailSteps
<1>. HIDE DEF t
<1>2. ASSUME NEW r, NEW s, Good(r), Early(r, s)
      PROVE  Good(s) /\ Follows(r, s)
  BY <1>2, EarlyFollows DEF Follows
<1>3. Good(t[1]) /\ ~t[1].done
  BY <1>1 DEF Start, Results, Verdicts, AtMostWarns, BlocksOrGoesOn
<1>4. ASSUME NEW r, Good(r) PROVE Early(r, Feeds(i, r))
  BY <1>4, FeedsStage
<1>. HIDE DEF Good
<1>5. Good(t[2]) /\ Follows(t[1], t[2])
  BY <1>1, <1>2, <1>3, ConnectionStage
<1>6. Early(t[2], t[3]) /\ Early(t[3], t[4])
  BY <1>1, EarlyStages
<1>7. Early(t[4], t[5]) /\ Early(t[5], t[6]) /\ Early(t[6], t[7])
  BY <1>1, EarlyStages
<1>8. Early(t[7], t[8]) /\ Early(t[9], t[10]) /\ Early(t[10], t[11])
  BY <1>1, EarlyStages
<1>9. /\ Good(t[3]) /\ Follows(t[2], t[3]) /\ Good(t[4]) /\ Follows(t[3], t[4])
      /\ Good(t[5]) /\ Follows(t[4], t[5]) /\ Good(t[6]) /\ Follows(t[5], t[6])
      /\ Good(t[7]) /\ Follows(t[6], t[7]) /\ Good(t[8]) /\ Follows(t[7], t[8])
  BY <1>2, <1>5, <1>6, <1>7, <1>8
<1>10. Good(t[9]) /\ Follows(t[8], t[9])
  BY <1>1, <1>2, <1>4, <1>9
<1>11. Good(t[10]) /\ Follows(t[9], t[10]) /\ Good(t[11]) /\ Follows(t[10], t[11])
  BY <1>2, <1>8, <1>10
<1>12. \A n \in 1..11 : Good(t[n])
  BY <1>3, <1>5, <1>9, <1>10, <1>11
<1>13. \A n \in 2..11 : Follows(t[n - 1], t[n])
  BY <1>5, <1>9, <1>10, <1>11
<1>. QED
  BY <1>12, <1>13 DEF t, Good

\* From the visual match to YARA: nothing but a returned result is over WARN.
LEMMA MiddleChain ==
  ASSUME NEW i
  PROVE  LET t == Trail(i) IN
         /\ \A n \in 11..20 : t[n] \in Results /\ AtMostWarns(t[n])
         /\ \A n \in 12..20 : \/ Follows(t[n - 1], t[n])
                             \/ Sees(i, "official_install")
         /\ \A n \in 12..20 : t[n - 1].done => t[n] = t[n - 1]
         /\ Follows(t[11], t[12]) /\ Follows(t[12], t[13]) /\ Follows(t[13], t[14])
<1>. DEFINE t == Trail(i)
            Good(r) == r \in Results /\ AtMostWarns(r)
<1>1. /\ t[12] = Replica(i, t[11])
      /\ t[13] = ReplicaBelow(i, t[12])
      /\ t[14] = FailClosed(i, t[13])
      /\ t[15] = OfficialInstall(i, t[14])
      /\ t[16] = ShellCommand(i, t[15])
      /\ t[17] = SuspiciousHost(i, t[16])
      /\ t[18] = FreshDomain(i, t[17])
      /\ t[19] = RawIP(i, t[18])
      /\ t[20] = YARA(i, t[19])
  BY TrailSteps
<1>2. Good(t[11])
  <2>1. 11 \in 1..11
    OBVIOUS
  <2>. QED
    BY <2>1, FrontChain
<1>. HIDE DEF t
<1>3. ASSUME NEW r, NEW s, Good(r), Middle(r, s)
      PROVE  Good(s) /\ Follows(r, s) /\ (r.done => s = r)
  BY <1>3, MiddleFollows DEF Follows
<1>4. ASSUME NEW r, Good(r)
      PROVE  LET s == OfficialInstall(i, r) IN
             /\ Good(s) /\ (r.done => s = r)
             /\ Follows(r, s) \/ Sees(i, "official_install")
  BY <1>4, OfficialStage
<1>. HIDE DEF Good
<1>5. Middle(t[11], t[12]) /\ Middle(t[12], t[13]) /\ Middle(t[13], t[14])
  BY <1>1, MiddleStages
<1>6. Middle(t[15], t[16]) /\ Middle(t[16], t[17]) /\ Middle(t[17], t[18])
  BY <1>1, MiddleStages
<1>7. Middle(t[18], t[19]) /\ Middle(t[19], t[20])
  BY <1>1, MiddleStages
<1>8. /\ Good(t[12]) /\ Follows(t[11], t[12]) /\ (t[11].done => t[12] = t[11])
      /\ Good(t[13]) /\ Follows(t[12], t[13]) /\ (t[12].done => t[13] = t[12])
      /\ Good(t[14]) /\ Follows(t[13], t[14]) /\ (t[13].done => t[14] = t[13])
  BY <1>2, <1>3, <1>5
<1>9. /\ Good(t[15]) /\ (t[14].done => t[15] = t[14])
      /\ Follows(t[14], t[15]) \/ Sees(i, "official_install")
  BY <1>1, <1>4, <1>8
<1>10. /\ Good(t[16]) /\ Follows(t[15], t[16]) /\ (t[15].done => t[16] = t[15])
       /\ Good(t[17]) /\ Follows(t[16], t[17]) /\ (t[16].done => t[17] = t[16])
       /\ Good(t[18]) /\ Follows(t[17], t[18]) /\ (t[17].done => t[18] = t[17])
  BY <1>3, <1>6, <1>9
<1>11. /\ Good(t[19]) /\ Follows(t[18], t[19]) /\ (t[18].done => t[19] = t[18])
       /\ Good(t[20]) /\ Follows(t[19], t[20]) /\ (t[19].done => t[20] = t[19])
  BY <1>3, <1>7, <1>10
<1>12. \A n \in 11..20 : Good(t[n])
  BY <1>2, <1>8, <1>9, <1>10, <1>11
<1>13. \A n \in 12..20 : Follows(t[n - 1], t[n]) \/ Sees(i, "official_install")
  BY <1>8, <1>9, <1>10, <1>11
<1>14. \A n \in 12..20 : t[n - 1].done => t[n] = t[n - 1]
  BY <1>8, <1>9, <1>10, <1>11
<1>. QED
  BY <1>8, <1>12, <1>13, <1>14 DEF t, Good

\* From stage H to stage U.
LEMMA LateChain ==
  ASSUME NEW i, Consistent(i)
  PROVE  LET t == Trail(i) IN
         /\ \A n \in 20..30 : t[n] \in Results
         /\ \A n \in 21..30 : Follows(t[n - 1], t[n])
<1>. DEFINE t == Trail(i)
            Good(r) == r \in Results /\ (r.done \/ r.verdict # "BLOCK")
<1>1. /\ t[21] = HealthGate(i, t[20])
      /\ t[22] = Clickjack(i, t[21])
      /\ t[23] = SoftRule(i, t[22], "obfuscated_js", 2)
      /\ t[24] = SoftRule(i, t[23], "hidden_iframes", 2)
      /\ t[25] = RiskyDownload(i, t[24])
      /\ t[26] = SoftRule(i, t[25], "hidden_anchors", 2)
      /\ t[27] = SoftRule(i, t[26], "dns_divergence", 1)
      /\ t[28] = SoftMapping(i, t[27])
      /\ t[29] = ParanoidGate(i, t[28])
      /\ t[30] = UltraGate(i, t[29])
  BY TrailSteps
<1>2. t[20] \in Results /\ AtMostWarns(t[20])
  <2>1. 20 \in 11..20
    OBVIOUS
  <2>. QED
    BY <2>1, MiddleChain
<1>. HIDE DEF t
<1>3. Follows(t[20], t[21]) /\ Follows(t[21], t[22]) /\ Good(t[22])
  BY <1>1, <1>2, HealthAndOverlay DEF Follows
<1>4. ASSUME NEW r, NEW s, Good(r), Late(r, s)
      PROVE  Good(s) /\ Follows(r, s)
  BY <1>4, LateFollows DEF Follows
<1>5. ASSUME NEW r, Good(r)
      PROVE  /\ \A f : Late(r, SoftRule(i, r, f, 2)) /\ Late(r, SoftRule(i, r, f, 1))
             /\ Late(r, RiskyDownload(i, r)) /\ Late(r, SoftMapping(i, r))
             /\ Late(r, ParanoidGate(i, r)) /\ Follows(r, UltraGate(i, r))
  BY <1>5, LateStages, UltraStage
<1>. HIDE DEF Good
<1>6. Good(t[23]) /\ Follows(t[22], t[23])
  BY <1>1, <1>3, <1>4, <1>5
<1>7. Good(t[24]) /\ Follows(t[23], t[24])
  BY <1>1, <1>4, <1>5, <1>6
<1>8. Good(t[25]) /\ Follows(t[24], t[25])
  BY <1>1, <1>4, <1>5, <1>7
<1>9. Good(t[26]) /\ Follows(t[25], t[26])
  BY <1>1, <1>4, <1>5, <1>8
<1>10. Good(t[27]) /\ Follows(t[26], t[27])
  BY <1>1, <1>4, <1>5, <1>9
<1>11. Good(t[28]) /\ Follows(t[27], t[28])
  BY <1>1, <1>4, <1>5, <1>10
<1>12. Good(t[29]) /\ Follows(t[28], t[29])
  BY <1>1, <1>4, <1>5, <1>11
<1>13. Follows(t[29], t[30])
  BY <1>1, <1>5, <1>12
<1>14. \A n \in 21..30 : Follows(t[n - 1], t[n])
  BY <1>3, <1>6, <1>7, <1>8, <1>9, <1>10, <1>11, <1>12, <1>13
<1>15. \A n \in 20..30 : t[n] \in Results
  <2>1. \A n \in 21..30 : t[n] \in Results
    BY <1>14 DEF Follows
  <2>. QED
    BY <1>2, <2>1
<1>. QED
  BY <1>14, <1>15 DEF t
\* A returned result is the one Apply gives.
LEMMA DoneStays ==
  ASSUME NEW i, Consistent(i)
  PROVE  \A n \in 1..30 : Trail(i)[n].done => Trail(i)[30] = Trail(i)[n]
<1>. DEFINE t == Trail(i)
            D(n) == t[n - 1].done => t[n] = t[n - 1]
            P(n) == t[n].done => t[30] = t[n]
<1>1. \A n \in 2..11 : D(n)
  BY FrontChain DEF Follows
<1>2. \A n \in 12..20 : D(n)
  BY MiddleChain
<1>3. \A n \in 21..30 : D(n)
  BY LateChain DEF Follows
<1>. HIDE DEF t
<1>4. \A n \in 20..30 : P(n)
  BY <1>3
<1>5. \A n \in 11..20 : P(n)
  <2>1. P(20)
    BY <1>4
  <2>. QED
    BY <1>2, <2>1
<1>6. \A n \in 1..11 : P(n)
  <2>1. P(11)
    BY <1>5
  <2>. QED
    BY <1>1, <2>1
<1>7. \A n \in 1..30 : P(n)
  BY <1>4, <1>5, <1>6
<1>. QED
  BY <1>7 DEF t

\* From stage H on the verdict only grows.
LEMMA LateGrows ==
  ASSUME NEW i, Consistent(i)
  PROVE  Severity(Trail(i)[21].verdict) <= Severity(Trail(i)[30].verdict)
<1>. DEFINE t == Trail(i)
            S(n) == Severity(t[n].verdict)
<1>1. \A n \in 21..30 : S(n) \in Int
  <2>1. \A n \in 20..30 : t[n] \in Results
    BY LateChain
  <2>. QED
    BY <2>1, Extremes DEF Results
<1>2. \A n \in 22..30 : S(n - 1) <= S(n)
  BY LateChain DEF Follows
<1>. HIDE DEF S
<1>3. S(21) <= S(25)
  <2>1. S(21) <= S(22) /\ S(22) <= S(23) /\ S(23) <= S(24) /\ S(24) <= S(25)
    BY <1>2
  <2>. QED
    BY <1>1, <2>1
<1>4. S(25) <= S(30)
  <2>1. /\ S(25) <= S(26) /\ S(26) <= S(27) /\ S(27) <= S(28)
        /\ S(28) <= S(29) /\ S(29) <= S(30)
    BY <1>2
  <2>. QED
    BY <1>1, <2>1
<1>. QED
  BY <1>1, <1>3, <1>4 DEF S

-----------------------------------------------------------------------------
(* The theorems *)

\* What holds of every input reached.
IInv == in \in Inputs /\ Consistent(in)

LEMMA Invariance == Spec => []IInv
<1>1. Init => IInv
  BY DEF Init, IInv, Inputs
<1>2. IInv /\ [Next]_in => IInv'
  <2>. SUFFICES ASSUME IInv, [Next]_in PROVE IInv'
    OBVIOUS
  <2>1. CASE \E f \in Facts : Worsen(f)
    BY <2>1 DEF Worsen, IInv, Inputs
  <2>2. CASE \E u \in Trusts : EarnTrust(u)
    BY <2>2 DEF EarnTrust, IInv, Inputs
  <2>3. CASE \E m \in Modes : SwitchMode(m)
    <3>1. PICK m \in Modes : in' = [in EXCEPT !.mode = m]
      BY <2>3 DEF SwitchMode
    <3>2. in' \in Inputs
      BY <3>1 DEF IInv, Inputs
    <3>3. Consistent(in')
      <4>1. /\ in'.facts = in.facts /\ in'.class = in.class /\ in'.trust = in.trust
            /\ in'.age = in.age /\ in'.band = in.band /\ in'.identity = in.identity
            /\ in'.named = in.named /\ in'.tier2 = in.tier2
            /\ in'.rendered = in.rendered
        BY <3>1 DEF IInv, Inputs
      <4>. QED
        BY <4>1 DEF IInv, Consistent, Sees, Sensitive, FeedHit, SecurityRow
    <3>. QED
      BY <3>2, <3>3 DEF IInv
  <2>4. CASE UNCHANGED in
    BY <2>4 DEF IInv
  <2>. QED
    BY <2>1, <2>2, <2>3, <2>4 DEF Next
<1>. QED
  BY <1>1, <1>2, PTL DEF Spec

\* Whatever is seen of a page, the inputs go together and Apply gives one of the four
\* verdicts.
THEOREM TypeCorrectness == Spec => []TypeOK
<1>1. IInv => TypeOK
  <2>. SUFFICES ASSUME IInv PROVE Verdict(in) \in Verdicts
    BY DEF IInv, TypeOK, Verdicts
  <2>1. 30 \in 20..30
    OBVIOUS
  <2>2. Trail(in)[30] \in Results
    BY <2>1, LateChain DEF IInv
  <2>. QED
    BY <2>2 DEF Verdict, Apply, Results
<1>. QED
  BY <1>1, Invariance, PTL

\* "We never demote here": no stage of Apply lowers the verdict an earlier one had
\* reached, but for the vendor's own install command.
THEOREM StagesNeverWeaken == Spec => []NoStageWeakens
<1>1. IInv => NoStageWeakens
  <2>. SUFFICES ASSUME IInv, ~Sees(in, "official_install")
                PROVE  \A n \in 2..30 : Severity(Trail(in)[n - 1].verdict)
                                         <= Severity(Trail(in)[n].verdict)
    BY TrailSteps DEF NoStageWeakens
  <2>. DEFINE t == Trail(in)
  <2>1. \A n \in 2..11 : Follows(t[n - 1], t[n])
    BY FrontChain
  <2>2. \A n \in 12..20 : Follows(t[n - 1], t[n])
    BY MiddleChain
  <2>3. \A n \in 21..30 : Follows(t[n - 1], t[n])
    BY LateChain DEF IInv
  <2>. HIDE DEF t
  <2>4. \A n \in 2..30 : Follows(t[n - 1], t[n])
    BY <2>1, <2>2, <2>3
  <2>. QED
    BY <2>4 DEF Follows, t
<1>. QED
  BY <1>1, Invariance, PTL
\* A stage that blocks on what is seen of the page blocks whatever came before it.
LEMMA StageBlocks ==
  ASSUME NEW i, Consistent(i), NEW n \in 2..11,
         ~Trail(i)[n - 1].done => Trail(i)[n] = Return(Trail(i)[n - 1], "BLOCK")
  PROVE  Verdict(i) = "BLOCK"
<1>. DEFINE t == Trail(i)
<1>1. t[n - 1] \in Results /\ BlocksOrGoesOn(t[n - 1]) /\ Follows(t[n - 1], t[n])
  <2>1. n - 1 \in 1..11
    OBVIOUS
  <2>. QED
    BY <2>1, FrontChain
<1>2. t[n].done => t[30] = t[n]
  <2>1. n \in 1..30
    OBVIOUS
  <2>. QED
    BY <2>1, DoneStays
<1>3. ~t[n - 1].done => t[n] = Return(t[n - 1], "BLOCK")
  OBVIOUS
<1>. HIDE DEF t
<1>4. t[n].done /\ t[n].verdict = "BLOCK"
  <2>1. CASE t[n - 1].done
    BY <1>1, <2>1 DEF Follows, BlocksOrGoesOn
  <2>2. CASE ~t[n - 1].done
    BY <1>1, <1>3, <2>2, Changes DEF Verdicts
  <2>. QED
    BY <2>1, <2>2
<1>. QED
  BY <1>2, <1>4 DEF t, Verdict, Apply

\* Evidence that no trust, class, mode or other evidence may hide blocks.
LEMMA HardEvidence ==
  ASSUME NEW i, Consistent(i),
         \/ \E f \in {"private_ip", "ss_hard", "ps_hard", "cd_hard", "feed_high",
                      "feed_two_medium", "oauth_unknown", "scareware"} : Sees(i, f)
         \/ Sees(i, "content") /\ Sees(i, "filter_on")
  PROVE  Verdict(i) = "BLOCK"
<1>. DEFINE t == Trail(i)
            Blocks(n) == ~t[n - 1].done => t[n] = Return(t[n - 1], "BLOCK")
<1>1. /\ t[2] = Connection(i, t[1])
      /\ t[5] = ScamStage(i, t[4], "ss_hard", "ss_block", "ss_warn")
      /\ t[6] = ScamStage(i, t[5], "ps_hard", "ps_block", "ps_warn")
      /\ t[7] = ScamStage(i, t[6], "cd_hard", "cd_block", "cd_warn")
      /\ t[8] = Category(i, t[7])
      /\ t[9] = Feeds(i, t[8])
      /\ t[10] = OAuthAndScareware(i, t[9])
  BY TrailSteps
<1>2. \A n \in 2..11 : Blocks(n) => Verdict(i) = "BLOCK"
  BY StageBlocks
<1>. HIDE DEF t
<1>3. Sees(i, "private_ip") => Blocks(2)
  BY <1>1 DEF Connection
<1>4. /\ Sees(i, "ss_hard") => Blocks(5)
      /\ Sees(i, "ps_hard") => Blocks(6)
      /\ Sees(i, "cd_hard") => Blocks(7)
  BY <1>1 DEF ScamStage, Reached
<1>5. Sees(i, "content") /\ Sees(i, "filter_on") => Blocks(8)
  BY <1>1 DEF Category, Reached
<1>6. Sees(i, "feed_high") \/ Sees(i, "feed_two_medium") => Blocks(9)
  BY <1>1 DEF Feeds, FeedHigh, Reached
<1>7. Sees(i, "oauth_unknown") \/ Sees(i, "scareware") => Blocks(10)
  BY <1>1 DEF OAuthAndScareware, Reached
<1>. HIDE DEF Blocks
<1>8. \/ Blocks(2) \/ Blocks(5) \/ Blocks(6) \/ Blocks(7)
      \/ Blocks(8) \/ Blocks(9) \/ Blocks(10)
  BY <1>3, <1>4, <1>5, <1>6, <1>7
<1>. QED
  BY <1>2, <1>8

\* A private address, a composite scam, a filtered category, a high-confidence feed or
\* two medium ones, an unverified OAuth application and scareware block the page,
\* however trusted it is and whatever else is seen of it.
THEOREM HardEvidenceDecides == Spec => []HardEvidenceBlocks
<1>1. IInv => HardEvidenceBlocks
  <2>. SUFFICES ASSUME IInv,
                       in.facts \cap {"private_ip", "ss_hard", "ps_hard", "cd_hard",
                         "feed_high", "feed_two_medium", "oauth_unknown", "scareware"} # {}
                       \/ {"content", "filter_on"} \subseteq in.facts
                PROVE  Verdict(in) = "BLOCK"
    BY DEF HardEvidenceBlocks
  <2>. QED
    BY HardEvidence DEF IInv, Sees
<1>. QED
  BY <1>1, Invariance, PTL

\* A visual match the URL names, on hosting that is not the brand's, has returned a
\* verdict once the visual stages are through.
LEMMA CorroboratedMatch ==
  ASSUME NEW i, Consistent(i), i.identity \in Identities, i.named, Unbound(i),
         ~Trusted(i), i.band \in {"low", "weak", "high"}
  PROVE  \/ Verdict(i) \in {"ISOLATE", "BLOCK"}
         \/ Verdict(i) = "WARN" /\ ~Sensitive(i)
<1>. DEFINE t == Trail(i)
<1>1. t[12] = Replica(i, t[11]) /\ t[13] = ReplicaBelow(i, t[12])
  BY TrailSteps
<1>2. t[11] \in Results /\ BlocksOrGoesOn(t[11])
  <2>1. 11 \in 1..11
    OBVIOUS
  <2>. QED
    BY <2>1, FrontChain
<1>3. t[13].done => t[30] = t[13]
  <2>1. 13 \in 1..30
    OBVIOUS
  <2>. QED
    BY <2>1, DoneStays
<1>. HIDE DEF t
<1>4. /\ t[13].done
      /\ \/ t[13].verdict \in {"ISOLATE", "BLOCK"}
         \/ t[13].verdict = "WARN" /\ ~Sensitive(i)
  <2>1. CASE t[11].done
    BY <1>1, <1>2, <2>1 DEF Replica, ReplicaBelow, Reached, BlocksOrGoesOn
  <2>2. CASE ~t[11].done /\ i.band = "high"
    <3>1. t[12] = Return(t[11], "BLOCK")
          \/ t[12] = Return(t[11], IF Sensitive(i) THEN "ISOLATE" ELSE "WARN")
      BY <1>1, <2>2 DEF Replica, Reached
    <3>2. /\ t[12].done
          /\ \/ t[12].verdict \in {"ISOLATE", "BLOCK"}
             \/ t[12].verdict = "WARN" /\ ~Sensitive(i)
      BY <1>2, <3>1, Changes DEF Verdicts
    <3>. QED
      BY <1>1, <3>2 DEF ReplicaBelow, Reached
  <2>3. CASE ~t[11].done /\ i.band \in {"low", "weak"}
    <3>1. t[12] = t[11]
      BY <1>1, <2>3 DEF Replica, Reached
    <3>2. t[13] = Return(t[12], "BLOCK")
      BY <1>1, <2>3, <3>1 DEF ReplicaBelow, Reached
    <3>. QED
      BY <1>2, <3>1, <3>2, Changes DEF Verdicts
  <2>. QED
    BY <2>1, <2>2, <2>3
<1>. QED
  BY <1>3, <1>4 DEF t, Verdict, Apply

\* Whatever else is seen of the page, a corroborated match isolates a sensitive page
\* and warns on others at the least.
THEOREM CorroborationActs == Spec => []CorroboratedMatchActs
<1>1. IInv => CorroboratedMatchActs
  <2>. SUFFICES ASSUME IInv, in.named, Unbound(in), ~Trusted(in),
                       in.band \in {"low", "weak", "high"}
                PROVE  Severity(Verdict(in)) >=
                         Severity(IF Sensitive(in) THEN "ISOLATE" ELSE "WARN")
    BY DEF CorroboratedMatchActs
  <2>1. in.identity \in Identities
    BY DEF IInv, Inputs
  <2>2. \/ Verdict(in) \in {"ISOLATE", "BLOCK"}
        \/ Verdict(in) = "WARN" /\ ~Sensitive(in)
    BY <2>1, CorroboratedMatch DEF IInv
  <2>. QED
    BY <2>2, Order
<1>. QED
  BY <1>1, Invariance, PTL
\* Without a render there is no visual match and nothing a render shows.
LEMMA Unseen ==
  ASSUME NEW i, Consistent(i), ~i.rendered
  PROVE  /\ i.band = "none"
         /\ \A f \in RenderFacts : ~Sees(i, f)
BY DEF Consistent, Sees

\* A sensitive page that is not trusted and was not rendered: without a feed row the
\* fail-closed stage returns; with one, nothing returned is an ALLOW.
LEMMA UnseenStages ==
  ASSUME NEW i, Consistent(i), Sensitive(i), ~i.rendered, ~Trusted(i)
  PROVE  LET t == Trail(i) IN
         /\ ~FeedHit(i) => t[14].done /\ t[14].verdict \in {"ISOLATE", "BLOCK"}
         /\ t[20].done => t[20].verdict # "ALLOW"
<1>. DEFINE t == Trail(i)
            Kept(r) == r.done => r.verdict # "ALLOW"
<1>1. /\ t[12] = Replica(i, t[11])
      /\ t[13] = ReplicaBelow(i, t[12])
      /\ t[14] = FailClosed(i, t[13])
      /\ t[15] = OfficialInstall(i, t[14])
      /\ t[16] = ShellCommand(i, t[15])
      /\ t[17] = SuspiciousHost(i, t[16])
      /\ t[18] = FreshDomain(i, t[17])
      /\ t[19] = RawIP(i, t[18])
      /\ t[20] = YARA(i, t[19])
  BY TrailSteps
<1>2. \A n \in 11..20 : t[n] \in Results
  BY MiddleChain
<1>3. BlocksOrGoesOn(t[11])
  <2>1. 11 \in 1..11
    OBVIOUS
  <2>. QED
    BY <2>1, FrontChain
<1>. HIDE DEF t
<1>4. i.band = "none"
  BY Unseen
<1>5. /\ ~Sees(i, "challenge") /\ ~Sees(i, "official_install")
      /\ ~Sees(i, "shell_hard") /\ ~Sees(i, "shell_soft") /\ ~Sees(i, "yara")
  BY Unseen DEF RenderFacts
<1>6. t[13] = t[11]
  <2>1. t[12] = t[11]
    BY <1>1, <1>4 DEF Replica, Reached
  <2>2. t[13] = t[12]
    BY <1>1, <1>4 DEF ReplicaBelow, Reached
  <2>. QED
    BY <2>1, <2>2
<1>7. t[14] = t[13] \/ (~t[13].done /\ \E v \in {"ISOLATE", "BLOCK"} : t[14] = Return(t[13], v))
  BY <1>1, <1>5 DEF FailClosed, Reached
<1>8. Kept(t[14])
  BY <1>2, <1>3, <1>6, <1>7, Changes DEF BlocksOrGoesOn, Verdicts
<1>9. ASSUME ~FeedHit(i)
      PROVE  t[14].done /\ t[14].verdict \in {"ISOLATE", "BLOCK"}
  <2>1. CASE t[13].done
    BY <1>3, <1>6, <1>7, <2>1 DEF BlocksOrGoesOn
  <2>2. CASE ~t[13].done
    <3>1. \E v \in {"ISOLATE", "BLOCK"} : t[14] = Return(t[13], v)
      BY <1>1, <1>5, <1>9, <2>2 DEF FailClosed, Reached
    <3>. QED
      BY <1>2, <3>1, Changes DEF Verdicts
  <2>. QED
    BY <2>1, <2>2
<1>10. t[16] = t[14]
  <2>1. t[15] = t[14]
    BY <1>1, <1>5 DEF OfficialInstall, Reached
  <2>2. t[16] = t[15]
    BY <1>1, <1>5 DEF ShellCommand, Reached
  <2>. QED
    BY <2>1, <2>2
<1>11. Kept(t[17])
  <2>1. t[17] = t[16] \/ \E v \in {"WARN", "ISOLATE", "BLOCK"} : t[17] = Return(t[16], v)
    BY <1>1 DEF SuspiciousHost, Reached
  <2>. QED
    BY <1>2, <1>8, <1>10, <2>1, Changes DEF Verdicts
<1>12. Kept(t[18])
  <2>1. t[18] = t[17] \/ t[18] = Return(t[17], "ISOLATE")
    BY <1>1 DEF FreshDomain, Reached
  <2>. QED
    BY <1>2, <1>11, <2>1, Changes DEF Verdicts
<1>13. Kept(t[19])
  <2>1. t[19] = t[18] \/ t[19] = Return(t[18], "BLOCK")
    BY <1>1 DEF RawIP, Reached
  <2>. QED
    BY <1>2, <1>12, <2>1, Changes DEF Verdicts
<1>14. Kept(t[20])
  BY <1>1, <1>5, <1>13 DEF YARA, Reached
<1>. QED
  BY <1>9, <1>14 DEF t

\* A sensitive page nobody saw is not allowed: it is isolated when no feed lists it,
\* and warned about when its render was asked for and did not come.
THEOREM UnseenIsNotAllowed == Spec => []UnseenSensitiveNotAllowed
<1>1. IInv => UnseenSensitiveNotAllowed
  <2>. SUFFICES ASSUME IInv, Sensitive(in), ~in.rendered, ~Trusted(in)
                PROVE  /\ in.tier2 /\ ~HighlyTrusted(in) => Verdict(in) # "ALLOW"
                       /\ ~FeedHit(in) => Verdict(in) \in {"ISOLATE", "BLOCK"}
    BY Order DEF UnseenSensitiveNotAllowed
  <2>. DEFINE t == Trail(in)
  <2>1. Consistent(in)
    BY DEF IInv
  <2>2. /\ ~FeedHit(in) => t[14].done /\ t[14].verdict \in {"ISOLATE", "BLOCK"}
        /\ t[20].done => t[20].verdict # "ALLOW"
    BY <2>1, UnseenStages
  <2>3. t[14].done => t[30] = t[14]
    <3>1. 14 \in 1..30
      OBVIOUS
    <3>. QED
      BY <2>1, <3>1, DoneStays
  <2>4. t[20] \in Results /\ t[21] \in Results /\ t[30] \in Results
    <3>1. 20 \in 20..30 /\ 21 \in 20..30 /\ 30 \in 20..30
      OBVIOUS
    <3>. QED
      BY <2>1, <3>1, LateChain
  <2>5. t[21] = HealthGate(in, t[20])
    BY TrailSteps
  <2>6. Severity(t[21].verdict) <= Severity(t[30].verdict)
    BY <2>1, LateGrows
  <2>7. Verdict(in) = t[30].verdict
    BY DEF Verdict, Apply
  <2>. HIDE DEF t
  <2>8. ASSUME in.tier2, ~HighlyTrusted(in) PROVE t[30].verdict # "ALLOW"
    <3>1. t[21].verdict # "ALLOW"
      BY <2>2, <2>4, <2>5, <2>8, Changes DEF HealthGate, Reached, Verdicts
    <3>2. t[21].verdict \in Verdicts /\ t[30].verdict \in Verdicts
      BY <2>4 DEF Results
    <3>. QED
      BY <2>6, <3>1, <3>2, Order DEF Verdicts
  <2>. QED
    BY <2>2, <2>3, <2>7, <2>8
<1>. QED
  BY <1>1, Invariance, PTL

-----------------------------------------------------------------------------
(* The mode *)

\* Only the last two stages look at the mode.
LEMMA ModeAtTheEnd ==
  ASSUME NEW i \in Inputs, NEW m \in Modes
  PROVE  Trail([i EXCEPT !.mode = m])[28] = Trail(i)[28]
<1>. DEFINE j == [i EXCEPT !.mode = m]
<1>1. /\ j.facts = i.facts /\ j.class = i.class /\ j.trust = i.trust /\ j.age = i.age
      /\ j.band = i.band /\ j.identity = i.identity /\ j.named = i.named
      /\ j.tier2 = i.tier2 /\ j.rendered = i.rendered
  BY DEF Inputs
<1>. HIDE DEF j
<1>2. /\ \A f : Sees(j, f) = Sees(i, f)
      /\ Sensitive(j) = Sensitive(i) /\ Trusted(j) = Trusted(i)
      /\ HighlyTrusted(j) = HighlyTrusted(i) /\ Unbound(j) = Unbound(i)
      /\ Fresh(j) = Fresh(i) /\ FeedHit(j) = FeedHit(i) /\ FeedHigh(j) = FeedHigh(i)
  BY <1>1 DEF Sees, Sensitive, Trusted, HighlyTrusted, Unbound, Fresh, FeedHit, FeedHigh,
              SecurityRow
<1>3. \A r : /\ Connection(j, r) = Connection(i, r)
             /\ VendorDNS(j, r) = VendorDNS(i, r)
             /\ Homoglyph(j, r) = Homoglyph(i, r)
  BY <1>2 DEF Connection, VendorDNS, Homoglyph
<1>4. \A r, h, b, w : ScamStage(j, r, h, b, w) = ScamStage(i, r, h, b, w)
  BY <1>2 DEF ScamStage
<1>5. \A r : /\ Category(j, r) = Category(i, r)
             /\ Feeds(j, r) = Feeds(i, r)
             /\ OAuthAndScareware(j, r) = OAuthAndScareware(i, r)
             /\ Sink(j, r) = Sink(i, r)
  BY <1>1, <1>2 DEF Category, Feeds, OAuthAndScareware, Sink
<1>6. \A r : /\ Replica(j, r) = Replica(i, r)
             /\ ReplicaBelow(j, r) = ReplicaBelow(i, r)
             /\ FailClosed(j, r) = FailClosed(i, r)
  BY <1>1, <1>2 DEF Replica, ReplicaBelow, FailClosed
<1>7. \A r : /\ OfficialInstall(j, r) = OfficialInstall(i, r)
             /\ ShellCommand(j, r) = ShellCommand(i, r)
             /\ SuspiciousHost(j, r) = SuspiciousHost(i, r)
             /\ FreshDomain(j, r) = FreshDomain(i, r)
  BY <1>1, <1>2 DEF OfficialInstall, ShellCommand, SuspiciousHost, FreshDomain
<1>8. \A r : /\ RawIP(j, r) = RawIP(i, r)
             /\ YARA(j, r) = YARA(i, r)
             /\ HealthGate(j, r) = HealthGate(i, r)
             /\ Clickjack(j, r) = Clickjack(i, r)
  BY <1>1, <1>2 DEF RawIP, YARA, HealthGate, Clickjack
<1>9. /\ \A r, f, w : SoftRule(j, r, f, w) = SoftRule(i, r, f, w)
      /\ \A r : RiskyDownload(j, r) = RiskyDownload(i, r)
      /\ \A r : SoftMapping(j, r) = SoftMapping(i, r)
  BY <1>1, <1>2 DEF SoftRule, RiskyDownload, SoftMapping
<1>10. Trail(j)[11] = Trail(i)[11]
  BY <1>3, <1>4, <1>5, TrailSteps
<1>11. Trail(j)[20] = Trail(i)[20]
  BY <1>6, <1>7, <1>8, <1>10, TrailSteps
<1>12. Trail(j)[28] = Trail(i)[28]
  BY <1>8, <1>9, <1>11, TrailSteps
<1>. QED
  BY <1>12 DEF j

\* Switching to a stricter mode never weakens the verdict of the page.
THEOREM ModesOnlyTighten == Spec => StricterModeNeverWeakens
<1>1. IInv /\ IInv' /\ [Next]_in
        => (in'.mode # in.mode => Severity(Verdict(in')) >= Severity(Verdict(in)))
  <2>. SUFFICES ASSUME IInv, IInv', Next, in'.mode # in.mode
                PROVE  Severity(Verdict(in')) >= Severity(Verdict(in))
    OBVIOUS
  <2>1. PICK m \in Modes : SwitchMode(m)
    BY DEF Next, Worsen, EarnTrust, IInv, Inputs
  <2>. DEFINE t == Trail(in)
              u == Trail(in')
  <2>2. u[28] = t[28]
    BY <2>1, ModeAtTheEnd DEF SwitchMode, IInv
  <2>3. in.mode = "normal"
    BY <2>1 DEF SwitchMode
  <2>4. t[29] = ParanoidGate(in, t[28]) /\ t[30] = UltraGate(in, t[29])
    BY TrailSteps
  <2>5. Follows(u[28], u[29]) /\ Follows(u[29], u[30])
    <3>1. 29 \in 21..30 /\ 30 \in 21..30
      OBVIOUS
    <3>. QED
      BY <3>1, LateChain DEF IInv
  <2>6. t[28] \in Results /\ u[29] \in Results /\ u[30] \in Results
    <3>1. 28 \in 20..30 /\ 29 \in 20..30 /\ 30 \in 20..30
      OBVIOUS
    <3>. QED
      BY <3>1, LateChain DEF IInv
  <2>7. Verdict(in) = t[30].verdict /\ Verdict(in') = u[30].verdict
    BY DEF Verdict, Apply
  <2>. HIDE DEF t, u
  <2>8. t[30].verdict = t[28].verdict
    <3>1. t[29] = t[28]
      BY <2>3, <2>4 DEF ParanoidGate, Reached
    <3>. QED
      BY <2>3, <2>4, <2>6, <3>1 DEF UltraGate, Reached, Results
  <2>9. /\ Severity(t[28].verdict) \in Int /\ Severity(u[29].verdict) \in Int
        /\ Severity(u[30].verdict) \in Int
    BY <2>6, Extremes DEF Results
  <2>. QED
    BY <2>2, <2>5, <2>7, <2>8, <2>9 DEF Follows
<1>. QED
  BY <1>1, Invariance, PTL DEF Spec, StricterModeNeverWeakens

-----------------------------------------------------------------------------
(* Visual matches *)

\* Where nothing corroborates the match, no stage tells the page from one without it.
LEMMA MatchIsIdle ==
  ASSUME NEW i \in Inputs, i.mode = "normal", Trusted(i) \/ ~Unbound(i) \/ ~i.named,
         ~Sees(i, "odd_host"), ~(i.band = "high" /\ i.identity = "unknown")
  PROVE  Trail(Unmatched(i))[30] = Trail(i)[30]
<1>. DEFINE j == Unmatched(i)
<1>1. /\ j.facts = i.facts /\ j.class = i.class /\ j.trust = i.trust /\ j.age = i.age
      /\ j.band = "none" /\ ~j.named
      /\ j.tier2 = i.tier2 /\ j.rendered = i.rendered /\ j.mode = i.mode
  BY DEF Inputs, Unmatched
<1>. HIDE DEF j
<1>2. /\ \A f : Sees(j, f) = Sees(i, f)
      /\ Sensitive(j) = Sensitive(i) /\ Trusted(j) = Trusted(i)
      /\ HighlyTrusted(j) = HighlyTrusted(i)
      /\ Fresh(j) = Fresh(i) /\ FeedHit(j) = FeedHit(i) /\ FeedHigh(j) = FeedHigh(i)
  BY <1>1 DEF Sees, Sensitive, Trusted, HighlyTrusted, Fresh, FeedHit, FeedHigh, SecurityRow
<1>3. \A r : /\ Connection(j, r) = Connection(i, r)
             /\ VendorDNS(j, r) = VendorDNS(i, r)
             /\ Homoglyph(j, r) = Homoglyph(i, r)
  BY <1>2 DEF Connection, VendorDNS, Homoglyph
<1>4. \A r, h, b, w : ScamStage(j, r, h, b, w) = ScamStage(i, r, h, b, w)
  BY <1>2 DEF ScamStage
<1>5. \A r : /\ Category(j, r) = Category(i, r)
             /\ Feeds(j, r) = Feeds(i, r)
             /\ OAuthAndScareware(j, r) = OAuthAndScareware(i, r)
             /\ Sink(j, r) = Sink(i, r)
  BY <1>1, <1>2 DEF Category, Feeds, OAuthAndScareware, Sink
\* The two stages that look at the match let it pass, and so does the odd name's.
<1>6. \A r : /\ Replica(j, r) = r /\ Replica(i, r) = r
             /\ ReplicaBelow(j, r) = r /\ ReplicaBelow(i, r) = r
             /\ SuspiciousHost(j, r) = r /\ SuspiciousHost(i, r) = r
  BY <1>1, <1>2 DEF Replica, ReplicaBelow, SuspiciousHost, Reached
<1>7. \A r : /\ FailClosed(j, r) = FailClosed(i, r)
             /\ OfficialInstall(j, r) = OfficialInstall(i, r)
             /\ ShellCommand(j, r) = ShellCommand(i, r)
             /\ FreshDomain(j, r) = FreshDomain(i, r)
  BY <1>1, <1>2 DEF FailClosed, OfficialInstall, ShellCommand, FreshDomain
<1>8. \A r : /\ RawIP(j, r) = RawIP(i, r)
             /\ YARA(j, r) = YARA(i, r)
             /\ HealthGate(j, r) = HealthGate(i, r)
             /\ Clickjack(j, r) = Clickjack(i, r)
  BY <1>1, <1>2 DEF RawIP, YARA, HealthGate, Clickjack
<1>9. /\ \A r, f, w : SoftRule(j, r, f, w) = SoftRule(i, r, f, w)
      /\ \A r : RiskyDownload(j, r) = RiskyDownload(i, r)
      /\ \A r : SoftMapping(j, r) = SoftMapping(i, r)
  BY <1>1, <1>2 DEF SoftRule, RiskyDownload, SoftMapping
\* In the ordinary mode neither gate does anything.
<1>10. \A r : ParanoidGate(j, r) = ParanoidGate(i, r) /\ UltraGate(j, r) = UltraGate(i, r)
  BY <1>1 DEF ParanoidGate, UltraGate, Reached
<1>11. Trail(j)[11] = Trail(i)[11]
  BY <1>3, <1>4, <1>5, TrailSteps
<1>12. Trail(j)[21] = Trail(i)[21]
  BY <1>6, <1>7, <1>8, <1>11, TrailSteps
<1>13. Trail(j)[28] = Trail(i)[28]
  BY <1>8, <1>9, <1>12, TrailSteps
<1>. QED
  BY <1>10, <1>13, TrailSteps DEF j

\* A match that neither URL nor title corroborates changes no verdict, whatever else is
\* seen, but for the two rules it silences.
THEOREM MatchesNeedCorroboration == Spec => []MatchNeedsCorroboration
<1>1. IInv => MatchNeedsCorroboration
  BY MatchIsIdle DEF IInv, MatchNeedsCorroboration, Verdict, Apply
<1>. QED
  BY <1>1, Invariance, PTL
=============================================================================
