--------------------------- MODULE PolicyEngine ---------------------------
(***************************************************************************)
(* The staged verdict engine of verdict-api (internal/policy/policy.go,    *)
(* Apply): what the pipeline learned about a page goes through a fixed     *)
(* sequence of stages; a stage may return a verdict, raise it and go on,   *)
(* or pass.  Scores are abstracted to the bands the rules compare them     *)
(* with, evidence to the set of facts that hold.                           *)
(*                                                                         *)
(* Apply is pure, and most of what could be wrong with it is in how the    *)
(* stages interact: an early return hides the rules behind it, trust mutes *)
(* some and not others.  The state is one input of Apply; a step changes   *)
(* the input the way two checks of the same page may differ.               *)
(***************************************************************************)
EXTENDS Integers, Sequences, FiniteSets

CONSTANTS
  Facts,    \* what may be seen of a page, of those named below
  MaxFacts, \* bound on how many are seen together
  Ages,     \* what may be known of the domain's age
  Bands     \* what the visual match may say

\* Facts that only a sandbox render can show.
RenderFacts ==
  {"scareware", "popups", "clipboard", "bad_sink", "challenge", "official_install",
   "shell_hard", "shell_soft", "yara", "clickjack", "obfuscated_js",
   "hidden_iframes", "risky_download", "hidden_anchors"}
\* Facts known without one.  "content": a feed row of a content category, which the
\* fetcher stores with high confidence; "filter_on": the user blocks that category.
\* Rows of the other feeds count by their confidence.
OtherFacts ==
  {"private_ip", "vendor_dns", "vendor_dns_single", "homoglyph",
   "ss_hard", "ss_block", "ss_warn", "ps_hard", "ps_block", "ps_warn",
   "cd_hard", "cd_block", "cd_warn", "content", "filter_on", "feed_high",
   "feed_medium", "feed_two_medium", "oauth_unknown", "odd_host", "raw_ip",
   "raw_ip_drop", "path_drift", "dns_divergence"}

ASSUME FactsAssumption == Facts \subseteq RenderFacts \cup OtherFacts
ASSUME MaxFactsAssumption == MaxFacts \in Nat

Classes == {"generic", "credential", "download"}   \* the last two are sensitive
Trusts == {"none", "score", "identity"}   \* a score over 0.70; a registry
Modes == {"normal", "paranoid", "ultra"}
AllAges == {"unknown", "days", "weeks", "young", "months", "old"}
                   \* under 7, 30, 180, 730 days, and older
AllBands == {"none", "faint", "low", "weak", "high"}
                   \* of the visual match: no brand, under 0.62, 0.70, 0.85, over
ASSUME AgesAssumption == Ages \subseteq AllAges
ASSUME BandsAssumption == Bands \subseteq AllBands

Identities == {"bound", "unknown", "mismatch"}

Inputs ==
  [facts : SUBSET Facts, class : Classes, trust : Trusts, mode : Modes,
   age : Ages, band : Bands, identity : Identities, named : BOOLEAN,
   tier2 : BOOLEAN, rendered : BOOLEAN]

\* Facts of which at most one is reported: a score lies in one band, a count of
\* medium feeds is one or more, vendors agree or one is alone.
Exclusive ==
  {{"ss_hard", "ss_block", "ss_warn"}, {"ps_hard", "ps_block", "ps_warn"},
   {"cd_hard", "cd_block", "cd_warn"}, {"feed_medium", "feed_two_medium"},
   {"vendor_dns", "vendor_dns_single"}}

Sees(i, f) == f \in i.facts
Sensitive(i) == i.class # "generic"
Trusted(i) == i.trust = "identity"
HighlyTrusted(i) == i.trust \in {"identity", "score"}
Unbound(i) == i.identity # "bound"
Fresh(i) == i.age \in {"days", "weeks"}

SecurityRow(i) == i.facts \cap {"feed_high", "feed_medium", "feed_two_medium"} # {}
FeedHit(i) == SecurityRow(i) \/ Sees(i, "content")

\* buildPolicyInputs: what goes together in the inputs it can build.  No visual match
\* is made without a screenshot or of a challenge page, and without one the
\* identity counts as bound; only a domain of three years or more without rows or
\* vendor hits, or of eight without one of the two, earns the trust score; commands
\* make a page a developer install lure, an OAuth client a consent page.
Consistent(i) ==
  /\ i.rendered => i.tier2
  /\ i.facts \cap RenderFacts # {} \/ i.band # "none" => i.rendered
  /\ Sees(i, "challenge") => i.band = "none"
  /\ i.band = "none" => i.identity = "bound" /\ ~i.named
  /\ Sees(i, "raw_ip_drop") => Sees(i, "raw_ip")
  /\ Sees(i, "raw_ip") => ~Sees(i, "private_ip")
  /\ i.trust = "score" =>
       i.age = "old" /\ ~(FeedHit(i) /\ (Sees(i, "vendor_dns") \/ Sees(i, "vendor_dns_single")))
  /\ Sees(i, "shell_hard") \/ Sees(i, "shell_soft") => Sensitive(i) \/ Sees(i, "scareware")
  /\ Sees(i, "oauth_unknown") => i.class = "credential"
  /\ \A X \in Exclusive : \A f, g \in X \cap i.facts : f = g

-----------------------------------------------------------------------------
Severity(v) ==
  CASE v = "ALLOW" -> 0 [] v = "WARN" -> 1 [] v = "ISOLATE" -> 2 [] v = "BLOCK" -> 3

\* Result: soft is the accumulated risk of the soft rules in halves, checks tells
\* whether ClearanceChecks is populated, done whether Apply has returned.
Start == [verdict |-> "ALLOW", soft |-> 0, checks |-> FALSE, done |-> FALSE]
Set(r, v) == [r EXCEPT !.verdict = v]
Return(r, v) == [r EXCEPT !.verdict = v, !.done = TRUE]
Stop(r) == [r EXCEPT !.done = TRUE]
Fire(r, w) == [r EXCEPT !.soft = @ + w]
\* At least WARN.
Raise(r) == IF r.verdict = "ALLOW" THEN Set(r, "WARN") ELSE r
\* A stage is not reached once Apply has returned.
Reached(r, x) == IF r.done THEN r ELSE x

\* Stage CI: the browser reached a private address for a public name.
Connection(i, r) == IF Sees(i, "private_ip") THEN Return(r, "BLOCK") ELSE r

\* Stage 0: protective-DNS vendors agree.
VendorDNS(i, r) ==
  Reached(r, IF Sees(i, "vendor_dns") /\ ~Trusted(i) THEN Return(r, "BLOCK") ELSE r)

\* Stage IS.
Homoglyph(i, r) ==
  Reached(r,
    IF Sees(i, "homoglyph") /\ ~Trusted(i)
    THEN IF Sensitive(i) THEN Return(r, "BLOCK") ELSE Raise(r)
    ELSE r)

\* Faulty variant: a scam score under the hard band replaces the verdict.
ScamStageSets(i, r, hard, block, warn) ==
  Reached(r,
    IF Sees(i, hard) \/ (Sees(i, block) /\ Sensitive(i)) THEN Return(r, "BLOCK")
    ELSE IF Sees(i, block) \/ Sees(i, warn) THEN Set(r, "WARN")
    ELSE Set(r, "ALLOW"))

\* Stages SS, PS and CD share their three bands: block, block on sensitive pages,
\* warn.
ScamStage(i, r, hard, block, warn) ==
  Reached(r,
    IF Sees(i, hard) \/ (Sees(i, block) /\ Sensitive(i)) THEN Return(r, "BLOCK")
    ELSE IF Sees(i, block) \/ Sees(i, warn) THEN Raise(r)
    ELSE r)

\* Stage F.0: a content category blocks when the user asks for it.
Category(i, r) ==
  Reached(r,
    IF Sees(i, "content") /\ Sees(i, "filter_on") THEN Return(r, "BLOCK") ELSE r)

\* FeedHighSources as F.1 finds it: F.0 clears it when all rows are content.
FeedHigh(i) == Sees(i, "feed_high") \/ (Sees(i, "content") /\ SecurityRow(i))

\* Faulty variant: a single medium row ends the evaluation.
FeedsReturnsWarn(i, r) ==
  Reached(r,
    IF FeedHigh(i) \/ Sees(i, "feed_two_medium") THEN Return(r, "BLOCK")
    ELSE IF Sees(i, "feed_medium") THEN Return(r, "WARN") ELSE r)

\* Stage F.1: one high-confidence feed, two medium ones, or one and a fresh domain.
Feeds(i, r) ==
  Reached(r,
    IF FeedHigh(i) \/ Sees(i, "feed_two_medium") THEN Return(r, "BLOCK")
    ELSE IF Sees(i, "feed_medium")
    THEN IF Fresh(i) THEN Return(r, "BLOCK") ELSE Set(r, "WARN")
    ELSE r)

\* Stages F.2 and F.3.
OAuthAndScareware(i, r) ==
  Reached(r,
    IF Sees(i, "oauth_unknown") THEN Return(r, "BLOCK")
    ELSE IF Sees(i, "scareware") THEN Return(r, "BLOCK") ELSE r)

\* Stage D: a credential page sends what is typed where it should not.
Sink(i, r) ==
  Reached(r,
    IF i.class = "credential" /\ ~Trusted(i) /\ Sees(i, "bad_sink")
    THEN Return(r, "BLOCK") ELSE r)

\* Faulty variant: a mismatch acts without the brand's name.
ReplicaUncorroborated(i, r) ==
  Reached(r,
    IF i.band = "high" /\ Unbound(i) /\ ~Trusted(i)
    THEN IF i.identity = "unknown"
         THEN IF ~i.named THEN Stop(r)
              ELSE Return(r, IF Sensitive(i) THEN "ISOLATE" ELSE "WARN")
         ELSE Return(r, "BLOCK")
    ELSE r)

\* Stage B+C, confident match on hosting that is not the brand's.
Replica(i, r) ==
  Reached(r,
    IF i.band = "high" /\ Unbound(i) /\ ~Trusted(i)
    THEN IF i.identity = "unknown"
         THEN IF ~i.named THEN Stop(r)
              ELSE Return(r, IF Sensitive(i) THEN "ISOLATE" ELSE "WARN")
         ELSE IF i.named THEN Return(r, "BLOCK") ELSE r
    ELSE r)

\* Faulty variant: only under 0.70.
ReplicaBelowLow(i, r) ==
  Reached(r,
    IF i.named /\ ~Trusted(i) /\ Unbound(i) /\ i.band = "low"
    THEN Return(r, "BLOCK") ELSE r)

\* Stage B+C below the high band: only with the brand's name in the URL.
ReplicaBelow(i, r) ==
  Reached(r,
    IF i.named /\ ~Trusted(i) /\ Unbound(i) /\ i.band \in {"low", "weak"}
    THEN Return(r, "BLOCK") ELSE r)

\* Faulty variant: fails closed only when a render was asked for.
FailClosedWhenAsked(i, r) ==
  Reached(r,
    IF ~Sensitive(i) THEN r
    ELSE IF Sees(i, "challenge") THEN Return(r, "ISOLATE")
    ELSE IF Sees(i, "path_drift") THEN Return(r, "BLOCK")
    ELSE IF i.tier2 /\ ~i.rendered /\ ~FeedHit(i) /\ ~Trusted(i) THEN Return(r, "ISOLATE")
    ELSE r)

\* Stage E, path drift, and fail-closed: sensitive pages that could not be verified.
\* Any feed hit counts as verification.
FailClosed(i, r) ==
  Reached(r,
    IF ~Sensitive(i) THEN r
    ELSE IF Sees(i, "challenge") THEN Return(r, "ISOLATE")
    ELSE IF Sees(i, "path_drift") THEN Return(r, "BLOCK")
    ELSE IF ~i.rendered /\ ~FeedHit(i) /\ ~Trusted(i)
    THEN Return(r, "ISOLATE")
    ELSE r)

\* The vendor's own install command: the one rule that lowers a verdict.
OfficialInstall(i, r) ==
  Reached(r,
    IF Sees(i, "official_install")
    THEN Return(r, IF Sees(i, "shell_hard") THEN "WARN" ELSE "ALLOW")
    ELSE r)

\* Install commands that attack whoever pastes them.
ShellCommand(i, r) ==
  Reached(r,
    IF Trusted(i) THEN r
    ELSE IF Sees(i, "shell_hard") THEN Return(r, "BLOCK")
    ELSE IF Sees(i, "shell_soft") THEN Return(r, "WARN")
    ELSE r)

\* A random-looking name with no visual match: domain age decides.
SuspiciousHost(i, r) ==
  Reached(r,
    IF ~Sees(i, "odd_host") \/ HighlyTrusted(i) \/ i.band # "none" THEN r
    ELSE IF ~Sensitive(i) THEN IF i.age = "old" THEN r ELSE Fire(r, 2)
    ELSE Return(r, IF i.age = "old" THEN "WARN"
                   ELSE IF Fresh(i) THEN "BLOCK" ELSE "ISOLATE"))

FreshDomain(i, r) ==
  Reached(r,
    IF i.age = "days" /\ Sensitive(i) /\ ~Trusted(i) THEN Return(r, "ISOLATE") ELSE r)

RawIP(i, r) ==
  Reached(r,
    IF Sees(i, "raw_ip_drop") \/ (Sees(i, "raw_ip") /\ ~Trusted(i))
    THEN Return(r, "BLOCK") ELSE r)

\* Faulty variant: returns its warning.
YARAReturns(i, r) == Reached(r, IF Sees(i, "yara") THEN Return(r, "WARN") ELSE r)

YARA(i, r) == Reached(r, IF Sees(i, "yara") THEN Set(r, "WARN") ELSE r)

\* Stage H: a render was asked for and none came.
HealthGate(i, r) ==
  Reached(r,
    IF i.tier2 /\ ~i.rendered /\ Sensitive(i) /\ ~HighlyTrusted(i)
    THEN Set(r, "ISOLATE") ELSE r)

\* Stage F.4, overlays.
Clickjack(i, r) ==
  Reached(r,
    IF ~Sees(i, "clickjack") \/ Trusted(i) THEN r
    ELSE IF Sensitive(i) THEN Return(r, "ISOLATE") ELSE Set(r, "WARN"))

\* Stage F.4, a soft rule of weight w halves that trust suppresses.
SoftRule(i, r, f, w) ==
  Reached(r, IF Sees(i, f) /\ ~HighlyTrusted(i) THEN Fire(r, w) ELSE r)

\* Stage F.4, downloads; pages that offer downloads are exempt.
RiskyDownload(i, r) ==
  Reached(r,
    IF ~Sees(i, "risky_download") \/ HighlyTrusted(i) \/ i.class = "download" THEN r
    ELSE IF i.class = "credential" THEN Return(r, "BLOCK") ELSE Fire(r, 2))

\* What the soft rules add up to, and the behaviours that only warn.
SoftMapping(i, r) ==
  Reached(r,
    IF r.soft >= 2 \/ Sees(i, "popups") \/ Sees(i, "clipboard") THEN Raise(r) ELSE r)

ParanoidGate(i, r) ==
  Reached(r,
    IF i.mode = "paranoid" /\ r.verdict = "ALLOW" /\ Sensitive(i) /\ Unbound(i)
    THEN Set(r, "ISOLATE") ELSE r)

\* hasFullClearance of computeClearanceChecks.  Stage F.0 has already dropped the
\* rows of a page that only content feeds list.
Cleared(i) ==
  LET trustPass == Trusted(i) \/ Sees(i, "official_install") IN
  /\ ~FeedHigh(i) /\ ~Sees(i, "feed_medium") /\ ~Sees(i, "feed_two_medium")
  /\ ~Sees(i, "vendor_dns") /\ ~Sees(i, "vendor_dns_single")
  /\ i.age \in {"months", "old"} \/ trustPass
  /\ ~Sees(i, "raw_ip") /\ ~Sees(i, "odd_host")
  /\ ~(Unbound(i) /\ (i.band = "weak" \/ (i.band = "high" /\ i.named)))
  /\ ~Unbound(i) \/ trustPass
  /\ ~Sees(i, "scareware")

\* Faulty variant: clearance decides alone.
UltraGateAlone(i, r) ==
  Reached(r,
    [r EXCEPT !.checks = TRUE,
              !.verdict = IF i.mode # "ultra" THEN @
                          ELSE IF Cleared(i) THEN "ALLOW" ELSE "ISOLATE"])

\* Stage U.
UltraGate(i, r) ==
  Reached(r,
    [r EXCEPT !.checks = TRUE,
              !.verdict = IF i.mode = "ultra" /\ @ = "ALLOW" /\ ~Cleared(i)
                          THEN "ISOLATE" ELSE @])

-----------------------------------------------------------------------------
\* What Apply holds after each stage.
Trail(i) ==
  LET r1  == Connection(i, Start)
      r2  == VendorDNS(i, r1)
      r3  == Homoglyph(i, r2)
      r4  == ScamStage(i, r3, "ss_hard", "ss_block", "ss_warn")
      r5  == ScamStage(i, r4, "ps_hard", "ps_block", "ps_warn")
      r6  == ScamStage(i, r5, "cd_hard", "cd_block", "cd_warn")
      r7  == Category(i, r6)
      r8  == Feeds(i, r7)
      r9  == OAuthAndScareware(i, r8)
      r10 == Sink(i, r9)
      r11 == Replica(i, r10)
      r12 == ReplicaBelow(i, r11)
      r13 == FailClosed(i, r12)
      r14 == OfficialInstall(i, r13)
      r15 == ShellCommand(i, r14)
      r16 == SuspiciousHost(i, r15)
      r17 == FreshDomain(i, r16)
      r18 == RawIP(i, r17)
      r19 == YARA(i, r18)
      r20 == HealthGate(i, r19)
      r21 == Clickjack(i, r20)
      r22 == SoftRule(i, r21, "obfuscated_js", 2)
      r23 == SoftRule(i, r22, "hidden_iframes", 2)
      r24 == RiskyDownload(i, r23)
      r25 == SoftRule(i, r24, "hidden_anchors", 2)
      r26 == SoftRule(i, r25, "dns_divergence", 1)
      r27 == SoftMapping(i, r26)
      r28 == ParanoidGate(i, r27)
      r29 == UltraGate(i, r28)
  IN <<Start, r1, r2, r3, r4, r5, r6, r7, r8, r9, r10, r11, r12, r13, r14, r15, r16,
       r17, r18, r19, r20, r21, r22, r23, r24, r25, r26, r27, r28, r29>>

Apply(i) == Trail(i)[30]
Verdict(i) == Apply(i).verdict

-----------------------------------------------------------------------------
VARIABLE in   \* the input of Apply

Init ==
  /\ in \in [facts : {{}}, class : Classes, trust : Trusts, mode : Modes,
            age : Ages, band : Bands, identity : Identities, named : BOOLEAN,
            tier2 : BOOLEAN, rendered : BOOLEAN]
  /\ Consistent(in)

\* More is seen of the page.
Worsen(f) ==
  /\ f \notin in.facts
  /\ Cardinality(in.facts) < MaxFacts
  /\ in' = [in EXCEPT !.facts = @ \cup {f}]
  /\ Consistent(in')

\* The page is one that is trusted.
EarnTrust(t) ==
  /\ in.trust = "none" /\ t # "none"
  /\ in' = [in EXCEPT !.trust = t]
  /\ Consistent(in')

\* The user asks for a stricter mode.
SwitchMode(m) ==
  /\ in.mode = "normal" /\ m # "normal"
  /\ in' = [in EXCEPT !.mode = m]

Next ==
  \/ \E f \in Facts : Worsen(f)
  \/ \E t \in Trusts : EarnTrust(t)
  \/ \E m \in Modes : SwitchMode(m)

Spec == Init /\ [][Next]_in

-----------------------------------------------------------------------------
(* Properties of every input *)

\* The inputs are well-formed and Apply gives a verdict.
TypeOK ==
  /\ in \in Inputs /\ Consistent(in)
  /\ Verdict(in) \in {"ALLOW", "WARN", "ISOLATE", "BLOCK"}

\* "We never demote here": of all the stages that run, only the vendor's own install
\* command lowers a verdict an earlier stage had reached.
NoStageWeakens ==
  LET t == Trail(in) IN
  \A n \in 2..Len(t) :
    Sees(in, "official_install") \/ Severity(t[n - 1].verdict) <= Severity(t[n].verdict)

\* Evidence no trust, class, mode or other evidence may hide: the browser went to a
\* private address, a composite scam, a filtered category, a high-confidence feed or
\* two medium ones, an unverified OAuth application, scareware.
HardEvidenceBlocks ==
  in.facts \cap {"private_ip", "ss_hard", "ps_hard", "cd_hard", "feed_high",
                 "feed_two_medium", "oauth_unknown", "scareware"} # {}
  \/ {"content", "filter_on"} \subseteq in.facts
  => Verdict(in) = "BLOCK"

\* A sensitive page nobody saw is not allowed unless it is trusted; without any feed
\* row it is isolated at the least, whatever the trust score and the age.
UnseenSensitiveNotAllowed ==
  Sensitive(in) /\ ~in.rendered /\ ~Trusted(in) =>
    /\ in.tier2 /\ ~HighlyTrusted(in) => Verdict(in) # "ALLOW"
    /\ ~FeedHit(in) => Severity(Verdict(in)) >= Severity("ISOLATE")

\* Facts that may hide what others would have shown: the vendor's command allows,
\* a suspicious one warns and returns, as an odd name does on an old domain; a feed
\* row counts as verification; a challenge and an overlay isolate before the rules
\* behind them are reached.
Masking ==
  {"official_install", "shell_soft", "odd_host", "content", "feed_medium",
   "challenge", "clickjack"}

\* Seeing more of a page never weakens its verdict, the facts of Masking apart.
EvidenceNeverWeakens ==
  [][\A f \in Facts \ Masking :
       in.mode = "normal" /\ Worsen(f) =>
         Severity(Verdict(in')) >= Severity(Verdict(in))]_in

\* A stricter mode never weakens a verdict.
StricterModeNeverWeakens ==
  [][in'.mode # in.mode => Severity(Verdict(in')) >= Severity(Verdict(in))]_in

\* Trust never makes a verdict harsher in the ordinary mode, except where an early
\* return of the untrusted page hid what came behind: the raw-IP drop, which ignores
\* trust; what the warning for an odd name on an old domain hides; and everything
\* behind a visual match nothing corroborates.
TrustOnlyRelaxes ==
  [][in'.trust # in.trust /\ in.mode = "normal"
       /\ ~Sees(in, "raw_ip_drop") /\ ~Sees(in, "odd_host")
       /\ ~(in.band = "high" /\ in.identity = "unknown" /\ ~in.named)
     => Severity(Verdict(in')) <= Severity(Verdict(in))]_in

\* Of all that is known, only trust may make a verdict milder.
OnlyTrustRelaxes == EvidenceNeverWeakens /\ TrustOnlyRelaxes

\* The input without its visual match.
Unmatched(i) == [i EXCEPT !.band = "none", !.identity = "bound", !.named = FALSE]

\* A match that nothing in the URL or title corroborates changes no verdict, but for
\* two rules it silences: the odd name, and everything once the identity is unknown.
MatchNeedsCorroboration ==
  in.mode = "normal" /\ (Trusted(in) \/ ~Unbound(in) \/ ~in.named)
    /\ ~Sees(in, "odd_host") /\ ~(in.band = "high" /\ in.identity = "unknown")
  => Verdict(in) = Verdict(Unmatched(in))

\* A corroborated match on hosting that is not the brand's is always acted upon, on
\* sensitive pages by isolating at the least.
CorroboratedMatchActs ==
  in.named /\ Unbound(in) /\ ~Trusted(in) /\ in.band \in {"low", "weak", "high"} =>
    Severity(Verdict(in)) >= Severity(IF Sensitive(in) THEN "ISOLATE" ELSE "WARN")

-----------------------------------------------------------------------------
(* What comments say of the rules; the code does otherwise *)

\* policy.go:488-490: a trusted brand still BLOCKs on vendor-DNS consensus.
VendorConsensusIgnoresTrust == Sees(in, "vendor_dns") => Verdict(in) = "BLOCK"

\* policy.go:1123-1126: an uncorroborated match of unknown identity is skipped, and
\* downstream rules (suspicious host, raw-IP, behavior) can still fire.
LaterRulesStillFire ==
  in.mode = "normal" /\ in.band = "high" /\ in.identity = "unknown" /\ ~in.named =>
    Severity(Verdict(in)) >= Severity(Verdict(Unmatched(in)))

\* policy.go:1742-1744: the moment any gate is uncertain or fails, the URL opens in
\* ISOLATE.
UltraIsolatesUncleared ==
  in.mode = "ultra" /\ ~Cleared(in) => Severity(Verdict(in)) >= Severity("ISOLATE")

\* options.js:88: Ultra does everything Paranoid does.
UltraCoversParanoid ==
  Severity(Verdict([in EXCEPT !.mode = "ultra"])) >=
    Severity(Verdict([in EXCEPT !.mode = "paranoid"]))

\* gateway.go:221-222: the clearance checks are always populated.
ChecksAlwaysPopulated == Apply(in).checks

\* policy.go:1440-1441: a raw-IP binary path BLOCKs even when the sandbox can't render
\* the binary.
RawIPDropBlocks == Sees(in, "raw_ip_drop") => Verdict(in) = "BLOCK"

\* policy.go:1195-1196, 1231-1239: the borderline rule is for scores under 0.70; a
\* match over it on a sensitive page opens in isolation.
WeakMatchIsolates ==
  in.facts = {} /\ in.band = "weak" /\ in.named /\ Unbound(in) /\ ~Trusted(in)
    /\ Sensitive(in)
  => Verdict(in) = "ISOLATE"

\* policy.go:919-920, 967-971: content categories only block when the user has them
\* on, and one medium row is advisory.
CategoryOffAllows ==
  in.facts = {"content", "feed_medium"} /\ ~Fresh(in) /\ in.band = "none" =>
    Verdict(in) # "BLOCK"

==========================================================================
