---------------------------- MODULE PageEvidence ----------------------------
(***************************************************************************)
(* From what the pipeline collected about a page to the input of the       *)
(* policy engine (internal/httpgw/policymap.go, buildPolicyInputs), with   *)
(* the packages it calls: the page classifier (internal/pageclass), the    *)
(* visual match as pipeline.go and internal/fusion pass it on, the trust   *)
(* score (internal/trustscore).  PolicyEngine is instantiated on the input *)
(* that is built, so that what is stated here is about the final verdict.  *)
(*                                                                         *)
(* A step is one more signal on the same page; its other circumstances are *)
(* those of the initial state.                                             *)
(***************************************************************************)
EXTENDS Integers, FiniteSets

CONSTANTS
  Signals,     \* what may be collected, of the signals named below
  MaxSignals,  \* bound on how many are
  UrlClasses,  \* what FromURL says
  Hosts,       \* what the registries say of the host
  PageAges,    \* what RDAP says
  Matches      \* what CLIP and the perceptual hash say

ASSUME MaxSignalsAssumption == MaxSignals \in Nat

VARIABLE obs
  \* [seen: signals, url: class, host, age, render, match: the visual match,
  \*  record: the registry's record of the matched brand, named: the brand's name is
  \*  in the URL or title]

\* A render shows these.  "cross_form": a password form that posts elsewhere;
\* "js_sink": script that sends what is typed elsewhere, before submit, twice or
\* through hidden fields; "soft_one": a single soft shell pattern; "vetted": the
\* commands are from a vendor's registered templates, "vetted_one": one of several is.
RenderSignals ==
  {"password", "cross_form", "js_sink", "popups", "dialogs", "fullscreen", "clipboard",
   "auto_download", "vetted", "vetted_one", "shell_hard", "shell_soft", "soft_one",
   "yara", "clickjack", "obfuscated_js", "hidden_iframes", "risky_download",
   "hidden_anchors", "challenge"}
\* "oauth": the URL is a consent page with a client id; "direct_download": it ends in
\* an executable's name; "private_ip": the browser reported a private address.
OtherSignals ==
  {"oauth", "oauth_unknown", "ss_hard", "ss_block", "ss_warn", "content", "filter_on",
   "feed_high", "feed_medium", "feed_two_medium", "vendor_dns", "vendor_dns_single",
   "homoglyph", "odd_host", "raw_ip", "direct_download", "private_ip"}
ASSUME SignalsAssumption == Signals \subseteq RenderSignals \cup OtherSignals

\* One class stands for those of its kind: login for all that ask for credentials.
AllUrlClasses == {"generic", "login", "download", "lure"}
ASSUME UrlClassesAssumption == UrlClasses \subseteq AllUrlClasses
\* In no registry, of a known organisation, trusted in some scope (or by the operator),
\* or fully.
AllHosts == {"unknown", "org", "scoped", "full"}
ASSUME HostsAssumption == Hosts \subseteq AllHosts
\* Not known, or the youngest of a range: days up to a year, then years.
AllAges == {"unknown", "0d", "7d", "30d", "90d", "180d", "1y", "2y", "3y", "8y"}
ASSUME AgesOfPagesAssumption == PageAges \subseteq AllAges
\* clip: the band of CLIP's first brand; phash: distance under 8 or 8 of the nearest
\* screenshot; same: both name one brand.
AllMatches == [clip : {"none", "faint", "low", "weak", "high"},
               phash : {"none", "near", "edge"}, same : BOOLEAN]
ASSUME MatchesAssumption == Matches \subseteq AllMatches
Records == {"none", "home", "moved", "other"}
  \* no domains known; lists this domain; lists it on other hosting; does not list it

Has(o, s) == s \in o.seen
HasAny(o, S) == S \cap o.seen # {}
Rendered(o) == o.render = "done"
FeedRow(o) == HasAny(o, {"content", "feed_high", "feed_medium", "feed_two_medium"})

-----------------------------------------------------------------------------
(* The visual match *)

\* callVisualMatch's answer as the pipeline keeps it: the hash wins over CLIP when they
\* name different brands; its distance of 8 scores 0.848.
TopMatch(o) ==
  IF o.match.phash # "none" /\ (o.match.clip = "none" \/ ~o.match.same)
  THEN IF o.match.phash = "near" THEN "high" ELSE "weak"
  ELSE o.match.clip

\* fusion.Score returns at a feed hit before it fills TopBrand and TopScore, and
\* buildPolicyInputs takes the brand from there.
Replica(o) == IF FeedRow(o) THEN "none" ELSE TopMatch(o)

\* identityFromBrandData, and the cases around it: no brand counts as bound.
Identity(o) ==
  CASE Replica(o) = "none" -> "bound"
    [] o.record = "none" -> "unknown"
    [] o.record = "home" -> "bound"
    [] OTHER -> "mismatch"

-----------------------------------------------------------------------------
(* The page class *)

Scareware(o) ==
  Cardinality(o.seen \cap {"popups", "dialogs", "fullscreen", "clipboard", "auto_download"}) >= 3

\* Faulty variant: a download that starts by itself is looked at before the form.
RefineDownloadFirst(o) ==
  CASE Has(o, "oauth") -> "oauth"
    [] ~Has(o, "oauth") /\ Has(o, "auto_download") -> "download"
    [] ~HasAny(o, {"oauth", "auto_download"}) /\ Has(o, "password") -> "login"
    [] OTHER -> IF HasAny(o, {"shell_hard", "shell_soft", "soft_one"}) THEN "lure" ELSE o.url

\* Refine: the strongest sign on the page decides, whatever the URL said.
Refine(o) ==
  CASE Has(o, "oauth") -> "oauth"
    [] ~Has(o, "oauth") /\ Has(o, "password") -> "login"
    [] ~HasAny(o, {"oauth", "password"}) /\ {"popups", "dialogs", "fullscreen"} \subseteq o.seen
         -> "scareware"
    [] ~HasAny(o, {"oauth", "password"}) /\ ~({"popups", "dialogs", "fullscreen"} \subseteq o.seen)
         /\ Has(o, "auto_download") -> "download"
    [] OTHER -> IF HasAny(o, {"shell_hard", "shell_soft", "soft_one"}) THEN "lure" ELSE o.url

\* IsCredentialPage and IsSensitive, as the classes of PolicyEngine.
ClassOf(c) ==
  CASE c \in {"login", "oauth"} -> "credential"
    [] c \in {"download", "lure"} -> "download"
    [] c \in {"generic", "scareware"} -> "generic"

-----------------------------------------------------------------------------
(* Trust *)

\* trustscore.Score, in hundredths.
AgeScore(a) ==
  CASE a = "8y" -> 30 [] a \in {"3y"} -> 20 [] a \in {"1y", "2y"} -> 10
    [] a \in {"90d", "180d"} -> 3 [] a \in {"0d", "7d"} -> -10
    [] a \in {"unknown", "30d"} -> 0
VendorsClean(o) == ~HasAny(o, {"vendor_dns", "vendor_dns_single"})
TrustScore(o) ==
  30 + AgeScore(o.age) + (IF FeedRow(o) THEN 0 ELSE 10) + (IF VendorsClean(o) THEN 10 ELSE 0)
     + (CASE o.host = "full" -> 20 [] o.host = "scoped" -> 10 [] OTHER -> 0)
     + (IF o.host \in {"org", "full"} THEN 5 ELSE 0)

\* Trust by a registry, by the score, or none: HighTrustScoreThreshold is 0.70.
TrustOf(o) ==
  IF o.host \in {"scoped", "full"} THEN "identity"
  ELSE IF TrustScore(o) >= 70 THEN "score" ELSE "none"

\* The age ranges PolicyEngine tells apart.
AgeOf(a) ==
  CASE a = "unknown" -> "unknown" [] a = "0d" -> "days" [] a = "7d" -> "weeks"
    [] a \in {"30d", "90d"} -> "young" [] a \in {"180d", "1y"} -> "months"
    [] a \in {"2y", "3y", "8y"} -> "old"

-----------------------------------------------------------------------------
(* The facts *)

\* Signals that become a fact of the same name, from the scam scorers, the protective DNS
\* providers, the feeds, the render's behaviour, the shape of the host and the DOM.
ScamFacts == {"ss_hard", "ss_block", "ss_warn"}
VendorFacts == {"vendor_dns", "vendor_dns_single"}
FeedFacts == {"content", "filter_on", "feed_high", "feed_medium", "feed_two_medium"}
BehaviorFacts == {"popups", "clipboard", "yara", "challenge"}
HostFacts == {"homoglyph", "odd_host"}
DomFacts ==
  {"clickjack", "obfuscated_js", "hidden_iframes", "risky_download", "hidden_anchors"}
Plain ==
  ScamFacts \cup VendorFacts \cup FeedFacts \cup BehaviorFacts \cup HostFacts \cup DomFacts
    \cup {"raw_ip", "oauth_unknown"}

\* Typed text goes where it should not.
BadSink(o) == HasAny(o, {"cross_form", "js_sink"})
BinaryDrop(o) == {"raw_ip", "direct_download"} \subseteq o.seen

\* Every command the page shows is the vendor's own.
ClearedByVendor(o) == Has(o, "vetted")

Derived(o) ==
  (IF Scareware(o) THEN {"scareware"} ELSE {})
    \cup (IF BadSink(o) THEN {"bad_sink"} ELSE {})
    \cup (IF HasAny(o, {"vetted", "vetted_one"}) THEN {"official_install"} ELSE {})
    \cup (IF ClearedByVendor(o) THEN {} ELSE o.seen \cap {"shell_hard", "shell_soft"})
    \cup (IF BinaryDrop(o) THEN {"raw_ip_drop"} ELSE {})
    \cup (IF Has(o, "private_ip") /\ ~Has(o, "raw_ip") THEN {"private_ip"} ELSE {})

EveryFact == Plain \cup {"scareware", "bad_sink", "official_install", "shell_hard",
                         "shell_soft", "raw_ip_drop", "private_ip"}

\* buildPolicyInputs
Built(o) ==
  [facts |-> (o.seen \cap Plain) \cup Derived(o), class |-> ClassOf(Refine(o)),
   trust |-> TrustOf(o), mode |-> "normal", age |-> AgeOf(o.age), band |-> Replica(o),
   identity |-> Identity(o), named |-> o.named /\ Replica(o) # "none",
   tier2 |-> o.render # "skipped", rendered |-> Rendered(o)]

Policy == INSTANCE PolicyEngine WITH
  Facts <- EveryFact, MaxFacts <- Cardinality(EveryFact),
  Ages <- {"unknown", "days", "weeks", "young", "months", "old"},
  Bands <- {"none", "faint", "low", "weak", "high"}, in <- Built(obs)

\* Severity of the verdict the page gets.
Harm(o) == Policy!Severity(Policy!Verdict(Built(o)))

-----------------------------------------------------------------------------
(* Observations *)

\* What cannot be seen together: as in PolicyEngine, and a URL that is a consent page
\* of a provider is on its domain and is no download.
Exclusive ==
  {{"ss_hard", "ss_block", "ss_warn"}, {"feed_medium", "feed_two_medium"},
   {"vendor_dns", "vendor_dns_single"}, {"oauth", "raw_ip"},
   {"oauth", "direct_download"}, {"shell_soft", "soft_one"}, {"vetted", "vetted_one"},
   {"raw_ip", "private_ip"}}
NoMatch == [clip |-> "none", phash |-> "none", same |-> FALSE]
Possible(o) ==
  /\ HasAny(o, RenderSignals) \/ o.match # NoMatch => Rendered(o)
  /\ Has(o, "challenge") => o.match = NoMatch
  /\ o.match = NoMatch => o.record = "none" /\ ~o.named
  /\ o.match.clip = "none" \/ o.match.phash = "none" => ~o.match.same
  /\ Has(o, "cross_form") => Has(o, "password")
  /\ Has(o, "oauth_unknown") => Has(o, "oauth")
  /\ \A X \in Exclusive : Cardinality(X \cap o.seen) <= 1

PageInit ==
  /\ obs \in [seen : {{}}, url : UrlClasses, host : Hosts, age : PageAges,
              render : {"skipped", "failed", "done"}, match : Matches,
              record : Records, named : BOOLEAN]
  /\ Possible(obs)

Collect(s) ==
  /\ s \notin obs.seen
  /\ Cardinality(obs.seen) < MaxSignals
  /\ obs' = [obs EXCEPT !.seen = @ \cup {s}]
  /\ Possible(obs')

PageNext == \E s \in Signals : Collect(s)
PageSpec == PageInit /\ [][PageNext]_obs

-----------------------------------------------------------------------------
\* The policy engine only gets inputs its theorems are about.
BuildsWhatPolicyExpects == Built(obs) \in Policy!Inputs /\ Policy!Consistent(Built(obs))

\* What may hide other evidence: PolicyEngine's Masking, as a page shows it.
Masking ==
  {"vetted", "vetted_one", "shell_soft", "odd_host", "content", "feed_medium",
   "challenge", "clickjack"}
\* What may turn a page that asks for credentials into one that offers downloads,
\* where neither rule looks at the other's evidence.
Reclassifying == {"auto_download", "shell_hard", "soft_one"}

\* Seeing more of a page never weakens its final verdict, across the classifier, the
\* trust score and the policy: but for the signals that hide others, and for a page
\* turned into a download page by what it shows, which is then not held for where its
\* script sends what is typed or for a risky download.
MoreEvidenceNeverWeakens ==
  [][\A s \in Signals \ Masking :
       Collect(s) /\ obs.seen \cap Masking = {}
         /\ (s \in Reclassifying => ~HasAny(obs, {"js_sink", "risky_download"}))
       => Harm(obs') >= Harm(obs)]_obs

\* What is made of a page is what the policy expects, and more of it means no less harm.
EvidenceIsHeeded == []BuildsWhatPolicyExpects /\ MoreEvidenceNeverWeakens

\* policy.go:984-987: a single medium feed row is advisory, deeper rules (the visual
\* replica, a sink failure) can still upgrade it to a block.
FeedRowKeepsTheMatch ==
  Has(obs, "feed_medium") => Harm(obs) >= Harm([obs EXCEPT !.seen = @ \ {"feed_medium"}])
=============================================================================
