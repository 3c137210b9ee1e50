------------------------------- MODULE PageUrl -------------------------------
(***************************************************************************)
(* What verdict-api makes of a URL before it fetches anything: the class   *)
(* of the page (internal/pageclass, FromURL and LooksLikeDevToolInstall-   *)
(* Lure) and whether a sandbox render is due (internal/httpgw/pipeline.go, *)
(* shouldRunTier2 and the dispatch around it).                             *)
(*                                                                         *)
(* A host's first label is a sequence of words joined by hyphens, a path   *)
(* a sequence of segments named by the keyword they begin with.  A step    *)
(* puts one more word or segment at the end, so that URLs of every form    *)
(* are met and compared with the one they extend.                          *)
(***************************************************************************)
EXTENDS Integers, Sequences, FiniteSets, SequencesExt

CONSTANTS
  HostWords,  \* words of the label
  Segments,   \* segments of the path
  MaxWords,   \* bound on the words
  MaxSegments \* bound on the segments

ASSUME UrlBoundsAssumption == MaxWords \in Nat /\ MaxSegments \in Nat

VARIABLE url   \* [www, label: words, slash: the path is not empty, path: segments, zone]

\* What the rest of the host is: a registrable domain, a platform whose subdomains
\* anyone may have, a cheap top-level domain, an address, a URL shortener.
Zones == {"plain", "shared", "cheap", "address", "shortener"}
\* What tier 1 scores: under 0.2, under 0.4, more.
SignalBands == {"calm", "some", "strong"}
TierHints == {"none", "light", "medium", "deep"}
\* The circumstances of a check.
Visits == [tier : TierHints, rescan : BOOLEAN, operator : BOOLEAN, trusted : BOOLEAN,
           opener : BOOLEAN, signals : SignalBands]

-----------------------------------------------------------------------------
(* The class of the page *)

Words(u) == ToSet(u.label)
Compound(u, w) == w \in Words(u) /\ Len(u.label) > 1

\* The word right after "//".
FirstWord(u) == IF u.www THEN "www" ELSE u.label[1]

\* Where FromURL looks for "/keyword": the path or, when it is empty, the whole URL.
Slashed(u) == IF u.slash THEN ToSet(u.path) ELSE {FirstWord(u)}

\* In this order.
PathRules ==
  << [words |-> {"oauth", "authorize", "consent", "adminconsent"}, class |-> "OAuthConsent"],
     [words |-> {"mfa", "2fa", "otp", "totp", "passkey", "webauthn"}, class |-> "MFA"],
     [words |-> {"password", "pwd"}, class |-> "PasswordStep"],
     [words |-> {"login", "signin", "verify", "recover", "reset"}, class |-> "Login"],
     [words |-> {"payment", "pay", "checkout", "billing", "wallet"}, class |-> "Payment"],
     [words |-> {"withdraw", "crypto"}, class |-> "CryptoWithdrawal"],
     [words |-> {"invoice"}, class |-> "Invoice"] >>

DevToolBrands == {"rust", "docker", "vscode", "terraform", "python", "claude"}
InstallHints ==
  {"docs", "install", "download", "getting-started", "quickstart", "setup", "guide",
   "tutorial", "cli"}

\* LooksLikeDevToolInstallLure: an install path on a host or with a segment of a tool's
\* name, or on a host that is named for installing.
InstallLure(u) ==
  /\ ({FirstWord(u)} \cup ToSet(u.path)) \cap InstallHints # {}
  /\ \/ (Words(u) \cup ToSet(u.path)) \cap DevToolBrands # {}
     \/ "install" \in Words(u)
     \/ Compound(u, "setup")

\* Names of files that FromURL takes for downloads.
Executables == {"app.exe", "app.jar", "app.apk"}
EndsIn(u, files) == u.path # <<>> /\ Last(u.path) \in files

\* The branches of the label, in this order.
LabelClass(u) ==
  IF \/ Words(u) \cap {"login", "signin", "secure", "verify", "account", "auth", "oauth", "logon"} # {}
     \/ Compound(u, "bank") \/ Compound(u, "update")
     \/ u.label[1] \in {"wellsfargo", "chase", "hsbc"} /\ Len(u.label) > 1
  THEN "Login"
  ELSE IF Words(u) \cap {"checkout", "payment", "billing"} # {} \/ Compound(u, "pay")
  THEN "Payment"
  ELSE IF Words(u) \cap {"wallet", "metamask"} # {} THEN "CryptoWithdrawal"
  ELSE "Generic"

FromURL(u) ==
  LET hits == SelectSeq(PathRules, LAMBDA r : r.words \cap Slashed(u) # {})
  IN IF hits # <<>> THEN hits[1].class
     ELSE IF InstallLure(u) THEN "DeveloperToolInstallLure"
     ELSE IF "download" \in Slashed(u) \/ EndsIn(u, Executables) THEN "Download"
     ELSE LabelClass(u)

IsSensitive(class) == class # "Generic"

-----------------------------------------------------------------------------
(* Whether to render *)

\* What shouldRunTier2 looks for anywhere in the URL.
Hinted(u) ==
  \/ (Words(u) \cup ToSet(u.path)) \cap
       ({"login", "signin", "verify", "secure", "account", "wallet", "download"} \cup Executables) # {}
  \/ u.zone \in {"shared", "cheap"}

\* Faulty variant: the hints alone decide.
ShouldRunTier2Hints(u, signals) ==
  signals # "calm" \/ u.zone = "address" \/ InstallLure(u) \/ Hinted(u)

ShouldRunTier2(u, signals) ==
  signals # "calm" \/ u.zone = "address" \/ IsSensitive(FromURL(u)) \/ InstallLure(u) \/ Hinted(u)

\* The scheduler's tier, the rescan button, or the operator's wish for unknown hosts.
ForceTier2(v) == v.tier \in {"medium", "deep"} \/ v.rescan \/ (v.operator /\ ~v.trusted)

\* Of its own accord, but for a shortener's page and for a trusted host without a
\* strong signal.
AutoTier2(u, v) ==
  /\ ShouldRunTier2(u, v.signals) \/ v.opener
  /\ u.zone # "shortener"
  /\ ~(v.trusted /\ v.signals # "strong")

RunTier2(u, v) == v.tier # "light" /\ (ForceTier2(v) \/ AutoTier2(u, v))

-----------------------------------------------------------------------------
UrlInit ==
  /\ url \in [www : BOOLEAN, label : {<<w>> : w \in HostWords}, slash : BOOLEAN,
              path : {<<>>}, zone : Zones]
  /\ url.zone \in {"address", "shortener"} => ~url.www

\* A request for a host of one more word.
ExtendLabel ==
  /\ Len(url.label) < MaxWords /\ url.path = <<>>
  /\ \E w \in HostWords : url' = [url EXCEPT !.label = Append(@, w)]

\* A request for a page further down.
ExtendPath ==
  /\ Len(url.path) < MaxSegments
  /\ \E s \in Segments : url' = [url EXCEPT !.slash = TRUE, !.path = Append(@, s)]

UrlNext == ExtendLabel \/ ExtendPath
UrlSpec == UrlInit /\ [][UrlNext]_url

-----------------------------------------------------------------------------
\* A page that looks sensitive is rendered before it is judged, unless the host is
\* trusted and calm, is a shortener's own, or the caller asked for the light tier; so is
\* every page on a bare address.
SensitiveIsRendered ==
  IsSensitive(FromURL(url)) \/ url.zone = "address" =>
    \A v \in Visits :
      \/ v.tier = "light" \/ url.zone = "shortener" \/ (v.trusted /\ v.signals # "strong")
      \/ RunTier2(url, v)

\* What looks like an install lure is never of a class that is not sensitive, whichever
\* branch of FromURL takes it: the policy's rules for commands need one.
LuresAreSensitive == InstallLure(url) => IsSensitive(FromURL(url))

\* Going further down a path loses no sensitive class but that of a file's name.
GrowingStaysSensitive ==
  [][url.slash /\ IsSensitive(FromURL(url)) /\ ~EndsIn(url, Executables) /\ url'.label = url.label
       => IsSensitive(FromURL(url'))]_url

\* No sensitive page slips by the render: not by the order of the tests, not as an
\* install lure that another branch takes, and not for a longer path.
SensitiveAreSeen == [](SensitiveIsRendered /\ LuresAreSensitive) /\ GrowingStaysSensitive

\* pageclass.go:158-170: keywords at the start of the host do not count as a path.
SlashIsImmaterial ==
  url.path = <<>> => FromURL([url EXCEPT !.slash = TRUE]) = FromURL([url EXCEPT !.slash = FALSE])
=============================================================================
