------------------------------- MODULE MCPages -------------------------------
(***************************************************************************)
(* Instances of what is read from a page: its name, its URL, its text and  *)
(* its render.  `part` says which of the four is looked at, and the state  *)
(* of the others stays what it is in the beginning.                        *)
(***************************************************************************)
EXTENDS ScamScores, PageEvidence, HostShape, PageUrl

VARIABLE part

vars == <<part, scamVars, obs, shapeVars, url>>

(* PageEvidence: every rule of the visual match, and the signals that the  *)
(* classifier and the policy tell apart.                                   *)
Match(c, p, s) == [clip |-> c, phash |-> p, same |-> s]
MCMatches ==
  {NoMatch, Match("high", "none", FALSE), Match("weak", "none", FALSE),
   Match("low", "none", FALSE), Match("faint", "edge", FALSE),
   Match("low", "near", FALSE), Match("low", "near", TRUE)}
MCSignals ==
  {"password", "cross_form", "popups", "dialogs", "fullscreen", "auto_download",
   "vetted", "vetted_one", "shell_hard", "shell_soft", "soft_one", "yara", "clickjack",
   "obfuscated_js", "risky_download", "js_sink", "challenge", "oauth", "oauth_unknown",
   "ss_block", "content", "feed_high", "feed_medium", "vendor_dns", "vendor_dns_single",
   "homoglyph", "odd_host", "raw_ip", "direct_download", "private_ip"}

(* HostShape: a keyword under six letters, for which two edits are too     *)
(* many, and one with room for them.                                       *)
MCKeywords == <<<<"z", "o", "o", "m">>, <<"g", "o", "o", "g", "l", "e">>>>
\* Two that are near one another.
MCNearKeywords == <<<<"z", "o", "o", "m">>, <<"z", "o", "o", "n">>>>

-----------------------------------------------------------------------------
\* The other parts' one state, for the part that moves.
OneScam == scorer = "support" /\ ~listed
OnePage == obs = CHOOSE o \in {[seen |-> {}, url |-> u, host |-> h, age |-> a, render |-> "skipped",
                                match |-> NoMatch, record |-> "none", named |-> FALSE]
                              : u \in UrlClasses, h \in Hosts, a \in PageAges} : TRUE
OneShape == host = MCKeywords[1]
OneUrl == url.label = <<"shop">> /\ ~url.www /\ ~url.slash /\ url.zone = "plain"

MCInit ==
  /\ part \in {"text", "page", "name", "url"}
  /\ ScamInit /\ PageInit /\ ShapeInit /\ UrlInit
  /\ (part # "text" => OneScam) /\ (part # "page" => OnePage)
  /\ (part # "name" => OneShape) /\ (part # "url" => OneUrl)

MCNext ==
  \/ part = "text" /\ ScamNext /\ UNCHANGED <<part, obs, shapeVars, url>>
  \/ part = "page" /\ PageNext /\ UNCHANGED <<part, scamVars, shapeVars, url>>
  \/ part = "name" /\ ShapeNext /\ UNCHANGED <<part, scamVars, obs, url>>
  \/ part = "url" /\ UrlNext /\ UNCHANGED <<part, scamVars, obs, shapeVars>>

MCSpec == MCInit /\ [][MCNext]_vars

-----------------------------------------------------------------------------
\* HostShape's properties, of which two take TLC a while, where the name moves.
NamesAreSought ==
  /\ [](part = "name" => DistanceCountsEdits /\ LookAlikesAreFound)
  /\ EditsMoveByOne
=============================================================================
