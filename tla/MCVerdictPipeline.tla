------------------------ MODULE MCVerdictPipeline ------------------------
(* VerdictPipeline on two requests and the pages of one domain. *)
EXTENDS VerdictPipeline, TLC

\* Pages of https://pay.example: home is its page "/", bare the same without the slash,
\* whose class is read from the host and is Payment; file is /app.exe, a download.
CONSTANTS r1, r2, home, bare, file, login

TwoRequests == {r1, r2}
HomeOnly == {home}
HomeAndLogin == {home, login}
AllPages == {home, bare, file}
BareOnly == {bare}
BareAndFile == {bare, file}
LoginOnly == {login}
NoPages == {}

TrimSlash == [u \in Urls |-> IF u = home THEN bare ELSE u]

Ask(u, m) ==
  [url |-> u, mode |-> m, force |-> FALSE, tier |-> "auto", ip |-> "none",
   filter |-> FALSE]
Rescan(u) == [Ask(u, "normal") EXCEPT !.force = TRUE]
Scan(u, t) == [Rescan(u) EXCEPT !.tier = t]

\* Ordinary, elevated and forced requests for three pages of a domain, one of them from a
\* user with the category filter.
Mixed ==
  {Ask(home, "normal"), Ask(home, "paranoid"), Ask(home, "ultra"), Rescan(home),
   Ask(bare, "normal"), [Ask(file, "normal") EXCEPT !.filter = TRUE]}
\* What can make two requests wait for each other's render.
Waiting == {Ask(home, "normal"), Rescan(home), Scan(home, "light")}

\* The few requests that show each disagreement.
TwoPages == {Ask(home, "normal"), Ask(file, "normal")}
WithAndWithoutSlash == {Ask(home, "normal"), Ask(bare, "normal")}
ParanoidAndNormal == {Ask(home, "normal"), Ask(home, "paranoid")}
Connections == {[Ask(home, "normal") EXCEPT !.ip = i] : i \in {"none", "public"}}
Hijacked == {[Ask(home, "normal") EXCEPT !.ip = i] : i \in {"none", "private"}}
Filters == {[Ask(home, "normal") EXCEPT !.filter = f] : f \in BOOLEAN}
LoginTwice == {Ask(login, "normal")}
LightLogin == {Scan(login, "light")}
MediumScan == {Scan(home, "medium")}
UltraHome == {Ask(home, "ultra")}

Unlisted == {"no"}
ContentListed == {"content"}
CleanOnly == {"clean"}
CleanOrChallenge == {"clean", "challenge"}

RequestSymmetry == Permutations(Requests)
==========================================================================
