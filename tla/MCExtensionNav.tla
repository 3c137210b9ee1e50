--------------------------- MODULE MCExtensionNav ---------------------------
(***************************************************************************)
(* Instances of ExtensionNav.  A plain page, a sensitive one, and the      *)
(* plain page's URL with the slash that normalizeForToken takes off.       *)
(***************************************************************************)
EXTENDS ExtensionNav, TLC

CONSTANTS plain, login, slashed, t1, t2, k1, k2, k3

Handlers == Permutations(Tasks)
HandlersAndTabs == Permutations(Tasks) \cup Permutations(Tabs)

Exact == [u \in Urls |-> u]
Slash == [u \in Urls |-> IF u = slashed THEN plain ELSE u]

Used(t) == tab[t] # Blank \/ pending[t] # None
Together == \E s, t \in Tabs : s # t /\ Used(s) /\ Used(t)

\* All of it at once is too much: both tabs are in use only within one moment,
\* by a user who trusts no host for the day; the storage fails only then, and
\* the browser restarts only when one tab is in use, and never again two.
TogetherInOneMoment ==
  LET storageFails == <<tab, pending, page>>' = <<tab, pending, page>>
  IN  /\ Together' => now' = 0 /\ temp' = {}
      /\ ~Together /\ Together' => faults = 0
      /\ faults' # faults => (Together' <=> storageFails)
=============================================================================
