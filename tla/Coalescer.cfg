\* Deduplication, its time bounds, and what callers are told.
SPECIFICATION Spec
CONSTANTS
  c1 = c1  c2 = c2  c3 = c3  k1 = k1
  None = None
  Callers <- ThreeCallers
  Keys = {k1}
  CoalesceTTL = 3
  FirstAttempt = 2
  RetryAttempt = 2
  Budgets <- RequestBudgets
  MaxTime = 8
SYMMETRY CallerSymmetry
CHECK_DEADLOCK FALSE
INVARIANTS RendersSpacedByTTL NoThreeRenders FollowerWaitBounded RetryKeepsThePage FollowersShareTheOutcome
