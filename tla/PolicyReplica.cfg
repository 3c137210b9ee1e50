\* A match of unknown identity hides the rules behind it.
SPECIFICATION Spec
CONSTANTS
  Facts <- Distinct
  MaxFacts = 2
  Ages = {"unknown", "old"}
  Bands = {"none", "weak", "high"}
INVARIANTS
  LaterRulesStillFire
CHECK_DEADLOCK FALSE
