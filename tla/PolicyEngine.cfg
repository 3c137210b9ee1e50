SPECIFICATION Spec
CONSTANTS
  Facts <- Distinct
  MaxFacts = 2
  Ages = {"unknown", "weeks", "months", "old"}
  Bands = {"none", "weak", "high"}
CHECK_DEADLOCK FALSE
INVARIANTS NoStageWeakens HardEvidenceBlocks UnseenSensitiveNotAllowed MatchNeedsCorroboration CorroboratedMatchActs
PROPERTIES OnlyTrustRelaxes StricterModeNeverWeakens
