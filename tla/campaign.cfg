SPECIFICATION Spec
CONSTANTS
  N = 3
  Loaded <- MCLoaded
  MaxDrifts = 2
  MaxCalibrations = 1
  Overlap = FALSE
  MaxKills = 2
INVARIANT TypeOK
INVARIANT AnalysedShareEpoch
INVARIANT CompleteIsComplete
PROPERTY ValidIsMeasured
PROPERTY KeepsSchedule
PROPERTY OverForGood
