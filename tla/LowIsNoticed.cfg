SPECIFICATION FairSpec
CONSTANTS
  a = a
  b = b
  NoJob = NoJob
  Jobs <- Single
  Tier1 = 2
  Tier2 = 4
  Grace = 1
  Cooldown = 1
  Gaps <- Coarse
  Horizon = 5
PROPERTIES LowIsNoticed
