SPECIFICATION FairSpec
CONSTANTS
  a = a
  b = b
  NoJob = NoJob
  Jobs <- Pair
  Tier1 = 2
  Tier2 = 3
  Grace = 1
  Cooldown = 1
  Gaps <- Steady
  Horizon = 4
INVARIANTS TypeOK EvidenceIsOfHolder
PROPERTIES PromptIsEarned ReclaimIsEarned PromptIsResolved LowIsNoticed
