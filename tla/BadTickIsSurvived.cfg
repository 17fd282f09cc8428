CONSTANTS
  g1 = g1 g2 = g2
  a = a c = c
  low = low high = high
  GPUs = {g1, g2}
  Jobs = {a, c}
  Users <- TwoUsers
  Owner <- OwnerAC
  Count <- CountAC
  Urgent = {}
  Rank <- TwoRanks
  SizeDisparity = TRUE
  NoJob = NoJob
  NoUser = NoUser
  Scenarios <- Completing
  OnDemand = {c}
  Grace = 2
  Horizon = 4
  Parked <- Failing
  Monitored = {}
  Strides = {2}
  NoScenario = NoScenario
SPECIFICATION SessionSpec
PROPERTY BadTickIsSurvived
