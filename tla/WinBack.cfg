SPECIFICATION Spec
CONSTANTS
  low = low high1 = high1 high2 = high2
  Jobs <- Two
  Priority <- UrgentJob
  UserPriority <- CrossedUsers
  Size <- OneShort
  Count <- OneEach
  Capacity = 1
  Disparity = FALSE
  Overrun = 0
  MaxFailures = 0
  Step = 20
  Horizon = 120
PROPERTY NoWinBack
