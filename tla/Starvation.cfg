SPECIFICATION FairSpec
CONSTANTS
  low = low high1 = high1 high2 = high2
  Jobs <- Three
  Priority <- Priorities
  UserPriority <- Priorities
  Size <- LongStream
  Count <- OneEach
  Capacity = 1
  Disparity = TRUE
  Overrun = 0
  MaxFailures = 0
  Step = 20
  Horizon = 120
PROPERTY NoStarvation
