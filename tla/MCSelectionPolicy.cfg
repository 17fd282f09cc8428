SPECIFICATION FairSpec
CONSTANTS
  low = low high1 = high1 high2 = high2
  Jobs <- Three
  Priority <- Priorities
  UserPriority <- MixedUsers
  Size <- ShortStream
  Count <- LowNeedsTwo
  Capacity = 2
  Disparity = TRUE
  Overrun = 0
  MaxFailures = 1
  Step = 20
  Horizon = 120
INVARIANT TypeOK
PROPERTIES NoOvertaking FullyAgedFirst NoWinBackFromBelow FirstTimersAreServed
