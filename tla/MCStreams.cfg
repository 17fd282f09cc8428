SPECIFICATION FairSpec
CONSTANTS
  console = console feed = feed request = request
  Viewers <- Console
  Listeners <- Feed
  Requests <- OneRequest
  Kinds <- Roles
  Kind <- ViewerKind
  Sees <- Everything
  History = 2
  MaxVersion = 4
  MaxEvents = 4
INVARIANTS TypeOK NothingTwice NothingMissed EveryChangeShown
PROPERTY ClockGoesOn
