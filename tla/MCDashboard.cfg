\* One page, with fetches that overtake each other and one reconnect.
SPECIFICATION FairSpec
CONSTANTS
  MaxRevision = 2
  StaleAfter = 1
  DeadAfter = 2
  Offline = 1
  MaxTime = 2
  MaxFetches = 2
  MaxSockets = 2
  MaxFailures = 1
  Nothing = Nothing
INVARIANTS
  OneChannel
  LiveMeansLive
PROPERTIES
  PageSettles
  AdviceWithdrawn
