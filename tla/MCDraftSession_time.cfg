\* Freshness and replay: two slots' worth of offers, a clock that passes the
\* stale and dead thresholds and the nonce retention, calls that run late.
SPECIFICATION Spec
CONSTANTS
  tA = tA tB = tB p1 = p1 p2 = p2 p3 = p3 p4 = p4 px = px
  n1 = n1 n2 = n2 n3 = n3 n4 = n4
  NoDraft = NoDraft
  Teams <- McTeams
  Players <- McPlayers
  EventIds <- McEventIds
  Nonces <- McNonces2
  DraftInits <- McInits
  Offers <- McFewOffers
  MaxBatch = 1
  StaleAfter = 2
  DeadAfter = 3
  NonceTtl = 2
  MaxDelay = 1
  MaxNow = 5
  MaxConflicts = 1
SYMMETRY Symmetric2
INVARIANTS
  FreshAdviceHasEvidence
PROPERTIES
  NoncesOutliveTtl
  ImplementsBoard
