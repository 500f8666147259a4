\* Board integrity: all offers, batches of two, a clock that hardly moves.
SPECIFICATION Spec
CONSTANTS
  tA = tA tB = tB p1 = p1 p2 = p2 p3 = p3 p4 = p4 px = px
  n1 = n1 n2 = n2 n3 = n3 n4 = n4
  NoDraft = NoDraft
  Teams <- McTeams
  Players <- McPlayers
  EventIds <- McEventIds
  Nonces <- McNonces4
  DraftInits <- McInits
  Offers <- McOffers
  MaxBatch = 2
  StaleAfter = 1
  DeadAfter = 1
  NonceTtl = 1
  MaxDelay = 0
  MaxNow = 0
  MaxConflicts = 1
SYMMETRY Symmetric
INVARIANTS
  TypeOK
  BoardLegal
  CursorCoversBoard
  AdviceKnowsEveryPriorPick
PROPERTIES
  BoardWriteOnce
  ClockNeverRewinds
  RevisionTracksBoard
