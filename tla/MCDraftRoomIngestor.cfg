\* Polls or room frames, over loss, delay, death, corrections and a reset.
\* The ingestor and the draft both end.
CHECK_DEADLOCK FALSE
SPECIFICATION RoomSpec
CONSTANTS
  tA = tA tB = tB p1 = p1 p2 = p2 p3 = p3 px = px
  NoDraft = NoDraft
  TheDraft <- McRound
  Candidates <- McRivals
  MaxPart = 1
  MaxHoles = 1
  MaxTakeBacks = 1
  MaxFailures = 1
  MaxResets = 1
  MaxLate = 1
  MaxFrames = 2
INVARIANTS
  CheckpointIsAcked
  OnlyCorrectionsConflict
  CursorIsTrue
  DoneMeansAccounted
  RoomBoardIsTrue
PROPERTIES
  CommitMeansStored
