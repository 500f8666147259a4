\* Does the ingestor close every gap?
\* The ingestor and the draft both end.
CHECK_DEADLOCK FALSE
SPECIFICATION FairSpec
CONSTANTS
  tA = tA tB = tB p1 = p1 p2 = p2 p3 = p3 p4 = p4 px = px
  NoDraft = NoDraft
  TheDraft <- McDraft
  Candidates <- McCandidates
  MaxPart = 2
  MaxHoles = 1
  MaxTakeBacks = 0
  MaxFailures = 1
  MaxResets = 0
  MaxLate = 0
PROPERTIES
  FilledSlotsReachBoard
