\* Every pick reaches the board, over a network that fails again and again.
SPECIFICATION FairSpec
CONSTANTS
  tA = tA tB = tB p1 = p1 p2 = p2 p3 = p3 p4 = p4
  NoDraft = NoDraft
  TheDraft <- McShortDraft
  Truth <- McShortTruth
  MaxPart = 1
  Reloads <- Always
  Decodes <- Always
  MayFail = TRUE
  MayStop = FALSE
  MayRevoke = FALSE
  MaxCrashes = 1
  MaxFrames = 1
  MaxLate = 0
PROPERTIES
  PicksReachBoard
