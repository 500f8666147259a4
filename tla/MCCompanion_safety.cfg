\* Delivery under loss, delay, crash, stop and revocation.
SPECIFICATION Spec
CONSTANTS
  tA = tA tB = tB p1 = p1 p2 = p2 p3 = p3 p4 = p4
  NoDraft = NoDraft
  TheDraft <- McDraft
  Truth <- McTruth
  MaxPart = 3
  Reloads <- Sometimes
  Decodes <- Sometimes
  MayFail = TRUE
  MayStop = TRUE
  MayRevoke = TRUE
  MaxCrashes = 1
  MaxFrames = 2
  MaxLate = 1
INVARIANTS
  TypeOK
  BoardIsTrue
  CursorIsTrue
  CheckpointIsAcked
  ReplayNeverConflicts
  DoneMeansDelivered
