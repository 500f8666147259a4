\* Does an undecodable room stop the advice?
SPECIFICATION FairSpec
CONSTANTS
  tA = tA tB = tB p1 = p1 p2 = p2 p3 = p3 p4 = p4
  NoDraft = NoDraft
  TheDraft <- McDraft
  Truth <- McTruth
  MaxPart = 3
  Reloads <- Always
  Decodes <- Never
  MayFail = FALSE
  MayStop = FALSE
  MayRevoke = FALSE
  MaxCrashes = 0
  MaxFrames = 1
  MaxLate = 1
PROPERTIES
  UnrecognizedStopsAdvice
