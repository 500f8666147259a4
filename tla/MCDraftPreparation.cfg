\* Builds from ESPN through a cache, and preparations from fixtures to the pin.
\* The preparation ends with a pinned catalog.
CHECK_DEADLOCK FALSE
SPECIFICATION Spec
CONSTANTS
  kona = kona ATL = ATL FA = FA ace = ace bob = bob cat = cat tA = tA tB = tB tC = tC
  Nothing = Nothing
  Damaged = Damaged
  NoNumber = NoNumber
  Sources <- McSources
  Contents <- McContents
  Fixtures <- McFixtures
  RoleSheets <- McRoleSheets
  FlagSheets <- McFlagSheets
  Leagues <- McLeagues
  Managed = tA
  Now = 1
  Retries = 1
  MaxCommands = 4
CONSTRAINT Bounded
INVARIANTS
  DepthIsBest
  ReleaseIsUsable
  SlotOrderIsTrue
  InitIsAccepted
PROPERTIES
  ResultIsCurrent
