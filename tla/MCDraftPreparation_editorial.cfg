\* The reviewed Sheet's flags on their way to the draft-night scores.
CHECK_DEADLOCK FALSE
SPECIFICATION Spec
CONSTANTS
  kona = kona ATL = ATL FA = FA ace = ace bob = bob cat = cat tA = tA tB = tB tC = tC
  Nothing = Nothing
  Damaged = Damaged
  NoNumber = NoNumber
  Sources <- McSources
  Contents <- McContents
  Fixtures <- McFixtures
  RoleSheets <- McRoleSheets
  FlagSheets <- McFlagSheets
  Leagues <- McLeagues
  Managed = tA
  Now = 1
  Retries = 1
  MaxCommands = 4
CONSTRAINT Bounded
INVARIANT EditorialReachesAdvice
