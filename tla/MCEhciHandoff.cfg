SPECIFICATION FairSpec
CONSTANTS
  Tries = 4
  Reclaims = 4
  HubTries = 5
  MaxPlugs = 3
INVARIANTS ReclaimsPerVisit NoDeadPort
PROPERTIES FullSpeedSettles ReadyInTimeIsHighSpeed
\* A settled port with no cable left to move stays as it is.
CHECK_DEADLOCK FALSE
