SPECIFICATION FairSpec
CONSTANTS
  MaxFaults = 3
  MaxOps = 3
INVARIANTS TypeOK AttemptIsOnRecord WatchdogCovers UsbCatchWorks
PROPERTIES NoDfuLoop Recovers RequestIsServed KeepsPromise
\* A parked board with no operator left really stops.
CHECK_DEADLOCK FALSE
