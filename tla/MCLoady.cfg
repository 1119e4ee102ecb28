SPECIFICATION Spec
CONSTANTS
  Blocks = 4
  SeqMod = 3
  Tries = 3
  Uploads = 2
  MaxRuns = 2
  MaxNoise = 3
  MaxStalls = 1
INVARIANTS TypeOK ReturnMeansLoaded AckedIsStored
PROPERTY NoNeedlessFailure
\* No run is left.
CHECK_DEADLOCK FALSE
