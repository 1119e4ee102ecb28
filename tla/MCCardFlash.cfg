SPECIFICATION Spec
CONSTANTS
  Builds = {b1, b2}
  MaxRuns = 3
  MaxCuts = 2
  MaxBadWrites = 1
  MaxMisreads = 1
INVARIANTS TypeOK OneGoodPath DoneMeansFlashed
PROPERTY SplComesFirst
SYMMETRY Interchangeable
\* The card is at rest once no run is left.
CHECK_DEADLOCK FALSE
