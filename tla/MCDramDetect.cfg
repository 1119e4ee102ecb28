SPECIFICATION Spec
CONSTANTS
  Low <- CodeLow
  Top <- CodeTop
  MaxMisses = 3
INVARIANTS TypeOK SizeIsRight MemoryKept
\* The detection ends.
CHECK_DEADLOCK FALSE
