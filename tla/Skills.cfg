SPECIFICATION Spec
CONSTANTS
  a = a  b = b  Names = {a, b}
  Threads = {t1, t2}  NoThread = NoThread
  Starts <- MCStarts  FirstText = 2
  MaxCalls = 4  MaxFaults = 1  MaxCrashes = 1
SYMMETRY Symmetry
CONSTRAINT LastAlone
INVARIANTS CreatesExclude
PROPERTIES RevertRestores NothingLost
CHECK_DEADLOCK FALSE
