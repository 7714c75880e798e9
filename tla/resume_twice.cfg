CONSTANTS
  Process = {p, q}
  MaxRuns = 3
  MaxClock = 4
  Part = {s1}
  MaxCheckpoints = 1
SPECIFICATION Spec
INVARIANT
  NeverRestoredTwice
