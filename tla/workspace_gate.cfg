SPECIFICATION Spec
CONSTANTS
  p1 = p1
  p2 = p2
  p3 = p3
  a = a
  b = b
  c = c
  d = d
  e = e
  NoProcess = NoProcess
  Processes <- AllProcesses
  Callers <- AllCallers
  ProcessOf <- AllProcessOf
  ModesOf <- AllModesOf
  Mortal = {p1}
  Unseen = {p1}
INVARIANTS Exclusion NothingLeftBehind
PROPERTIES PendingKeepsOut FirstComeFirstServed AloneServed
