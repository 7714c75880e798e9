SPECIFICATION Spec
CONSTANTS
  a = a
  b = b
  f = f
  Callers <- AllCallers
  ShapesOf <- AllShapes
  Cap = 5
  SessionCap = 7
  MinAnswer = 1
  MaxLocal = 1
  Overrun = 1
  MaxRuns = 2
INVARIANTS LedgerExact SlotsExact ReserveKept StopsAtCap
PROPERTIES ImplementsSlotQueue ShutForGood StragglersSettleApart
