SPECIFICATION Spec
CONSTANTS
  Human = Human
  Nobody = Nobody
  Workers = {w1, w2}
  Takeovers = {}
  Inputs = {}
  Captures = {}
  Teardowns = {detach}
  MaxQueued = 1
  MaxInLine = 2
INVARIANTS EndedHoldsNothing
