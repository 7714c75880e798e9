SPECIFICATION Spec
CONSTANTS
  Human = Human
  Nobody = Nobody
  Workers = {w1, w2, w3}
  Takeovers = {take}
  Inputs = {key}
  Captures = {show}
  Teardowns = {detach}
  MaxQueued = 1
  MaxInLine = 2
INVARIANTS OneUser NobodyWaitsInVain HoldHasDeadline HandBackNotUndone
PROPERTIES ImplementsSlotQueue SequenceKept ForgottenHoldEnds
