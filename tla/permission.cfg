CONSTANTS
  Request = {r1, r2}
  Tool = {"shell", "note", "read"}
  Section = {"s1", "s2"}
  Dangerous = {"shell"}
  Safe = {"read"}
  Calls <- MCCalls
SPECIFICATION Spec
INVARIANT GrantHasMandate
PROPERTIES NothingForTheGone EveryRequestAnswered
