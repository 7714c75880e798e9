CONSTANT
  Node <- MCNode
  Graphs <- MCGraphs
SPECIFICATION Spec
INVARIANTS
  DependencyOrder
  BlockedIffFailedUpstream
  BlockedByNamesCauses
PROPERTIES
  ImplementsPlan
  RunCompletes
