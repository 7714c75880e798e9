CONSTANT
  Plans <- MCPlans
SPECIFICATION Spec
INVARIANTS
  CycleSearchExact
  RepairAlwaysSchedulable
  InnocentEdgesKept
PROPERTY CompilationEnds
