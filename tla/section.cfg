CONSTANT
  Subtask <- MCSubtask
  Planned <- MCPlanned
  Graphs <- MCGraphs
  File = {"f", "g"}
  FilesOf <- MCFilesOf
SPECIFICATION Spec
INVARIANTS
  TypeOK
  TakenLockIsHeld
  InputsStand
  BusAgreesWithResults
PROPERTIES
  VerdictStands
  SectionEnds
