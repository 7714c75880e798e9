CONSTANT
  Subtask <- MCSubtask
  Planned <- MCPlanned
  Graphs <- MCGraphs
  File = {"f", "g"}
  FilesOf <- MCOwnFilesOf
SPECIFICATION Spec
INVARIANT
  FinishedHoldsNoLock
