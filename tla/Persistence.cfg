SPECIFICATION Spec
CONSTANTS
  Files = {config, rooms}
  Tasks = {s, t}
  MaxChanges = 2
  MaxFailures = 2
  MaxCrashes = 2
INVARIANTS
  ReportedSurvives MemoryMatchesDisk
PROPERTY Implements
CHECK_DEADLOCK FALSE
