SPECIFICATION Spec
CONSTANTS
  Turns = {t1, t2}
  Models = {m1}
  MaxTurns = 1
  MaxStarts = 2
  MaxAborts = 1
  MaxUnloads = 0
  MaxChanges = 0
INVARIANTS
  NothingIsLeftRunning
CHECK_DEADLOCK FALSE
