SPECIFICATION FairSpec
CONSTANTS
  Turns = {t1, t2}
  Models = {m1}
  MaxTurns = 3
  MaxStarts = 3
  MaxAborts = 1
  MaxUnloads = 1
  MaxChanges = 1
INVARIANTS
  EveryChildIsKnown ServerIsReplacedOnlyIfSlow LoadedIsTracked
PROPERTIES
  EveryTurnEnds
CHECK_DEADLOCK FALSE
