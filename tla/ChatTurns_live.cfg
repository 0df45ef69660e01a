SPECIFICATION FairSpec
CONSTANTS
  m1 = m1  m2 = m2  wA = wA  wB = wB  role = role  a = a  b = b  s = s  d = d
  Models = {m1, m2}
  DefaultModel = m1
  NoModel = NoModel
  WireFormats = {wA, wB}
  NoWire = NoWire
  WireOf <- TwoFormats
  Roles = {role}
  NoRole = NoRole
  NoRoom = NoRoom
  TurnSizes = {1}
  MaxHistoryTurns = 2
  MaxHistoryBytes = 4
  Chats = {a, b}
  Nobody = Nobody
  Talkers = {a, b}
  Commands <- LockCommands
  Stalls = TRUE
  MaxTurns = 1
  MaxCommands = 2
  MaxResets = 0
  MaxFailures = 1
PROPERTIES
  WorkerFinishes
