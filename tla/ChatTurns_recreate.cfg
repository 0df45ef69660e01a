SPECIFICATION Spec
CONSTANTS
  m1 = m1  m2 = m2  wA = wA  wB = wB  role = role  a = a  b = b  s = s  d = d
  Models = {m1, m2}
  DefaultModel = m1
  NoModel = NoModel
  WireFormats = {wA, wB}
  NoWire = NoWire
  WireOf <- OneFormat
  Roles = {role}
  NoRole = NoRole
  NoRoom = NoRoom
  TurnSizes = {1}
  MaxHistoryTurns = 2
  MaxHistoryBytes = 4
  Chats = {a, b}
  Nobody = Nobody
  Talkers = {a, b}
  Commands <- RecreateCommands
  Stalls = FALSE
  MaxTurns = 2
  MaxCommands = 3
  MaxResets = 1
  MaxFailures = 1
INVARIANTS
  NoTurnOfARemovedRoom
