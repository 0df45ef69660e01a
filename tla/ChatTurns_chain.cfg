SPECIFICATION Spec
CONSTANTS
  m1 = m1  m2 = m2  wA = wA  wB = wB  role = role  a = a  b = b  s = s  d = d
  Models = {m1, m2}
  DefaultModel = m1
  NoModel = NoModel
  WireFormats = {wA, wB}
  NoWire = NoWire
  WireOf <- OneFormat
  Roles = {role}
  NoRole = NoRole
  NoRoom = NoRoom
  TurnSizes = {1}
  MaxHistoryTurns = 2
  MaxHistoryBytes = 4
  Chats = {a, b, s, d}
  Nobody = Nobody
  Talkers = {a}
  Commands <- DenyChain
  Stalls = FALSE
  MaxTurns = 1
  MaxCommands = 3
  MaxResets = 0
  MaxFailures = 0
INVARIANTS
  DeniedRoomIsEmpty
