SPECIFICATION Spec
CONSTANTS
  m1 = m1  m2 = m2  wA = wA  wB = wB  role = role  a = a  b = b  s = s  d = d
  Models = {m1, m2}
  DefaultModel = m1
  NoModel = NoModel
  WireFormats = {wA, wB}
  NoWire = NoWire
  WireOf <- TwoFormats
  Roles = {role}
  NoRole = NoRole
  NoRoom = NoRoom
  TurnSizes = {1, 4}
  MaxHistoryTurns = 2
  MaxHistoryBytes = 4
  Chats = {a}
  Nobody = Nobody
  Talkers = {a}
  Commands <- ResetCommands
  Stalls = TRUE
  MaxTurns = 4
  MaxCommands = 3
  MaxResets = 2
  MaxFailures = 1
INVARIANTS
  NoResurrectedTurn HistoryBounded MessageModeKeepsLatestTurn OneContextPerHistory
PROPERTIES
  AnswerLostOnlyByReset
