SPECIFICATION Spec
CONSTANTS
  Chats = {a, b}
  Owners = {a}
  QueueSize = 1
  MaxMessages = 3
  MaxCommands = 2
  MaxFailures = 1
  None = None
INVARIANTS
  StrictOrderPerChat DenyReachesWorker NoWorkerOutlivesTheLoop
PROPERTIES
  RevokedIsNeverHandled
