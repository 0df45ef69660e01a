SPECIFICATION FairSpec
CONSTANTS
  Chats = {a, b}
  Owners = {a}
  QueueSize = 1
  MaxMessages = 2
  MaxCommands = 2
  MaxFailures = 1
  None = None
INVARIANTS
  StrictOrderPerChat DenyReachesWorker NoWorkerOutlivesTheLoop
PROPERTIES
  RevokedIsNeverHandled QueuedIsTaken
