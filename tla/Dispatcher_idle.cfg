SPECIFICATION FairSpec
CONSTANTS
  Chats = {a, b}
  Owners = {a}
  QueueSize = 1
  MaxMessages = 2
  MaxCommands = 0
  MaxFailures = 0
  None = None
PROPERTIES
  LostOnlyByDeny
