SPECIFICATION Spec
CONSTANTS
  Keys = {"gpt", "local", "xai"}
  Chats = {"1", "2", "3"}
  BotName = "tellm"
  Default = "gpt"
  Entry <- MCEntry
  Presets = {"xai"}
  Can <- MCCan
  Messages <- MCMessages
  InitialConfig <- MCConfig
  QueueSize = 1
  StaleAfter = 0
  MaxUpdates = 2
  MaxTime = 1
  MaxStops = 1
  MaxFailures = 1
INVARIANTS
  NothingSlipsOrRepeats LoadsAgain RedeliveryIsHarmless
PROPERTIES OldCommandsDoNotAct
CHECK_DEADLOCK FALSE
