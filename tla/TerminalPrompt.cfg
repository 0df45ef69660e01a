SPECIFICATION FairSpec
CONSTANTS
  Names = {n1, n2}
  Readers = {r}
  Chats = {a, b}
  MaxValues = 2
  MaxPrompts = 2
  MaxLines = 2
INVARIANTS
  NoOldKey KeyGoesWhereItWasAskedFor CutShortOnlyByNamesake
PROPERTY SlotIsFreed
CHECK_DEADLOCK FALSE
