SPECIFICATION Spec
CONSTANTS
  Chats = {a, b}
  Users = {u}
  Requesters = {a, b}
  Poll = Poll
  Nobody = Nobody
  MaxOps = 3
  MaxFailures = 1
  MaxRestarts = 1
INVARIANTS
  MemoryMatchesFile OwnersAreDurable AgreesUnlessRaced
PROPERTIES
  OnlyDenyRemoves
