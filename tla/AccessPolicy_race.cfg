SPECIFICATION Spec
CONSTANTS
  Chats = {a, b, c}
  Users = {u}
  Requesters = {a, b}
  Poll = Poll
  Nobody = Nobody
  MaxOps = 2
  MaxFailures = 0
  MaxRestarts = 0
INVARIANTS
  DenialHolds
