SPECIFICATION Spec
CONSTANTS
  Chats = {a, b}
  Ttl = 3
  Window = 2
  Lockout = 2
  MaxAttempts = 2
  MaxTime = 5
  MaxDecisions = 1
INVARIANTS
  AttemptsBounded CodeIsPrinted
PROPERTIES
  PairsWithFreshCode
SYMMETRY ChatsAreAlike
