SPECIFICATION Spec
CONSTANTS
  Writers = {"e1", "e2"}
  Writes <- MCWrites
  Readers = {"r"}
  Follows <- MCFollows
  Limit = 1
  Batch = 1
  MaxConnects = 1
INVARIANT HubEventsMissNothing
CHECK_DEADLOCK FALSE
