SPECIFICATION Spec
CONSTANTS
  Tabs = {t1, t2}
  Subjects = {ann}
  MaxSignIns = 2
  SessionLifetime = 2
  SignInLifetime = 1
  TokenLifetime = 1
  MaxTime = 2
  Rotates = FALSE
SYMMETRY Symmetry
INVARIANTS SessionsAreGenuine
PROPERTIES EndsOnlyWhenOver
CHECK_DEADLOCK FALSE
