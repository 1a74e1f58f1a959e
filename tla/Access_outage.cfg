SPECIFICATION OutageSpec
CONSTANTS
  Tabs = {t1, t2}
  Subjects = {ann}
  MaxSignIns = 2
  SessionLifetime = 2
  SignInLifetime = 1
  TokenLifetime = 1
  MaxTime = 2
  Rotates = FALSE
INVARIANT OutageSignsNobodyOut
CHECK_DEADLOCK FALSE
