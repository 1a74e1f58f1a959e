SPECIFICATION Spec
CONSTANTS
  Operators = {o1, o2}
  Texts = {"text"}
  Round = "local-review"
  Direct <- NoDirect
  MaxAttempts = 1
  MaxSignals = 2
  MaxReminders = 0
INVARIANT LoopGoneStopsAsking
