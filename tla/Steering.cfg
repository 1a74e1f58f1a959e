SPECIFICATION FairSpec
CONSTANTS
  Operators = {o1, o2}
  Texts = {}
  Round = "local-review"
  Direct <- Misdirected
  MaxAttempts = 2
  MaxSignals = 2
  MaxReminders = 1
INVARIANTS ActsOnRecordedDecision DecidedAnnouncedOnce
PROPERTIES KeepsPromise DeliveredDecisionEndsWait
