SPECIFICATION Spec
CONSTANTS
  MaxReviewPasses = 3
  QuickAttempts = 2
  AgentAttempts = 2
  MaxResets = 1
INVARIANT ConvergedRestoresStash
