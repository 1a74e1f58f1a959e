SPECIFICATION BothSpec
CONSTANTS
  Aliases = {a, b}
  MaxDeps = 2
  BranchAttempts = 3
  QuickAttempts = 2
  AgentAttempts = 2
  MaxReviewPasses = 3
  MaxResets = 1
INVARIANTS NoOrphanInPlace SettlesTruthfully RowsTellTheTruth
PROPERTIES KeepsLifecycle DevelopGoesOn DevelopersWorkSurvives NeverRunsAway
