SPECIFICATION DirectionsSpec
CONSTANTS
  Operators = {o1}
  Texts = {"text", "draft"}
  Round = "local-review"
  Direct <- DirectSkip
  MaxAttempts = 1
  MaxSignals = 1
  MaxReminders = 0
  TurnAttempts = 2
  MaxQuestions = 1
  MaxMessages = 3
  Keys = {"review.perform"}
  Wordings = {"short", "long"}
  Builds = {"old", "new"}
  Ships <- TwoBuilds
  Writers = {w1, w2}
  Units = {u1}
  Directory = "worktree"
  Repository = "checkout"
  MaxVersions = 3
  MaxPasses = 2
INVARIANTS DraftIsInTranscript RecordedStaysReadable WritersTakeTurns LoopRunsUnderOneVersion
PROPERTIES LateTurnChangesNoDecision
SYMMETRY Symmetry
CHECK_DEADLOCK FALSE
