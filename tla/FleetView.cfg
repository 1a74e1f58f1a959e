SPECIFICATION FairSpec
CONSTANTS
  NodeIDs = {1, 2, 3}
  MaxAttempts = 2
  MaxLimit = 3
INVARIANTS RunsOnReviewedWork CompletedTellsTheTruth RowHoldsBreakdown
PROPERTIES PublishedMovesForward FleetEnds
