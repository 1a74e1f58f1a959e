SPECIFICATION HubSpec
CONSTANTS
  Callers = {"ana", "ben"}
  Requests = {"r1", "r2", "r3"}
  Typed = {"main", "main/sub", "home"}
  Trees = {"main", "shared"}
  NoTree = "none"
  Probe <- MCProbe
  Target <- MCTarget
  Isolated = {"r2"}
  Elsewhere = "shared"
  MaxCalls = 3
  Chains = {1, 2}
  Looping = {1}
  Fired = {}
  Opened = {1}
  MaxRuns = 3
  MaxEvents = 1
  Limit = 1
  MaxLimit = 1
  Directories = {1, 2, 3, 4}
  Malformed = {4}
  Remotes = {5}
  Unknown = 9
  MaxFacts = 3
INVARIANTS OverviewTellsTheTruth RequestsAreIdempotent NeverCollidesKnowingly PublishesOneTree
PROPERTIES HidesWhatWasSeen
CHECK_DEADLOCK FALSE
