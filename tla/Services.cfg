SPECIFICATION ServicesSpec
CONSTANTS
  MaxThreads = 2
  PageSize = 2
  QuickAttempts = 2
  AgentAttempts = 2
  Details = {"undecided", "addressed", "nothing", "stopped"}
  Contexts <- MCContexts
  HubOnly = {"hub"}
  Processes = {"old", "new", "api"}
  Kind <- MCKind
  DevMode = {"new"}
  Carries <- MCCarries
  MaxRuns = 2
  Writers = {"t1", "t2", "e1", "e2"}
  Written <- MCWritten
  Readers = {"r1", "r2"}
  Follows <- MCFollows
  Limit = 1
  Batch = 1
  MaxConnects = 2
  maxResumes = 2
  MaxAttempts = 2
  MaxEvents = 3
  Managed = {"w1", "w2"}
  Others = {"main"}
  NodeIDs = {1, 2}
  GraphNodes = {1, 2, 3, 4}
  Contents = {"edit", "other edit"}
  Pristine = "clean"
  StoreAttempts = 2
  Notices = {"waiting", "reminder", "done"}
  Unkept = {"done"}
  Recipient <- MCRecipient
  Everybody = "all"
  Principals = {"ann", "ben"}
  Deliveries = 2
INVARIANTS SchemaIsItsRecord StartsOnCurrentSchema FindsCyclesAndLayers ConversationMissesNothing AnswersFinishedWork PlansAreSound
PROPERTIES ResolvedMeansAnswered RowTellsTheTruth PilotLoopEnds EveryStartEnds NothingIsLostUnasked ReadStaysRead
CHECK_DEADLOCK FALSE
