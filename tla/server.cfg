SPECIFICATION FairSpec
CONSTANTS
  Token = {"a", "b", "wrong"}
  TQueueOf <- MCTQueueOf
  Malformed = {"wrong"}
  Query = {"q1", "q2"}
  Loads <- MCLoads
INVARIANTS ActiveCountsExact DirectoryExclusive RestoredFirst DatabasesOutliveClients
PROPERTIES ShutdownEnds
CHECK_DEADLOCK FALSE
