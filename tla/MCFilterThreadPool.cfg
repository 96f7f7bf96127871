CONSTANTS
  NumThreads = 3
  TaskCounts <- MCTaskCounts
  MaxRuns = 2
SPECIFICATION FairSpec
INVARIANTS TypeOK MembersNotShared
PROPERTIES ImplementsParallelFor RunReturns DestructorReturns
