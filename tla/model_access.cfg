SPECIFICATION FairSpec
CONSTANTS
  Plans = {"p1", "p2"}
  Threads = 2
  Configs <- SmallConfigs
  MaxTokens = 64
  PlannerTokens = 1024
INVARIANT TypeOK
INVARIANT LockMatchesHolder
INVARIANT WeightsLoadedOnce
INVARIANT NoWaitIsLost
INVARIANT RefusedForItsOwnFault
INVARIANT AcceptedPlanFits
PROPERTY ImplementsService
PROPERTY PlanIsAnswered
 
