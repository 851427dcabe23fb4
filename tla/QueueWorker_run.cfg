CONSTANTS
  t1 = t1  t2 = t2  t3 = t3  w1 = w1  w2 = w2
  Tasks <- ThreeTasks
  Workers <- TwoWorkers
  MaxQueue = 2
  MaxRetries = 2
  Prio <- MixedPrio
  Callbacks <- OneCallback
  WaitModes <- WaitOnly
  NoTask = NoTask
SPECIFICATION FairSpec
INVARIANTS TypeOK JoinBalance FoundInOnePlace
PROPERTIES CancelledNeverRuns ImplementsLedger EveryTaskSettles StopReturns
