CONSTANTS
  t1 = t1  t2 = t2  t3 = t3  w1 = w1  w2 = w2
  Tasks <- TwoTasks
  Workers <- OneWorker
  MaxQueue = 2
  MaxRetries = 2
  Prio <- FlatPrio
  Callbacks <- OneCallback
  WaitModes <- NoWait
  NoTask = NoTask
SPECIFICATION Spec
INVARIANTS NothingLeftBehind
