SPECIFICATION FairSpec
CONSTANTS
  ghost = ghost
  Steps = {1, 2, 3}
  Conditional = {1, 3}
  Graphs <- AllGraphs
  Unknown = ghost
  MaxConcurrent = 2
INVARIANTS VerdictIsDeserved AnswerIsFinal
PROPERTIES StepsRunOnceInOrder CancelStopsIt RunEnds
CHECK_DEADLOCK FALSE
