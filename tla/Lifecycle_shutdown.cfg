SPECIFICATION FairSpec
CONSTANTS
  q1 = q1
  q2 = q2
  q3 = q3
  Requests <- MCRequests
INVARIANTS LifecycleTypeOK CleanExitWasAsked
PROPERTIES AcceptsOnlyWhileServing SignalEndsProcess
CHECK_DEADLOCK FALSE
