SPECIFICATION Spec
CONSTANTS
  q1 = q1
  q2 = q2
  q3 = q3
  Requests <- MCRequests
INVARIANT GracefulShutdown
SYMMETRY MCSymmetry
CHECK_DEADLOCK FALSE
