SPECIFICATION MetricsSpec
CONSTANTS
  c1 = c1
  c2 = c2
  c3 = c3
  a1 = a1
  a2 = a2
  p1 = p1
  none = none
  nocall = nocall
  Callers <- MCCallers
  Agents <- MCAgents
  Providers <- MCProviders
  TokenPairs <- MCTokenPairs
  NoCall = nocall
  NoStats = none
  MaxRecorded = 4
INVARIANTS MetricsTypeOK RequestsConserved BooksAgreeWhenQuiet HitsNotOvercounted
PROPERTY CountersNeverFall
SYMMETRY MCSymmetry
CHECK_DEADLOCK FALSE
