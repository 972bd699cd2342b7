SPECIFICATION FairSpec
CONSTANTS
  h1 = h1
  h2 = h2
  a1 = a1
  anthropic = anthropic
  openai = openai
  plain = plain
  other = other
  stream = stream
  grows = grows
  null = null
  garbled = garbled
  none = none
  nokey = nokey
  nocall = nocall
  nostats = nostats
  norequest = norequest
  noreply = noreply
  noresponse = noresponse
  Handlers <- MCHandlers
  Agents <- MCOneAgent
  Endpoints <- MCTwoEndpoints
  Configured <- MCOneEndpoint
  Bodies <- MCAllBodies
  Shape <- MCShape
  Configs <- MCEveryCache
  ParsedTTL = 0
  FallbackTTL = 1
  MaxTTL = 1
  NoEntry = none
  NoKey = nokey
  NoCall = nocall
  NoStats = nostats
  NoRequest = norequest
  NoReply = noreply
  NoResponse = noresponse
  MaxRequests = 2
  MaxFlushes = 0
  MaxReports = 1
  MaxClock = 0
INVARIANTS EveryRequestAccounted ReportConsistent
PROPERTIES HandlersFinish
CHECK_DEADLOCK FALSE
