SPECIFICATION Spec
CONSTANTS
  h1 = h1
  h2 = h2
  a1 = a1
  anthropic = anthropic
  openai = openai
  plain = plain
  other = other
  stream = stream
  grows = grows
  null = null
  garbled = garbled
  none = none
  nokey = nokey
  nocall = nocall
  nostats = nostats
  norequest = norequest
  noreply = noreply
  noresponse = noresponse
  Handlers <- MCHandlers
  Agents <- MCOneAgent
  Endpoints <- MCTwoEndpoints
  Configured <- MCTwoEndpoints
  Bodies <- MCOneBody
  Shape <- MCShape
  Configs <- MCMemory
  ParsedTTL = 0
  FallbackTTL = 1
  MaxTTL = 1
  NoEntry = none
  NoKey = nokey
  NoCall = nocall
  NoStats = nostats
  NoRequest = norequest
  NoReply = noreply
  NoResponse = noresponse
  MaxRequests = 3
  MaxFlushes = 0
  MaxReports = 0
  MaxClock = 0
INVARIANTS HitFromIdenticalRequest
SYMMETRY MCSymmetry
CHECK_DEADLOCK FALSE
