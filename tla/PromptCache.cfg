SPECIFICATION CacheSpec
CONSTANTS
  c1 = c1
  c2 = c2
  k1 = k1
  k2 = k2
  r1 = r1
  none = none
  nokey = nokey
  Keys <- MCKeys
  Callers <- MCCallers
  Responses <- MCResponses
  CallTTLs <- MCCallTTLs
  NoEntry = none
  NoKey = nokey
  Configs <- MCConfigs
  ParsedTTL = 0
  FallbackTTL = 1
  MaxTTL = 2
  MaxClock = 2
  MaxGets = 2
INVARIANTS CacheTypeOK EntriesSound
PROPERTIES ImplementsContract RemembersAccepted
SYMMETRY MCSymmetry
