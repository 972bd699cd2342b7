SPECIFICATION ConvSpec
CONSTANTS
  empty = empty
  blank = blank
  ta = ta
  tb = tb
  tc = tc
  none = none
  image = image
  big = big
  rounded = rounded
  calls = calls
  marker = marker
  missing = missing
  nobody = nobody
  N = 5
  Texts <- MCTexts
  Extras <- MCExtras
  Empty = empty
  Marker = marker
  Bodies <- MCBodies
  Forms <- MCForms
  Size <- MCSize
  Missing = missing
  Fields <- MCFields
  NoFields = none
  Reencoded <- MCReencoded
  NoBody = nobody
INVARIANTS DedupTypeOK LoopInvariant MarkerPointsBack OnlyResultsReplaced CountExplained TextsFilledIn SentAsGiven ReportBeforeDedup RepeatsBoundedByForms
CHECK_DEADLOCK FALSE
