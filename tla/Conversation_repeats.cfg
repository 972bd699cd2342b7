SPECIFICATION ConvSpec
CONSTANTS
  empty = empty
  blank = blank
  ta = ta
  tb = tb
  tc = tc
  none = none
  image = image
  big = big
  rounded = rounded
  calls = calls
  marker = marker
  missing = missing
  nobody = nobody
  N = 3
  Texts <- MCTexts
  Extras <- MCExtras
  Empty = empty
  Marker = marker
  Bodies <- MCToolBodies
  Forms <- MCForms
  Size <- MCSize
  Missing = missing
  Fields <- MCFields
  NoFields = none
  Reencoded <- MCReencoded
  NoBody = nobody
INVARIANT RepeatsReplaced
CHECK_DEADLOCK FALSE
