SPECIFICATION TextSpec
CONSTANTS
  Texts <- MCTexts
  MinBlob = 3
  Configs <- MCConfigs
  KB = 4
  Values <- MCValues
  Depth <- MCDepth
  Words <- MCWords
  ParsesTo <- MCParsesTo
  ToonSizes = {1, 4, 7}
INVARIANTS TextTypeOK BlobsInOrder NothingMissed SplicedInPlace GrowsOnlyWhereUnchecked NeverErased PlainTextKept DocumentsCarryValues EligibilityInRange ClassifierAndEncoderAgree
CHECK_DEADLOCK FALSE
