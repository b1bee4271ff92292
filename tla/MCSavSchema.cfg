SPECIFICATION Spec
CONSTANTS
  KeyLen = 2
  Space = "sp"
  Nul = "nul"
  Names = {"A", "B", "X", "Y"}
  Dictionaries <- MCDictionaries
  LongNamePayloads <- MCLongNames
  LongMissingPayloads <- MCLongMissing
  KeySets <- MCKeySets
  LabelSets <- MCLabelSets
  LongLabelPayloads <- MCLongLabels
  DisplayPayloads <- MCDisplay
  AttributePayloads <- MCAttributes
  Formats = {"Ieee754", "IbmHfp"}
  MaxRecords = 2
  Contents <- MCContents
INVARIANTS
  AttributesAddUp
  LabelsReachTheirVariables
  SegmentsStandForTheirVariable
  RowsAndSchemaAgreeOnMissing
CHECK_DEADLOCK FALSE
