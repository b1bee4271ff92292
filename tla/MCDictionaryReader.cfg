SPECIFICATION Spec
CONSTANTS
  utf8 = utf8
  latin1 = latin1
  unknown = unknown
  blank = blank
  VariableTypes <- MCVariableTypes
  MissingCounts <- MCMissingCounts
  IndexLists <- MCIndexLists
  Subtypes = {3, 20, 14, 21, 22, 99}
  Labels <- MCLabels
  Unreadables = {"unreadable", "half_read"}
  HeaderWarnings <- MCHeaderWarnings
  MaxRecords = 3
  Encodings <- MCEncodings
  LabelEncoding <- MCLabelEncoding
  CodeEncoding <- MCLabelEncoding
  NoEncoding = unknown
  Blank = blank
  Strategies <- MCStrategies
  Remarks <- MCRemarks
  LayoutWarnings <- MCLayoutWarnings
  SchemaWarnings <- MCSchemaWarnings
INVARIANTS
  SchemaHasNoHoles
  SchemaFitsTheLayout
  LayoutIgnoresTheCaller
  WarningsFollowTheirCalls
CHECK_DEADLOCK FALSE
