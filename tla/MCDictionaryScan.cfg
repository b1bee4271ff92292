SPECIFICATION ScanSpec
CONSTANTS
  VariableTypes <- MCVariableTypes
  MissingCounts <- MCMissingCounts
  IndexLists <- MCIndexLists
  Subtypes <- MCSubtypes
  Labels = {utf8}
  Unreadables = {unreadable}
  HeaderWarnings <- MCHeaderWarnings
  MaxRecords = 4
INVARIANTS
  PositionsAreOffsets
  BufferIsTheDictionary
  SkeletonIsTheFile
CHECK_DEADLOCK FALSE
