SPECIFICATION FairSpec
CONSTANTS
  GroupLen = 2
  InlineCodes = {}
  Unencodable = {}
  MaxUnits = 2
  CountMax = 5
  Schemes = {"Bytecode"}
  RowLens = {0}
  CaseCounts <- MCCaseCounts
  Earlier = {"CaseCountMismatch"}
  Inherited <- MCInherited
  PayloadUnits <- MCPayloadUnits
PROPERTIES
  ReadingStops
CHECK_DEADLOCK FALSE
