\* Files of at most three units of two commands, plain or in either compression, a
\* value of which no number can be made among them, and every error of the reads.
SPECIFICATION FairSpec
CONSTANTS
  GroupLen = 2
  InlineCodes = {"too_large"}
  Unencodable = {"too_large"}
  MaxUnits = 3
  CountMax = 7
  Schemes = {"None", "Bytecode", "Zlib"}
  RowLens = {0, 1, 3}
  CaseCounts <- MCCaseCounts
  Earlier = {"CaseCountMismatch"}
  Inherited <- MCInherited
  PayloadUnits <- MCPayloadUnits
INVARIANTS
  TypeOK
  RowsFollowTheStream
  WarningsAreOfThisCall
  CountMatchesData
PROPERTIES
  ImplementsContract
  LeftoverIsReported
  RowsRunOut
CHECK_DEADLOCK FALSE
