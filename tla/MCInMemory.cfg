\* The layout, the extension records and the cells, each over its own bounds.
SPECIFICATION PartsSpec
CONSTANTS
  nameA = nameA
  nameB = nameB
  nameC = nameC
  Names <- MCNames
  Types = {0, 8, 48, 255}
  Widths = {300, 504, 510, 70000}
  MaxSegments = 3
  MaxEntries = 2
  Undecodable = {"bad"}
  MaxU32 = 12
  Lower <- MCLower
  Base = 4
  WordLen = 2
  Illegible = {3}
  Contents <- MCContents
  Forms <- MCForms
  Damaged <- MCDamaged
  Subtypes = {3, 4, 5, 7, 10, 11, 12, 13, 14, 16, 17, 18, 19, 20, 21, 22, 99}
  KeyLen = 2
  Space = "sp"
  Nul = "nul"
  SegmentMax = 3
  Layouts <- MCLayouts
  Rows <- MCRows
  Patterns <- MCPatterns
  Bytes = {"x", "sp", "nul"}
  Formats = {"Ieee754", "IbmHfp"}
  SentinelRecords <- MCSentinelRecords
  MissingCommand <- MCMissingCommand
  Gap = "gap"
  PastWidth = "sp"
SYMMETRY MCSymmetry
INVARIANTS
  SegmentsArePacked
  SpansCoverTheSegments
  SpansHoldTheirWidth
  WrittenComesBack
  ReadIsWhole
  CollapseOrdersEveryValue
  KeptAsItCame
  BothReadOneCode
  CellsAreTheRows
  MissingAsDeclared
PROPERTIES
  EachTurnConsumes
CHECK_DEADLOCK FALSE
