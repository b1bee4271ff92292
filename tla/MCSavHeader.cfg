SPECIFICATION Spec
CONSTANTS
  Base = 7
  WordLen = 2
  Illegible = {3}
  SkipChunk = 2
  Files <- MCFiles
  Canonical <- MCCanonical
  NameLen = 2
  LabelLen = 2
  EntryLen = 2
  LabelPadding = 2
  EntryAlignment = 3
  RestLen = 1
  LineLen = 3
  FillerLen = 2
  TerminatorType = 9
  MaxRecords = 9
  Strategy <- MCStrategy
  DataUnitLen = 2
  MaxCalls = 4
INVARIANTS
  PositionIsTheFields
  HeaderIsAsWritten
  SilenceMeansNoGuess
PROPERTIES
  OpeningEnds
  ImplementsSource
CHECK_DEADLOCK FALSE
