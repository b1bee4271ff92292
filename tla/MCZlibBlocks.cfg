SPECIFICATION FairSpec
CONSTANTS
  UnitLen = 2
  WindowLen = 3
  ChunkLen = 2
  HeaderLen = 1
  PrefixLen = 2
  EntryLen = 2
  MaxUnits = 10
  Files <- MCFiles
INVARIANTS
  TypeOK
  BytesComeInOrder
  WholeAtTheEnd
  ReadsInTheRegion
PROPERTIES
  ImplementsSource
  CallsReturn
