SPECIFICATION Spec
CONSTANTS
  Writers = {w1, w2}
  Files = {f1}
  Ids = {1, 2}
  None = 0
  Blank = "blank"
  NoRow = NoRow
  MaxChunks = 2
  Crashing = TRUE
  Texts <- LfAndCrlf
  Binaries <- SomeBinaries
SYMMETRY Interchangeable
INVARIANTS NoOrphans AckedTextReads AckedBinaryStored
PROPERTY RefinesTextRows
