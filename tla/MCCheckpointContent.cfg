SPECIFICATION Spec
CONSTANTS
  Writers = {w1}
  Files = {f1}
  Ids = {1, 2}
  None = 0
  Blank = "blank"
  NoRow = NoRow
  MaxChunks = 2
  Crashing = FALSE
  Texts <- EmptyAndLf
  Binaries <- SomeBinaries
PROPERTY CheckpointKeepsContent
