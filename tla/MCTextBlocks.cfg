SPECIFICATION BothSpec
CONSTANTS
  Writers = {w1, w2}
  Slots = {s1, s2}
  Lines = {"x", "y", "blank"}
  Blank = "blank"
  Texts <- SharedLines
  MaxBlocks = 3
  WordSize = 20
  MaxTextFileSize = 50
  MaxLineLength = 39
  BlockSize = 2
  MaxTokens = 5
SYMMETRY Interchangeable
INVARIANTS TypeOK RefCountExact NoDanglingLine CopyStable ReadsBack
PROPERTY RefinesTextRows
