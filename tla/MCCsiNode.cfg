SPECIFICATION NodeSpec
CONSTANTS
  Volumes = {v1, v2}
  Named = {v1}
  NoVolume = none
  MaxVisits = 2
  MaxMishaps = 2
INVARIANTS OneProcessPerVolume UnstagedMeansGone
PROPERTY UnstageEnds
