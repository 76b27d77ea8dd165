SPECIFICATION Spec
CONSTANTS
  c1 = c1
  c2 = c2
  Claims = {c1, c2}
  Words = {"", "t", "a", "b", "default", "unknown"}
  Requests <- NamesOfRun
  Workers = {w1}
  None = none
  MaxTenants = 2
  MaxRounds = 1
  MaxFaults = 0
INVARIANT SnapshotsAccepted
