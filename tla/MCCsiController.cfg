SPECIFICATION Spec
CONSTANTS
  c1 = c1
  c2 = c2
  Claims = {c1, c2}
  Words = {"", "t", "a", "b", "default", "unknown"}
  Requests <- NamesOfRun
  Workers = {w1, w2}
  None = none
  MaxTenants = 5
  MaxRounds = 3
  MaxFaults = 1
INVARIANTS OneVolumePerClaim VolumesSeparate
PROPERTY ClaimProvisioned
