SPECIFICATION Spec
CONSTANTS
  Readers = {r1}
  Files = {p1}
  MaxLayers = 3
  MaxInodes = 2
INVARIANTS TypeOK LookupAtomic ListAtomicPerName
