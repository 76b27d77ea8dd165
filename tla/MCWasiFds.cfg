SPECIFICATION Spec
CONSTANTS
  Tasks = {t1, t2}
  Paths = {p1}
  Flags <- ReadOnlyOrReadWrite
  MaxFds = 2
  MaxSize = 2
  Half = 3
SYMMETRY Interchangeable
INVARIANTS TypeOK ResumesOnOwnDescriptor SequentialReadsTile
