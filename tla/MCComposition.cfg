SPECIFICATION CompositionSpec
CONSTANTS
  Clients = {c1, c2}
  Mounts = {m1, m2}
  Owner <- OneOwner
  Names = {n1}
  MaxLayers = 3
  t1 = t1
  t2 = t2
  Tenants = {t1, t2}
  VirtualPaths <- Texts
  Components <- ComponentsOfTexts
  TextLength <- LengthsOfTexts
  Shapes <- DirectoriesAndFile
  PublishNames = {p1}
  MaxList = 2
SYMMETRY Interchangeable
INVARIANTS ChainsIntact NestedOnlyUnseen AmbiguousOnlyUnseen PublicationsSound ResolvedInScope
PROPERTY SnapshotsFinal
