SPECIFICATION Spec
CONSTANTS
  Clients = {mount, other}
  Mount = mount
  Names = {"a"}
  NoName = "none"
  HookName = ".tarbox"
  MaxDepth = 2
  MaxInodes = 4
  MaxNumbers = 3
INVARIANTS FuseTypeOK TreeOfDirectories PathsUnambiguous CascadeOnlyUnseen NumberMeansOneFile KernelNumbersReach
