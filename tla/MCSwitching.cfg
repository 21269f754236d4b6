CONSTANTS
  a = a
  b = b
  c = c
  d = d
  NoGen = none
  Gens = {a, b, c, d}
  Bootstrap = a
  Fallback = b
  BadGen = none
  Image <- MCImage
  Volumes <- MCVolumes
  MaxConfigs = 3
  MaxDiskConfigs = 2
  MaxProcesses = 2
  Contexts = {r1, r2, r3, r4}
  NoContext = noContext
  Metadata <- MCMetadata
SYMMETRY MCSymmetry
SPECIFICATION GenSpec
INVARIANTS
  GenTypeOK
  ContextsOwned
  StagedIsCurrent
  SelectedIsActive
PROPERTIES
  ActivationNotFailed
  RollbackIsPrevious
