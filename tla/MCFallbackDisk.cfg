CONSTANTS
  a = a
  b = b
  c = c
  d = d
  NoGen = none
  Gens = {a, b, c, d}
  Bootstrap = a
  Fallback = b
  BadGen = none
  Image <- MCImage
  Volumes <- MCVolumes
  Parent <- MCParent
  MaxConfigs = 4
  MaxDiskConfigs = 2
  MaxProcesses = 2
  MaxEntries = 3
  Contexts = {r1, r2, r3}
  NoContext = noContext
  Metadata <- MCDisks
SYMMETRY MCSymmetry
SPECIFICATION UpdSpec
INVARIANTS
  FallbackIsDurable
