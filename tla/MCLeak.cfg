CONSTANTS
  MaxPid = 2
  MaxProcesses = 2
  Slots <- RootsSlots
  MaxLineage = 4
  MaxObjects = 5
  Templates <- MCTemplates
  InitTemplate = "init"
  ConfigGrants <- RootsGrants
  BootObjects <- MCBootObjects
  NamespaceEntries = {}
  Masks <- RootsMasks
SPECIFICATION CapSpec
INVARIANTS
  NoUnreachableRoot
CHECK_DEADLOCK FALSE
