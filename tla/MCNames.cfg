CONSTANTS
  MaxPid = 3
  MaxProcesses = 3
  Slots <- NamesSlots
  MaxLineage = 4
  MaxObjects = 5
  Templates <- MCTemplates
  InitTemplate = "init"
  ConfigGrants <- NamesGrants
  BootObjects <- MCBootObjects
  NamespaceEntries <- NamesEntries
  Masks <- NamesMasks
SPECIFICATION CapSpec
INVARIANTS
  RevocationIsTransitive
  RevokedFlagsAgree
  RightsNeverGrow
PROPERTIES
  RevokeIsExact
  DelegationNeedsHolder
CHECK_DEADLOCK FALSE
