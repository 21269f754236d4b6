CONSTANTS
  MaxPid = 2
  MaxProcesses = 2
  Slots <- TwoSlots
  MaxLineage = 3
  MaxObjects = 4
  Templates <- CancelTemplates
  InitTemplate = "init"
  ConfigGrants <- CancelGrants
  BootObjects <- MCBootObjects
  NamespaceEntries = {}
  Masks <- CancelMasks
  QueueCapacity = 1
  Timeouts = {1}
  InitQuota = 1
SPECIFICATION Spec
INVARIANTS
  BlockedReceiverAuthorized
  QuotaMatchesEndpoints
PROPERTIES
  WakeupHasCause
CHECK_DEADLOCK FALSE
