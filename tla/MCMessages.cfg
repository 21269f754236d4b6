CONSTANTS
  MaxPid = 3
  MaxProcesses = 3
  Slots <- TwoSlots
  MaxLineage = 4
  MaxObjects = 3
  Templates <- MCTemplates
  InitTemplate = "init"
  ConfigGrants <- MessagesGrants
  BootObjects <- MCBootObjects
  NamespaceEntries = {}
  Masks = {}
  QueueCapacity = 2
  Timeouts = {1, 2}
  InitQuota = 0
SPECIFICATION Spec
INVARIANTS
  TypeOK
  OneRunning
  NoLostWakeup
PROPERTIES
  WakeupHasCause
CHECK_DEADLOCK FALSE
