CONSTANTS
  MaxPid = 3
  MaxProcesses = 3
  Slots <- OneSlot
  MaxLineage = 3
  MaxObjects = 3
  Templates <- MCTemplates
  InitTemplate = "init"
  ConfigGrants <- TimeGrants
  BootObjects <- MCBootObjects
  NamespaceEntries = {}
  Masks = {}
  QueueCapacity = 1
  Timeouts = {1, 2}
  InitQuota = 0
SPECIFICATION FairSpec
PROPERTIES
  ReadyProcessRuns
  TimedWaitEnds
CHECK_DEADLOCK FALSE
