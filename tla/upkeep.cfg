SPECIFICATION UpkeepSpec
CONSTANTS
  acme = acme  demo = demo  ann = ann  dan = dan
  r1 = r1  r2 = r2  o1 = o1  o2 = o2  c1 = c1  c2 = c2  k1 = k1  k2 = k2
  Replicas <- TwoReplicas
  Operators <- TwoOperators
  Configs <- MCConfigs
  Members <- MCMembers
  Real <- MCReal
  Demo <- MCDemo
  Later = {"executions", "orders", "shipping_events", "policy_documents"}
  MaxFaults = 1
  NoChat = NoChat
  Chats <- TwoChats
  Runners = {p1}
  Cleaners <- TwoCleaners
  DeleteFails = TRUE
  TasksDie = TRUE
INVARIANTS UnderRls DumpComplete BootstrapDone MigrationSound OneCleaner OrphanOnlyByOverlap
SYMMETRY Symmetry
CHECK_DEADLOCK FALSE
