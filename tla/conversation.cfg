SPECIFICATION ConversationSpec
CONSTANTS
  r1 = r1  r2 = r2
  NoReader = NoReader
  Readers <- TwoReaders
  MaxNodes = 1
  MaxDedup = 1
  MaxCuts = 1
  c1 = c1  c2 = c2  c3 = c3
  Callers <- ThreeCallers
  Threshold = 2
  Cooldown = 2
  MaxSetBacks = 1
INVARIANTS ShownIsPrefix OneExecution
PROPERTIES WatcherSeesEnd ProbeSpacing RecoversFromOutage
CHECK_DEADLOCK FALSE
