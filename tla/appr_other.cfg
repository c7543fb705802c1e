SPECIFICATION Spec
CONSTANTS
  o1 = o1  o2 = o2  c1 = c1  c2 = c2  r1 = r1  r2 = r2
  NoOp = NoOp
  Ops <- TwoOps
  Chats <- OneChat
  Runners <- TwoRunners
  Expiry = FALSE
  MaxCrashes = 0
INVARIANTS ExecutedAsDecided
CHECK_DEADLOCK FALSE
