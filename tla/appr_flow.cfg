SPECIFICATION FairSpec
CONSTANTS
  o1 = o1  o2 = o2  c1 = c1  c2 = c2  r1 = r1  r2 = r2
  NoOp = NoOp
  Ops <- TwoOps
  Chats <- TwoChats
  Runners <- TwoRunners
  Expiry = TRUE
  MaxCrashes = 2
INVARIANTS AloneAsDecided
PROPERTIES DecisionStands  ImplementsPromise
CHECK_DEADLOCK FALSE
