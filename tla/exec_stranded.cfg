SPECIFICATION Spec
CONSTANTS
  o1 = o1  t1 = t1  t2 = t2  w1 = w1  n1 = n1
  NoNonce = NoNonce  NoOp = NoOp
  Ops <- OneOp
  Threads <- TwoThreads
  Workers <- OneWorker
  Nonces <- OneNonce
  Settings <- LiveWithProvider
  MaxCrashes = 1
INVARIANTS PaidReconciled
CHECK_DEADLOCK FALSE
