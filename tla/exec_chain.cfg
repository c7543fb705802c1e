SPECIFICATION Spec
CONSTANTS
  o1 = o1  t1 = t1  t2 = t2  w1 = w1  n1 = n1
  NoNonce = NoNonce  NoOp = NoOp
  Ops <- OneOp
  Threads <- TwoThreads
  Workers <- OneWorker
  Nonces <- OneNonce
  Settings <- AllSettings
  MaxCrashes = 1
INVARIANTS
  AtMostOneSubmit TruthfulVerdict ReversalOnlyOfRefused
  OperationAgrees NothingStranded
PROPERTIES
  TerminalClosedAlone ImplementsPromise CallbackKeepsClosed
CHECK_DEADLOCK FALSE
