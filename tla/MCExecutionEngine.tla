--------------------------- MODULE MCExecutionEngine ---------------------------
(* Model values for the runs of ExecutionEngine.                           *)
EXTENDS ExecutionProperties

CONSTANTS o1, t1, t2, w1, n1

OneOp == {o1}
TwoThreads == {t1, t2}
OneWorker == {w1}
OneNonce == {n1}

(* Every combination of mode, provider and a caller of compensate().       *)
AllSettings == [mode: {"shadow", "live"}, provider: BOOLEAN, manual: BOOLEAN]

(* Real money, and nobody but the handlers moves it.                       *)
LiveWithProvider == {[mode |-> "live", provider |-> TRUE, manual |-> FALSE]}
=============================================================================
