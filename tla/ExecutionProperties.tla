-------------------------- MODULE ExecutionProperties --------------------------
(***************************************************************************)
(* What the execution chain must guarantee, stated over ExecutionEngine.   *)
(***************************************************************************)
EXTENDS ExecutionEngine

(* Every variable stays in its type; in particular no handler ever leaves a*)
(* record in compensating, reconciling or reconciled, the statuses the     *)
(* transition table declares but engine.py and store.py never write.       *)
TypeOK ==
  /\ exec \in [Ops -> ExecRow]
  /\ opStatus \in [Ops -> OperationStatus]
  /\ task \in [Procs -> Task]
  /\ gateway \in [Ops -> GatewayStatus]
  /\ reversed \in [Ops -> BOOLEAN]
  /\ submits \in [Ops -> Nat]
  /\ mail \subseteq Callback
  /\ crashes \in Nat
  /\ disturbed \subseteq Ops
  /\ settings \in Settings

-----------------------------------------------------------------------------
(* Safety.                                                                 *)

(* However many execute nodes race on an operation, retry it or die, the   *)
(* gateway is asked to pay at most once (claim_execution_submit).          *)
AtMostOneSubmit == \A o \in Ops : submits[o] <= 1

(* A live record that says confirmed has a payment behind it, one that says*)
(* compensated has a reversal behind it, whichever handler wrote it and    *)
(* however stale its copy was.                                             *)
TruthfulVerdict ==
  \A o \in Ops :
    /\ settings.mode = "live" /\ exec[o].status = "confirmed" => gateway[o] = "succeeded"
    /\ settings.provider /\ exec[o].status = "compensated" => reversed[o]

(* Settling reverses only what the gateway refused: no reversal ever meets *)
(* a payment that went through or may still go through, unless somebody    *)
(* calls compensate() from outside.                                        *)
ReversalOnlyOfRefused ==
  ~settings.manual => \A o \in Ops : reversed[o] => gateway[o] = "failed"

(* In shadow mode, and in live mode without a provider, no interleaving    *)
(* makes a payment (the controlled execution switch).                      *)
NoFundsWithoutSwitch ==
  settings.mode = "shadow" \/ ~settings.provider =>
    \A o \in Ops : submits[o] = 0 /\ gateway[o] = "none"

(* One handler at a time: once it is done, an execution that a human must  *)
(* look at shows as handed over on the operation too, which is what the    *)
(* execute node tests and what the staff sees.                             *)
HandoffVisible ==
  \A o \in Ops :
    /\ ~settings.manual /\ o \notin disturbed /\ Quiet(o)
    /\ exec[o].status \in HandoffStatus
    => opStatus[o] = "human_handoff"

(* One handler at a time: once it is done, a confirmed execution does not  *)
(* show as a failed operation, which would invite a second attempt.        *)
ConfirmedNotFailed ==
  \A o \in Ops :
    o \notin disturbed /\ Quiet(o) /\ exec[o].status = "confirmed" =>
      opStatus[o] # "failed"

(* What the two transactions that end a handler leave: neither the staff   *)
(* nor the next attempt sees an operation that contradicts its execution.  *)
OperationAgrees == HandoffVisible /\ ConfirmedNotFailed

(* The statuses nobody has to come back to, or the reconciliation does.    *)
Accounted == {"absent"} \cup Terminal \cup ReconcileTargets

(* As long as no handler dies, and provided there is something to execute  *)
(* with (a provider, or shadow mode), a record on which nobody works any   *)
(* more is closed or in the reach of the reconciliation: whoever races for *)
(* the claim, and whatever the gateway answers, no payment is left behind  *)
(* in pending_submit, which neither a retry nor the reconciliation takes   *)
(* up again.                                                               *)
NothingStranded ==
  crashes = 0 /\ (settings.mode = "shadow" \/ settings.provider) =>
    \A o \in Ops : Quiet(o) => exec[o].status \in Accounted

(* Reconciliation "queries what really happened outside and settles it, so *)
(* that nothing counts as submitted or unknown inside that was paid" (the  *)
(* docstring of engine.reconcile): a record that nobody works on any more  *)
(* and that the gateway has paid is closed or among the targets of         *)
(* reconcile.  A handler that dies after the claim refutes it.             *)
PaidReconciled ==
  \A o \in Ops :
    Quiet(o) /\ gateway[o] = "succeeded" => exec[o].status \in Accounted

-----------------------------------------------------------------------------
(* Action properties.                                                      *)

(* A terminal record is closed as long as no two handlers work on its      *)
(* operation at once and none dies: only a copy that another handler made  *)
(* stale, or one left behind by a crash, ever reopens it.                  *)
TerminalClosedAlone ==
  [][\A o \in Ops :
       exec[o].status \in Terminal /\ o \notin disturbed' =>
         exec'[o].status = exec[o].status]_vars

(* The step delivers a callback.                                           *)
CallbackStep == \E p \in Threads : \E m \in mail : DeliverCallback(p, m)

(* A callback never moves a terminal record, not even when its amount is   *)
(* wrong, and never re-applies the nonce that is booked.                   *)
CallbackKeepsClosed ==
  [][CallbackStep =>
       \A o \in Ops :
         \/ exec'[o].status = exec[o].status
         \/ /\ exec[o].status \notin Terminal
            /\ exec'[o].nonce # exec[o].nonce]_vars

-----------------------------------------------------------------------------
(* The chain implements FundsPromise.                                      *)

(* What a status says of the money; a simulated receipt says nothing.      *)
VerdictOf(s) ==
  IF s = "confirmed" /\ settings.mode = "live" THEN "paid"
  ELSE IF s = "compensated" THEN "rolledback"
  ELSE IF s \in HandoffStatus THEN "human"
  ELSE "open"

Promise == INSTANCE FundsPromise WITH
  override <- settings.manual,
  asked <- [o \in Ops |-> submits[o] > 0],
  funds <- gateway,
  undone <- reversed,
  verdict <- [o \in Ops |-> VerdictOf(exec[o].status)]

(* Every step of every handler is a step of the promise or changes nothing *)
(* in it: the money is moved once, undone only after a refusal, and judged *)
(* truthfully.                                                             *)
ImplementsPromise == Promise!PromiseSpec
=============================================================================
