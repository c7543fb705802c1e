---------------------------- MODULE ExecutionEngine ---------------------------
(***************************************************************************)
(* The execution chain of src/execution/engine.py over the PostgreSQL      *)
(* store: what happens to an approved operation from the execute node of   *)
(* the graph to the final status of its one execution record.             *)
(*                                                                         *)
(* Four handlers run concurrently on the same record: the execute node     *)
(* (API worker threads), the gateway webhook, the reconciliation task      *)
(* (Celery, acks_late) and compensate().  Every store call is one          *)
(* transaction and therefore one step; every provider call is one step;    *)
(* between two steps of one handler any other handler may run.  A handler  *)
(* keeps the record it read (snap) and _transition checks legality against *)
(* that copy, so a stale copy is part of the state.                        *)
(***************************************************************************)
EXTENDS ExecutionTypes

CONSTANTS
  Ops,                 \* approved operations
  Threads,             \* handler slots of the API: graph nodes and webhooks
  Workers,             \* handler slots of Celery: reconciliation
  Nonces,              \* nonces of the callbacks the gateway can send
  NoNonce,             \* callback_nonce = NULL
  NoOp,                \* an idle slot works on no operation
  Settings,            \* deployments: execution_mode, whether a FundsProvider is
                       \* configured, whether somebody calls compensate()
  MaxCrashes           \* bound: handlers that die half-way

Procs == Threads \cup Workers

ASSUME SettingsAssumption ==
  Settings \subseteq [mode: {"shadow", "live"}, provider: BOOLEAN, manual: BOOLEAN]
ASSUME CrashAssumption == MaxCrashes \in Nat
ASSUME NullAssumption == NoNonce \notin Nonces /\ NoOp \notin Ops

VARIABLES
  exec,      \* the executions table, one row per operation
  opStatus,  \* operations.status
  task,      \* what each handler slot is doing
  gateway,   \* the gateway's own record of the payment
  reversed,  \* the gateway has a reversal for the payment
  submits,   \* number of provider.submit calls made (history)
  mail,      \* callbacks the gateway has sent; never removed: they may be
             \* delivered late, again, or never
  crashes,   \* handlers lost so far
  disturbed, \* operations two handlers worked on at once or one died on (history)
  settings   \* the deployment; never changes

vars == <<exec, opStatus, task, gateway, reversed, submits, mail, crashes,
          disturbed, settings>>
outside == <<gateway, reversed, submits, mail>>
aside == <<crashes, disturbed, settings>>

GatewayStatus == {"none", "inflight", "succeeded", "failed"}

(* No code writes these three of the declared statuses.                    *)
UnusedStatuses == {"compensating", "reconciling", "reconciled"}
RowStatus == (ExecutionStatus \ UnusedStatuses) \cup {"absent"}
ExecRow ==
  [status: RowStatus, attempts: {0, 1}, txn: BOOLEAN,
   nonce: Nonces \cup {NoNonce}]
Callback ==
  [op: Ops, nonce: Nonces, status: {"succeeded", "failed", "processing"},
   amountOk: BOOLEAN]
Kind == {"execute", "callback", "reconcile", "compensate"}
Pc ==
  {"idle", "lookup", "create", "shadowConfirm", "claim", "submit",
   "recordSubmitted", "readSubmitted", "recordUncertain", "recordDispatchFailed",
   "settleRead", "normalise", "normaliseRead", "compensate",
   "recordCompensated", "recordCompensationFailed", "query", "recordConfirmed",
   "recordMismatch", "opExecuted", "opHandoff", "opFailed"}
Task ==
  [pc: Pc, kind: Kind \cup {"none"}, op: Ops \cup {NoOp},
   snap: RowStatus]

NoRow == [status |-> "absent", attempts |-> 0, txn |-> FALSE, nonce |-> NoNonce]
Idle == [pc |-> "idle", kind |-> "none", op |-> NoOp, snap |-> "absent"]

Init ==
  /\ exec = [o \in Ops |-> NoRow]
  /\ opStatus = [o \in Ops |-> "pending"]
  /\ task = [p \in Procs |-> Idle]
  /\ gateway = [o \in Ops |-> "none"]
  /\ reversed = [o \in Ops |-> FALSE]
  /\ submits = [o \in Ops |-> 0]
  /\ mail = {}
  /\ crashes = 0
  /\ disturbed = {}
  /\ settings \in Settings

-----------------------------------------------------------------------------
(* Moving a handler; "idle" frees its slot.                                *)
At(p, pc) == task[p].pc = pc
OpOf(p) == task[p].op
Begin(p, kind, o, pc, snap) ==
  task' = [task EXCEPT ![p] = [pc |-> pc, kind |-> kind, op |-> o, snap |-> snap]]
GotoWith(p, pc, snap) ==
  task' = [task EXCEPT ![p] =
             IF pc = "idle" THEN Idle
             ELSE [pc |-> pc, kind |-> @.kind, op |-> @.op, snap |-> snap]]
Goto(p, pc) == GotoWith(p, pc, task[p].snap)
Return(p) == Goto(p, "idle")

(* Nobody works on the operation; a handler that joins others disturbs it. *)
Quiet(o) == \A p \in Procs : OpOf(p) # o
Join(o) == disturbed' = IF Quiet(o) THEN disturbed ELSE disturbed \cup {o}

(* An exception: the execute node marks the operation failed, the webhook  *)
(* answers 500 and the task dies.                                          *)
AfterRaise(p) == IF task[p].kind = "execute" THEN "opFailed" ELSE "idle"

WriteRow(o, s, attempts, txn, nonce) ==
  exec' = [exec EXCEPT ![o] =
             [status |-> s, attempts |-> attempts, txn |-> txn, nonce |-> nonce]]
WriteOp(o, s) == opStatus' = [opStatus EXCEPT ![o] = s]

(* _transition without expected_status: legality is tested on the copy the *)
(* handler holds, then the row is overwritten whatever it holds by now;    *)
(* setTxn: the write also stores external_txn_id.                          *)
Transition(p, s, setTxn, pc) ==
  LET row == exec[OpOf(p)] IN
  IF CanTransition(task[p].snap, s)
  THEN /\ WriteRow(OpOf(p), s, row.attempts, row.txn \/ setTxn, row.nonce)
       /\ Goto(p, pc)
  ELSE /\ Goto(p, AfterRaise(p))
       /\ UNCHANGED exec

-----------------------------------------------------------------------------
(* The execute node and ExecutionEngine.execute.                           *)

(* Mutant: the node does not look at the operation's status.               *)
StartExecute_AnyStatus(p, o) ==
  /\ At(p, "idle")
  /\ Begin(p, "execute", o, "lookup", "absent")
  /\ Join(o)
  /\ UNCHANGED <<exec, opStatus, outside, crashes, settings>>

(* The node replays an executed operation and refuses a handed-over one;   *)
(* a failed operation is tried again.                                      *)
StartExecute(p, o) ==
  /\ At(p, "idle")
  /\ opStatus[o] \in {"pending", "failed"}
  /\ Begin(p, "execute", o, "lookup", "absent")
  /\ Join(o)
  /\ UNCHANGED <<exec, opStatus, outside, crashes, settings>>

(* An existing record is replayed: nothing is submitted again.  The order  *)
(* lookup before it and the amount check after it may raise.               *)
Lookup(p) ==
  /\ At(p, "lookup")
  /\ \/ exec[OpOf(p)].status # "absent" /\ Return(p)
     \/ exec[OpOf(p)].status = "absent" /\ Goto(p, "create")
     \/ Goto(p, AfterRaise(p))
  /\ UNCHANGED <<exec, opStatus, outside, aside>>

(* Live execution without a provider raises after the record was made.     *)
AfterCreate ==
  IF settings.mode = "shadow" THEN "shadowConfirm"
  ELSE IF settings.provider THEN "claim" ELSE "opFailed"

(* Idempotent insert, then the row is read back.                           *)
Create(p) ==
  LET o == OpOf(p)
      row == exec[o]
      s == IF row.status = "absent" THEN "pending_submit" ELSE row.status
  IN
  /\ At(p, "create")
  /\ WriteRow(o, s, row.attempts, row.txn, row.nonce)
  /\ GotoWith(p, AfterCreate, s)
  /\ UNCHANGED <<opStatus, outside, aside>>

(* Shadow mode: the record is confirmed on a simulated receipt.            *)
ShadowConfirm(p) ==
  /\ At(p, "shadowConfirm")
  /\ Transition(p, "confirmed", TRUE, "opExecuted")
  /\ UNCHANGED <<opStatus, outside, aside>>

(* Mutant: the claim tests the status only.                                *)
ClaimSubmit_StatusOnly(p) ==
  LET o == OpOf(p)
      row == exec[o]
  IN
  /\ At(p, "claim")
  /\ IF row.status = "pending_submit"
       THEN WriteRow(o, row.status, 1, row.txn, row.nonce) /\ Goto(p, "submit")
       ELSE Return(p) /\ UNCHANGED exec
  /\ UNCHANGED <<opStatus, outside, aside>>

(* claim_execution_submit: attempts 0 -> 1 on a row that is still pending. *)
ClaimSubmit(p) ==
  LET o == OpOf(p)
      row == exec[o]
  IN
  /\ At(p, "claim")
  /\ \/ /\ row.status = "pending_submit" /\ row.attempts = 0
        /\ WriteRow(o, row.status, 1, row.txn, row.nonce)
        /\ Goto(p, "submit")
     \/ /\ ~(row.status = "pending_submit" /\ row.attempts = 0)
        /\ Return(p)
        /\ UNCHANGED exec
  /\ UNCHANGED <<opStatus, outside, aside>>

(* The gateway is idempotent by key: a payment it knows keeps its status.  *)
Outcome(o) ==
  IF gateway[o] \in {"succeeded", "failed"} THEN {gateway[o]}
  ELSE {"succeeded", "failed"}

(* Behind a lost answer it has done nothing, has done it, or does it later.*)
LostOutcome(o) ==
  Outcome(o) \cup
    (IF gateway[o] \in {"succeeded", "failed"} THEN {} ELSE {gateway[o], "inflight"})

(* Mutant: a ProviderError is taken for a refusal.                         *)
Submit_ErrorIsRefusal(p) ==
  LET o == OpOf(p) IN
  /\ At(p, "submit")
  /\ submits' = [submits EXCEPT ![o] = @ + 1]
  /\ \/ /\ gateway' = [gateway EXCEPT ![o] = "succeeded"]
        /\ Goto(p, "recordSubmitted")
     \/ /\ \E s \in LostOutcome(o) : gateway' = [gateway EXCEPT ![o] = s]
        /\ Goto(p, "recordDispatchFailed")
  /\ UNCHANGED <<exec, opStatus, reversed, mail, aside>>

(* Mutant: a ProviderError is not caught.                                  *)
Submit_ErrorEscapes(p) ==
  LET o == OpOf(p) IN
  /\ At(p, "submit")
  /\ submits' = [submits EXCEPT ![o] = @ + 1]
  /\ \/ /\ \E s \in Outcome(o) : gateway' = [gateway EXCEPT ![o] = s]
        /\ Goto(p, IF gateway'[o] = "succeeded" THEN "recordSubmitted"
                   ELSE "recordDispatchFailed")
     \/ /\ \E s \in LostOutcome(o) : gateway' = [gateway EXCEPT ![o] = s]
        /\ Goto(p, AfterRaise(p))
  /\ UNCHANGED <<exec, opStatus, reversed, mail, aside>>

(* provider.submit: an answer, or a ProviderError.                         *)
Submit(p) ==
  LET o == OpOf(p) IN
  /\ At(p, "submit")
  /\ submits' = [submits EXCEPT ![o] = @ + 1]
  /\ \/ /\ \E s \in Outcome(o) : gateway' = [gateway EXCEPT ![o] = s]
        /\ Goto(p, IF gateway'[o] = "succeeded" THEN "recordSubmitted"
                   ELSE "recordDispatchFailed")
     \/ /\ \E s \in LostOutcome(o) : gateway' = [gateway EXCEPT ![o] = s]
        /\ Goto(p, "recordUncertain")
  /\ UNCHANGED <<exec, opStatus, reversed, mail, aside>>

(* The only compare-and-set transition; a miss replays what is there.      *)
RecordSubmitted(p) ==
  LET row == exec[OpOf(p)] IN
  /\ At(p, "recordSubmitted")
  /\ \/ /\ row.status = "pending_submit"
        /\ WriteRow(OpOf(p), "submitted", row.attempts, TRUE, row.nonce)
        /\ Goto(p, "readSubmitted")
     \/ /\ row.status # "pending_submit"
        /\ Return(p)
        /\ UNCHANGED exec
  /\ UNCHANGED <<opStatus, outside, aside>>

(* The row is read back in a new transaction: if it has moved on already   *)
(* the handler replays, otherwise it goes on to mark the operation.        *)
ReadSubmitted(p) ==
  /\ At(p, "readSubmitted")
  /\ IF exec[OpOf(p)].status = "submitted" THEN Goto(p, "opExecuted") ELSE Return(p)
  /\ UNCHANGED <<exec, opStatus, outside, aside>>

RecordUncertain(p) ==
  /\ At(p, "recordUncertain")
  /\ Transition(p, "failed_uncertain", FALSE, "opExecuted")
  /\ UNCHANGED <<opStatus, outside, aside>>

RecordDispatchFailed(p) ==
  /\ At(p, "recordDispatchFailed")
  /\ Transition(p, "failed_dispatch", TRUE, "settleRead")
  /\ UNCHANGED <<opStatus, outside, aside>>

-----------------------------------------------------------------------------
(* _settle_after_dispatch_failure, shared by three handlers.               *)

(* Where it starts, given the copy s of the record's status it works on.   *)
(* The code's third branch hands a record that is compensating or          *)
(* reconciling over to a human; no code writes these statuses              *)
(* (UnusedStatuses), so on any other copy its _transition raises.          *)
SettleEntry(p, s) ==
  IF s = "failed_dispatch" THEN "compensate"
  ELSE IF CanTransition(s, "failed_dispatch") THEN "normalise"
  ELSE AfterRaise(p)

EnterSettle(p, s) == GotoWith(p, SettleEntry(p, s), s)

SettleRead(p) ==
  /\ At(p, "settleRead")
  /\ EnterSettle(p, exec[OpOf(p)].status)
  /\ UNCHANGED <<exec, opStatus, outside, aside>>

Normalise(p) ==
  /\ At(p, "normalise")
  /\ Transition(p, "failed_dispatch", FALSE, "normaliseRead")
  /\ UNCHANGED <<opStatus, outside, aside>>

(* The row read back replaces the copy; it is not tested again.            *)
NormaliseRead(p) ==
  /\ At(p, "normaliseRead")
  /\ GotoWith(p, "compensate", exec[OpOf(p)].status)
  /\ UNCHANGED <<exec, opStatus, outside, aside>>

(* Mutant: a provider error is taken for a reversal.                       *)
Compensate_ErrorIsDone(p) ==
  LET o == OpOf(p) IN
  /\ At(p, "compensate")
  /\ \E made \in BOOLEAN :
       reversed' = [reversed EXCEPT ![o] = @ \/ (settings.provider /\ made)]
  /\ Goto(p, "recordCompensated")
  /\ UNCHANGED <<exec, opStatus, gateway, submits, mail, aside>>

(* _compensate: without a provider a receipt is made up; with one, the     *)
(* reversal is idempotent and an error may hide that it was made.          *)
Compensate(p) ==
  LET o == OpOf(p) IN
  /\ At(p, "compensate")
  /\ \/ /\ reversed' = [reversed EXCEPT ![o] = @ \/ settings.provider]
        /\ Goto(p, "recordCompensated")
     \/ /\ settings.provider
        /\ \E made \in BOOLEAN : reversed' = [reversed EXCEPT ![o] = @ \/ made]
        /\ Goto(p, "recordCompensationFailed")
  /\ UNCHANGED <<exec, opStatus, gateway, submits, mail, aside>>

(* compensate() stops at the record; the settling handlers go on to the    *)
(* operation.                                                              *)
AfterCompensation(p, pc) == IF task[p].kind = "compensate" THEN "idle" ELSE pc

RecordCompensated(p) ==
  /\ At(p, "recordCompensated")
  /\ Transition(p, "compensated", FALSE, AfterCompensation(p, "opExecuted"))
  /\ UNCHANGED <<opStatus, outside, aside>>

RecordCompensationFailed(p) ==
  /\ At(p, "recordCompensationFailed")
  /\ Transition(p, "compensation_failed", FALSE, AfterCompensation(p, "opHandoff"))
  /\ UNCHANGED <<opStatus, outside, aside>>

(* compensate(): replayed on a record that is already compensated.         *)
StartCompensate(p, o) ==
  /\ settings.manual
  /\ At(p, "idle")
  /\ exec[o].status \notin {"absent", "compensated", "compensation_failed"}
  /\ Begin(p, "compensate", o, "compensate", exec[o].status)
  /\ Join(o)
  /\ UNCHANGED <<exec, opStatus, outside, crashes, settings>>

-----------------------------------------------------------------------------
(* apply_callback: one transaction on the row and the operation.           *)
BookNonce(o, s, m) == WriteRow(o, s, exec[o].attempts, exec[o].txn, m.nonce)

(* A replayed nonce, a terminal record and an illegal transition change    *)
(* nothing.  A failure callback leaves the settling to the same handler.   *)
DeliverCallback(p, m) ==
  LET o == m.op
      current == exec[o].status
      booked == exec[o].nonce
  IN
  /\ At(p, "idle")
  /\ current # "absent"
  /\ \/ /\ IsAmountMismatch(current, booked, m)
        /\ BookNonce(o, "mismatched", m)
        /\ WriteOp(o, "human_handoff")
        /\ UNCHANGED task
     \/ /\ IsProcessing(current, booked, m)
        /\ BookNonce(o, current, m)
        /\ UNCHANGED <<opStatus, task>>
     \/ /\ IsApplied(current, booked, m)
        /\ BookNonce(o, NormalizeCallback(current, m.status), m)
        /\ WriteOp(o, "executed")
        /\ IF m.status = "failed"
             THEN Begin(p, "callback", o, "settleRead", "absent")
             ELSE UNCHANGED task
  /\ Join(o)
  /\ UNCHANGED <<outside, crashes, settings>>

-----------------------------------------------------------------------------
(* reconcile: one task per target; a batch is several of them started      *)
(* together.  The target is a copy taken when the list was read.           *)
StartReconcile(p, o) ==
  /\ At(p, "idle")
  /\ exec[o].status \in ReconcileTargets
  /\ Begin(p, "reconcile", o,
           IF exec[o].txn /\ settings.provider THEN "query" ELSE "recordMismatch",
           exec[o].status)
  /\ Join(o)
  /\ UNCHANGED <<exec, opStatus, outside, crashes, settings>>

(* provider.query: an error, or what the gateway has on file.              *)
Query(p) ==
  LET o == OpOf(p) IN
  /\ At(p, "query")
  /\ \/ Goto(p, "recordMismatch")
     \/ gateway[o] \in {"none", "inflight"} /\ Goto(p, "recordMismatch")
     \/ /\ gateway[o] = "succeeded"
        /\ Goto(p, IF CanTransition(task[p].snap, "confirmed")
                   THEN "recordConfirmed" ELSE "recordMismatch")
     \/ gateway[o] = "failed" /\ EnterSettle(p, task[p].snap)
  /\ UNCHANGED <<exec, opStatus, outside, aside>>

RecordConfirmed(p) ==
  /\ At(p, "recordConfirmed")
  /\ Transition(p, "confirmed", FALSE, "opExecuted")
  /\ UNCHANGED <<opStatus, outside, aside>>

(* Mutant: the operation is left looking executed.                         *)
RecordMismatch_Executed(p) ==
  /\ At(p, "recordMismatch")
  /\ Transition(p, "mismatched", FALSE, "opExecuted")
  /\ UNCHANGED <<opStatus, outside, aside>>

RecordMismatch(p) ==
  /\ At(p, "recordMismatch")
  /\ Transition(p, "mismatched", FALSE, "opHandoff")
  /\ UNCHANGED <<opStatus, outside, aside>>

-----------------------------------------------------------------------------
(* The last store call of a handler: update_operation, unconditional.      *)
MarkOperation(p, pc, s) ==
  /\ At(p, pc)
  /\ WriteOp(OpOf(p), s)
  /\ Return(p)
  /\ UNCHANGED <<exec, outside, aside>>

OpExecuted(p) == MarkOperation(p, "opExecuted", "executed")
OpHandoff(p) == MarkOperation(p, "opHandoff", "human_handoff")
OpFailed(p) == MarkOperation(p, "opFailed", "failed")

-----------------------------------------------------------------------------
(* The gateway (external) and crashes.                                     *)

(* A submission whose caller gave up is carried out at last.               *)
GatewayResolve(o) ==
  /\ gateway[o] = "inflight"
  /\ \E s \in {"succeeded", "failed"} : gateway' = [gateway EXCEPT ![o] = s]
  /\ UNCHANGED <<exec, opStatus, task, reversed, submits, mail, aside>>

(* The gateway reports what it has on file, or that it is still working.   *)
GatewayNotify(o, n) ==
  /\ gateway[o] # "none"
  /\ \A m \in mail : m.nonce # n
  /\ \E ok \in BOOLEAN, s \in {gateway[o], "processing"} \ {"inflight"} :
       mail' = mail \cup {[op |-> o, nonce |-> n, status |-> s, amountOk |-> ok]}
  /\ UNCHANGED <<exec, opStatus, task, gateway, reversed, submits, aside>>

Crash(p) ==
  /\ ~At(p, "idle")
  /\ crashes < MaxCrashes
  /\ crashes' = crashes + 1
  /\ disturbed' = disturbed \cup {OpOf(p)}
  /\ Return(p)
  /\ UNCHANGED <<exec, opStatus, outside, settings>>

-----------------------------------------------------------------------------
(* The next step of the handler in slot p.                                 *)
Step(p) ==
  \/ Lookup(p) \/ Create(p) \/ ShadowConfirm(p) \/ ClaimSubmit(p) \/ Submit(p)
  \/ RecordSubmitted(p) \/ ReadSubmitted(p) \/ RecordUncertain(p)
  \/ RecordDispatchFailed(p)
  \/ SettleRead(p) \/ Normalise(p) \/ NormaliseRead(p)
  \/ Compensate(p) \/ RecordCompensated(p) \/ RecordCompensationFailed(p)
  \/ Query(p) \/ RecordConfirmed(p) \/ RecordMismatch(p)
  \/ OpExecuted(p) \/ OpHandoff(p) \/ OpFailed(p)

Next ==
  \/ \E p \in Procs : Step(p) \/ Crash(p)
  \/ \E p \in Threads, o \in Ops : StartExecute(p, o) \/ StartCompensate(p, o)
  \/ \E p \in Threads : \E m \in mail : DeliverCallback(p, m)
  \/ \E p \in Workers, o \in Ops : StartReconcile(p, o)
  \/ \E o \in Ops : GatewayResolve(o)
  \/ \E o \in Ops, n \in Nonces : GatewayNotify(o, n)

Spec == Init /\ [][Next]_vars
=============================================================================
