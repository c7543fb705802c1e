---------------------------- MODULE ExecutionTypes ----------------------------
(***************************************************************************)
(* The execution state machine of src/execution/types.py and the pure      *)
(* callback plan of src/infrastructure/store.py: the statuses, the table   *)
(* of legal transitions, and which of its six outcomes a signed callback   *)
(* has on a given execution record.                                        *)
(***************************************************************************)
EXTENDS Naturals

(* ExecutionStatus, by its stored values. *)
ExecutionStatus ==
  {"pending_submit", "submitted", "confirmed", "failed_dispatch",
   "failed_uncertain", "compensating", "compensated", "compensation_failed",
   "reconciling", "reconciled", "mismatched", "human_handoff"}

Terminal ==
  {"confirmed", "compensated", "compensation_failed", "reconciled",
   "mismatched", "human_handoff"}

(* Every intermediate status may collapse into these two. *)
IntermediateAbnormal == {"mismatched", "human_handoff"}

(* The legal moves, as pairs; none leaves a terminal status.               *)
Transitions ==
  ((ExecutionStatus \ Terminal) \X IntermediateAbnormal)
  \cup ({"pending_submit"} \X
          {"submitted", "confirmed", "failed_dispatch", "failed_uncertain"})
  \cup ({"submitted"} \X
          {"confirmed", "failed_dispatch", "failed_uncertain", "compensating",
           "reconciling"})
  \cup ({"failed_dispatch"} \X
          {"compensating", "compensated", "compensation_failed"})
  \cup ({"failed_uncertain"} \X {"confirmed", "failed_dispatch", "reconciling"})
  \cup ({"compensating"} \X {"compensated", "compensation_failed"})
  \cup ({"reconciling"} \X {"confirmed", "compensated"})

CanTransition(current, next) ==
  current # next /\ <<current, next>> \in Transitions

(* OperationStatus: what the customer and the staff see of the operation. *)
OperationStatus == {"pending", "executed", "failed", "rejected", "human_handoff"}

(* Statuses of an execution that a human has to look at. *)
HandoffStatus == {"mismatched", "compensation_failed", "human_handoff"}

(* Statuses the reconciliation task picks up. *)
ReconcileTargets ==
  {"submitted", "failed_uncertain", "reconciling", "failed_dispatch"}

-----------------------------------------------------------------------------
(* A callback m carries a nonce, the gateway's status and whether its      *)
(* amount equals the record's.  plan_callback_atomic tests the cases below *)
(* in this order; `current` and `booked` are the record's status and its   *)
(* last booked nonce, read under the row lock.                             *)

(* Mutant: an interim callback is taken for a success.                     *)
NormalizeCallback_InterimPays(current, ext) ==
  IF ext = "failed" THEN "failed_dispatch" ELSE "confirmed"

(* The status a callback asks for; anything but success or failure keeps   *)
(* the record where it is.                                                 *)
NormalizeCallback(current, ext) ==
  IF ext = "succeeded" THEN "confirmed"
  ELSE IF ext = "failed" THEN "failed_dispatch"
  ELSE current

IsReplay(booked, m) == booked = m.nonce

(* Mutant: the terminal test is left to the transition table.              *)
IsTerminalLocked_ByTable(current) == FALSE

IsTerminalLocked(current) == current \in Terminal

IsAmountMismatch(current, booked, m) ==
  /\ ~IsReplay(booked, m)
  /\ ~IsTerminalLocked(current)
  /\ ~m.amountOk

(* The callback reached the state machine: first use of its nonce in a row,*)
(* a record that is still open, the right amount.                          *)
IsAdmitted(current, booked, m) ==
  /\ ~IsReplay(booked, m)
  /\ ~IsTerminalLocked(current)
  /\ m.amountOk

IsProcessing(current, booked, m) ==
  /\ IsAdmitted(current, booked, m)
  /\ NormalizeCallback(current, m.status) = current

IsApplied(current, booked, m) ==
  /\ IsAdmitted(current, booked, m)
  /\ CanTransition(current, NormalizeCallback(current, m.status))
=============================================================================
