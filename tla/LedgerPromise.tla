----------------------------- MODULE LedgerPromise -----------------------------
(***************************************************************************)
(* What ExecutionEngine takes for granted about the store: one operation   *)
(* has one execution record, the right to submit it is given once, and a   *)
(* callback changes the record, the operation and the audit log in one     *)
(* step or not at all.                                                     *)
(***************************************************************************)
EXTENDS ExecutionTypes

CONSTANTS Callers, Messages, NoRow, NoNonce

VARIABLES
  row,        \* the execution record of the operation, or NoRow
  operation,  \* status of the operation
  audits,     \* entries of the audit log written for callbacks
  submitters  \* who was given the right to submit

promiseVars == <<row, operation, audits, submitters>>

Fresh == [status |-> "pending_submit", attempts |-> 0, nonce |-> NoNonce]

PromiseInit ==
  /\ row = NoRow
  /\ operation = "pending"
  /\ audits = 0
  /\ submitters = {}

Create ==
  /\ row = NoRow
  /\ row' = Fresh
  /\ UNCHANGED <<operation, audits, submitters>>

Claim(c) ==
  /\ row # NoRow
  /\ row.status = "pending_submit" /\ row.attempts = 0
  /\ row' = [row EXCEPT !.attempts = 1]
  /\ submitters' = submitters \cup {c}
  /\ UNCHANGED <<operation, audits>>

Write ==
  /\ row # NoRow
  /\ \E s \in ExecutionStatus : row' = [row EXCEPT !.status = s]
  /\ UNCHANGED <<operation, audits, submitters>>

WriteOperation ==
  /\ operation' \in OperationStatus
  /\ UNCHANGED <<row, audits, submitters>>

Book(m) ==
  /\ row # NoRow
  /\ row' = [row EXCEPT !.nonce = m.nonce]
  /\ UNCHANGED <<operation, audits, submitters>>

Settle(m) ==
  /\ row # NoRow
  /\ \/ /\ IsAmountMismatch(row.status, row.nonce, m)
        /\ row' = [row EXCEPT !.status = "mismatched", !.nonce = m.nonce]
        /\ operation' = "human_handoff"
     \/ /\ IsApplied(row.status, row.nonce, m)
        /\ row' = [row EXCEPT !.status = NormalizeCallback(@, m.status), !.nonce = m.nonce]
        /\ operation' = "executed"
  /\ audits' = audits + 1
  /\ UNCHANGED submitters

PromiseNext ==
  \/ Create \/ Write \/ WriteOperation
  \/ \E c \in Callers : Claim(c)
  \/ \E m \in Messages : Book(m) \/ Settle(m)

LedgerSpec == PromiseInit /\ [][PromiseNext]_promiseVars
=============================================================================
