---------------------------- MODULE ExecutionProofs ----------------------------
(***************************************************************************)
(* Proofs about ExecutionEngine for any sets of operations, handler slots  *)
(* and nonces, any bound on crashes, and any deployment, in four parts:    *)
(*                                                                         *)
(*   1. types and the claim: an operation is submitted once;               *)
(*   2. verdicts: a record tells the truth about the money, and settling   *)
(*      reverses refused payments only;                                    *)
(*   3. funds: the execution chain implements FundsPromise, callbacks keep *)
(*      closed records closed, and with one handler at a time records stay *)
(*      closed and operations agree with them;                             *)
(*   4. the record between its creation and the outcome of the submission: *)
(*      somebody who is alive carries it on.                               *)
(***************************************************************************)
EXTENDS ExecutionProperties, TLAPS

(* Part 1: types and the claim.                                            *)

(* A slot is idle or works on an operation.                                *)
SlotInv ==
  \A p \in Procs :
    \/ task[p] = Idle
    \/ task[p].pc # "idle" /\ task[p].op \in Ops

(* Who may still submit: an unclaimed operation was never submitted, and   *)
(* the holder of the claim is the only one and has not submitted yet.      *)
ClaimInv ==
  /\ \A o \in Ops : exec[o].attempts = 0 => submits[o] = 0
  /\ \A p \in Procs :
       At(p, "submit") => exec[OpOf(p)].attempts = 1 /\ submits[OpOf(p)] = 0
  /\ \A p, q \in Procs :
       At(p, "submit") /\ At(q, "submit") /\ OpOf(p) = OpOf(q) => p = q
  /\ \A o \in Ops : submits[o] <= 1

(* A step of slot p that moves only that slot, outside the submission.     *)
PlainMove(p) ==
  /\ \A q \in Procs : q # p => task'[q] = task[q]
  /\ \/ task'[p] = Idle
     \/ task'[p].pc \notin {"idle", "submit"} /\ task'[p].op \in Ops
  /\ \A o \in Ops : exec'[o].attempts = exec[o].attempts
  /\ submits' = submits

-----------------------------------------------------------------------------
(* Lemmas about moving a handler.                                          *)

LEMMA CanTransitionType ==
  ASSUME NEW s, NEW t, CanTransition(s, t)
  PROVE  s \in ExecutionStatus \ Terminal /\ t \in ExecutionStatus
BY DEF CanTransition, Transitions, ExecutionStatus, Terminal, IntermediateAbnormal

LEMMA GotoType ==
  ASSUME task \in [Procs -> Task], NEW p \in Procs, NEW pc \in Pc,
         NEW snap \in RowStatus, GotoWith(p, pc, snap)
  PROVE  /\ task' \in [Procs -> Task]
         /\ \A q \in Procs : q # p => task'[q] = task[q]
         /\ pc = "idle" => task'[p] = Idle
         /\ pc # "idle" => /\ task'[p].pc = pc
                           /\ task'[p].op = task[p].op
                           /\ task'[p].kind = task[p].kind
                           /\ task'[p].snap = snap
<1>1. Idle \in Task
  BY DEF Idle, Task, Pc, RowStatus
<1>2. [pc |-> pc, kind |-> task[p].kind, op |-> task[p].op, snap |-> snap] \in Task
  BY DEF Task
<1>3. QED
  BY <1>1, <1>2 DEF GotoWith

LEMMA AfterRaiseType ==
  ASSUME NEW p
  PROVE  AfterRaise(p) \in Pc \ {"submit"}
BY DEF AfterRaise, Pc

(* What a handler does that only moves on.                                 *)
LEMMA GotoMove ==
  ASSUME TypeOK, SlotInv, NEW p \in Procs, ~At(p, "idle"),
         NEW pc \in Pc \ {"submit"}, NEW snap \in RowStatus,
         GotoWith(p, pc, snap),
         \A o \in Ops : exec'[o].attempts = exec[o].attempts,
         submits' = submits
  PROVE  task' \in [Procs -> Task] /\ PlainMove(p)
<1>1. task[p].op \in Ops
  BY DEF SlotInv, At, Idle
<1>2. /\ task' \in [Procs -> Task]
      /\ \A q \in Procs : q # p => task'[q] = task[q]
      /\ pc = "idle" => task'[p] = Idle
      /\ pc # "idle" => task'[p].pc = pc /\ task'[p].op = task[p].op
  BY GotoType DEF TypeOK
<1>3. QED
  BY <1>1, <1>2 DEF PlainMove

LEMMA SnapType ==
  ASSUME TypeOK, NEW p \in Procs
  PROVE  task[p].snap \in RowStatus
BY DEF TypeOK, Task

LEMMA RowType ==
  ASSUME TypeOK, NEW o \in Ops
  PROVE  /\ exec[o].status \in RowStatus
         /\ exec[o].attempts \in {0, 1}
         /\ exec[o].txn \in BOOLEAN
         /\ exec[o].nonce \in Nonces \cup {NoNonce}
BY DEF TypeOK, ExecRow

LEMMA WriteRowType ==
  ASSUME TypeOK, NEW o \in Ops, NEW s \in RowStatus, NEW a \in {0, 1},
         NEW x \in BOOLEAN, NEW n \in Nonces \cup {NoNonce},
         WriteRow(o, s, a, x, n)
  PROVE  /\ exec' \in [Ops -> ExecRow]
         /\ exec'[o].status = s
         /\ exec'[o].attempts = a
         /\ exec'[o].nonce = n
         /\ \A r \in Ops : r # o => exec'[r] = exec[r]
<1>1. [status |-> s, attempts |-> a, txn |-> x, nonce |-> n] \in ExecRow
  BY DEF ExecRow
<1>2. QED
  BY <1>1 DEF WriteRow, TypeOK

(* A transition writes the status it names, or raises and writes nothing.  *)
LEMMA TransitionMove ==
  ASSUME TypeOK, SlotInv, NEW p \in Procs, ~At(p, "idle"),
         NEW s \in RowStatus, NEW x \in BOOLEAN, NEW pc \in Pc \ {"submit"},
         Transition(p, s, x, pc), submits' = submits
  PROVE  /\ exec' \in [Ops -> ExecRow]
         /\ task' \in [Procs -> Task]
         /\ PlainMove(p)
         /\ \A o \in Ops : o # OpOf(p) => exec'[o] = exec[o]
         /\ \/ exec' = exec
            \/ exec'[OpOf(p)].status = s
<1>1. OpOf(p) \in Ops
  BY DEF SlotInv, At, Idle, OpOf
<1>2. task[p].snap \in RowStatus
  BY SnapType
<1>3. CASE CanTransition(task[p].snap, s)
  <2>1. WriteRow(OpOf(p), s, exec[OpOf(p)].attempts, exec[OpOf(p)].txn \/ x,
                 exec[OpOf(p)].nonce)
    BY <1>3 DEF Transition
  <2>2. exec[OpOf(p)].txn \/ x \in BOOLEAN
    OBVIOUS
  <2>3. /\ exec' \in [Ops -> ExecRow]
        /\ exec'[OpOf(p)].status = s
        /\ exec'[OpOf(p)].attempts = exec[OpOf(p)].attempts
        /\ \A r \in Ops : r # OpOf(p) => exec'[r] = exec[r]
    BY <1>1, <2>1, <2>2, RowType, WriteRowType
  <2>4. GotoWith(p, pc, task[p].snap)
    BY <1>3 DEF Transition, Goto
  <2>5. \A o \in Ops : exec'[o].attempts = exec[o].attempts
    BY <2>3
  <2>6. task' \in [Procs -> Task] /\ PlainMove(p)
    BY <1>2, <2>4, <2>5, GotoMove
  <2>7. QED
    BY <2>3, <2>6
<1>4. CASE ~CanTransition(task[p].snap, s)
  <2>1. GotoWith(p, AfterRaise(p), task[p].snap) /\ exec' = exec
    BY <1>4 DEF Transition, Goto
  <2>2. task' \in [Procs -> Task] /\ PlainMove(p)
    BY <1>2, <2>1, AfterRaiseType, GotoMove
  <2>3. QED
    BY <2>1, <2>2 DEF TypeOK
<1>5. QED
  BY <1>3, <1>4

(* A plain move leaves the claim to submit where it is.                    *)
LEMMA PlainMoveKeepsClaim ==
  ASSUME TypeOK, SlotInv, ClaimInv, NEW p \in Procs, PlainMove(p)
  PROVE  SlotInv' /\ ClaimInv'
<1>1. SlotInv'
  BY DEF SlotInv, PlainMove
<1>2. \A q \in Procs : (At(q, "submit"))' => q # p /\ At(q, "submit") /\ OpOf(q)' = OpOf(q)
  BY DEF PlainMove, At, OpOf, Idle
<1>3. \A q \in Procs : (At(q, "submit"))' => OpOf(q) \in Ops
  BY <1>2 DEF SlotInv, At, OpOf, Idle
<1>4. ClaimInv'
  BY <1>2, <1>3 DEF ClaimInv, PlainMove
<1>5. QED
  BY <1>1, <1>4

-----------------------------------------------------------------------------
(* The inductive invariant and the steps that preserve it.                 *)

IInv == TypeOK /\ SlotInv /\ ClaimInv

LEMMA InitInv == Init => IInv
<1> SUFFICES ASSUME Init PROVE IInv
  OBVIOUS
<1>1. NoRow \in ExecRow /\ Idle \in Task
  BY DEF NoRow, ExecRow, RowStatus, Idle, Task, Pc
<1>2. TypeOK
  BY <1>1 DEF Init, TypeOK, OperationStatus, GatewayStatus, Callback
<1>3. SlotInv
  BY DEF Init, SlotInv
<1>4. ClaimInv
  BY DEF Init, ClaimInv, At, Idle
<1>5. QED
  BY <1>2, <1>3, <1>4 DEF IInv

(* A step that moves one handler and leaves the records alone.             *)
LEMMA QuietStep ==
  ASSUME IInv, NEW p \in Procs, ~At(p, "idle"),
         NEW pc \in Pc \ {"submit"}, NEW snap \in RowStatus,
         GotoWith(p, pc, snap), UNCHANGED <<exec, gateway, submits, mail>>,
         opStatus' \in [Ops -> OperationStatus],
         reversed' \in [Ops -> BOOLEAN], crashes' \in Nat,
         disturbed' \subseteq Ops, settings' = settings
  PROVE  IInv'
<1>1. task' \in [Procs -> Task] /\ PlainMove(p)
  BY GotoMove DEF IInv
<1>2. TypeOK'
  BY <1>1 DEF IInv, TypeOK
<1>3. QED
  BY <1>1, <1>2, PlainMoveKeepsClaim DEF IInv

(* A step that is one _transition.                                         *)
LEMMA TransitionStep ==
  ASSUME IInv, NEW p \in Procs, ~At(p, "idle"), NEW s \in RowStatus,
         NEW x \in BOOLEAN, NEW pc \in Pc \ {"submit"},
         Transition(p, s, x, pc), UNCHANGED <<opStatus, outside, aside>>
  PROVE  IInv'
<1>1. submits' = submits
  BY DEF outside
<1>2. /\ exec' \in [Ops -> ExecRow]
      /\ task' \in [Procs -> Task]
      /\ PlainMove(p)
  BY <1>1, TransitionMove DEF IInv
<1>3. TypeOK'
  BY <1>2 DEF IInv, TypeOK, outside, aside
<1>4. QED
  BY <1>2, <1>3, PlainMoveKeepsClaim DEF IInv

(* A step that writes a row without touching its attempts and then moves.  *)
LEMMA WriteStep ==
  ASSUME IInv, NEW p \in Procs, ~At(p, "idle"), NEW s \in RowStatus,
         NEW x \in BOOLEAN, NEW n \in Nonces \cup {NoNonce},
         NEW pc \in Pc \ {"submit"}, NEW snap \in RowStatus,
         WriteRow(OpOf(p), s, exec[OpOf(p)].attempts, x, n),
         GotoWith(p, pc, snap), UNCHANGED <<opStatus, outside, aside>>
  PROVE  IInv'
<1>1. OpOf(p) \in Ops
  BY DEF IInv, SlotInv, At, Idle, OpOf
<1>2. /\ exec' \in [Ops -> ExecRow]
      /\ \A o \in Ops : exec'[o].attempts = exec[o].attempts
  BY <1>1, RowType, WriteRowType DEF IInv
<1>3. task' \in [Procs -> Task] /\ PlainMove(p)
  BY <1>2, GotoMove DEF IInv, outside
<1>4. TypeOK'
  BY <1>2, <1>3 DEF IInv, TypeOK, outside, aside
<1>5. QED
  BY <1>3, <1>4, PlainMoveKeepsClaim DEF IInv

(* A handler begins on an idle slot.                                       *)
LEMMA BeginStep ==
  ASSUME IInv, NEW p \in Procs, NEW kind \in Kind, NEW o \in Ops,
         NEW pc \in Pc \ {"idle", "submit"}, NEW snap \in RowStatus,
         Begin(p, kind, o, pc, snap), Join(o), UNCHANGED <<outside, crashes, settings>>,
         exec' \in [Ops -> ExecRow],
         \A r \in Ops : exec'[r].attempts = exec[r].attempts,
         opStatus' \in [Ops -> OperationStatus]
  PROVE  IInv'
<1>1. [pc |-> pc, kind |-> kind, op |-> o, snap |-> snap] \in Task
  BY DEF Task
<1>2. task' \in [Procs -> Task] /\ PlainMove(p)
  BY <1>1 DEF Begin, PlainMove, IInv, TypeOK, outside
<1>3. disturbed' \subseteq Ops
  BY DEF Join, IInv, TypeOK
<1>4. TypeOK'
  BY <1>2, <1>3 DEF IInv, TypeOK, outside
<1>5. QED
  BY <1>2, <1>4, PlainMoveKeepsClaim DEF IInv

LEMMA ClaimSubmitInv ==
  ASSUME IInv, NEW p \in Procs, ClaimSubmit(p)
  PROVE  IInv'
<1> DEFINE o == OpOf(p)
<1>1. o \in Ops /\ ~At(p, "idle") /\ task[p].snap \in RowStatus
  BY SnapType DEF IInv, SlotInv, At, Idle, OpOf, ClaimSubmit
<1>2. CASE exec[o].status = "pending_submit" /\ exec[o].attempts = 0
  <2>1. /\ WriteRow(o, exec[o].status, 1, exec[o].txn, exec[o].nonce)
        /\ GotoWith(p, "submit", task[p].snap)
        /\ UNCHANGED <<opStatus, outside, aside>>
    BY <1>2 DEF ClaimSubmit, Goto
  <2>2. /\ exec' \in [Ops -> ExecRow]
        /\ exec'[o].attempts = 1
        /\ \A r \in Ops : r # o => exec'[r] = exec[r]
    BY <1>1, <2>1, RowType, WriteRowType DEF IInv
  <2>3. /\ task' \in [Procs -> Task]
        /\ \A q \in Procs : q # p => task'[q] = task[q]
        /\ task'[p].pc = "submit" /\ task'[p].op = o
    BY <1>1, <2>1, GotoType DEF IInv, TypeOK, Pc, OpOf
  <2>4. TypeOK'
    BY <2>1, <2>2, <2>3 DEF IInv, TypeOK, outside, aside
  <2>5. SlotInv'
    BY <1>1, <2>3 DEF IInv, SlotInv
  <2>6. \A q \in Procs : At(q, "submit") => OpOf(q) # o
    BY <1>2 DEF IInv, ClaimInv
  <2>7. \A q \in Procs : At(q, "submit") => OpOf(q) \in Ops
    BY DEF IInv, SlotInv, At, OpOf, Idle
  <2>8. submits[o] = 0 /\ submits' = submits
    BY <1>1, <1>2, <2>1 DEF IInv, ClaimInv, outside
  <2>9. ClaimInv'
    <3>1. \A r \in Ops : exec'[r].attempts = 0 => submits'[r] = 0
      BY <2>2, <2>8 DEF IInv, ClaimInv
    <3>2. \A q \in Procs : At(q, "submit")' =>
            exec'[OpOf(q)'].attempts = 1 /\ submits'[OpOf(q)'] = 0
      BY <2>2, <2>3, <2>7, <2>8 DEF IInv, ClaimInv, At, OpOf
    <3>3. \A q, r \in Procs :
            At(q, "submit")' /\ At(r, "submit")' /\ OpOf(q)' = OpOf(r)' => q = r
      BY <2>3, <2>6 DEF IInv, ClaimInv, At, OpOf
    <3>4. \A r \in Ops : submits'[r] <= 1
      BY <2>8 DEF IInv, ClaimInv
    <3>5. QED
      BY <3>1, <3>2, <3>3, <3>4 DEF ClaimInv
  <2>10. QED
    BY <2>4, <2>5, <2>9 DEF IInv
<1>3. CASE ~(exec[o].status = "pending_submit" /\ exec[o].attempts = 0)
  <2>1. GotoWith(p, "idle", task[p].snap) /\ UNCHANGED <<exec, opStatus, outside, aside>>
    BY <1>3 DEF ClaimSubmit, Return, Goto
  <2>2. QED
    BY <1>1, <2>1, QuietStep DEF IInv, TypeOK, outside, aside, Pc
<1>4. QED
  BY <1>2, <1>3

LEMMA SubmitInv ==
  ASSUME IInv, NEW p \in Procs, Submit(p)
  PROVE  IInv'
<1> DEFINE o == OpOf(p)
<1>1. o \in Ops /\ At(p, "submit") /\ task[p].snap \in RowStatus
  BY SnapType DEF IInv, SlotInv, At, Idle, OpOf, Submit
<1>2. exec[o].attempts = 1 /\ submits[o] = 0
  BY <1>1 DEF IInv, ClaimInv
<1>3. /\ submits' \in [Ops -> Nat]
      /\ submits'[o] = 1
      /\ \A r \in Ops : r # o => submits'[r] = submits[r]
  BY <1>1, <1>2 DEF Submit, IInv, TypeOK
<1>4. gateway' \in [Ops -> GatewayStatus]
  BY DEF Submit, IInv, TypeOK, Outcome, LostOutcome, GatewayStatus
<1>5. PICK pc \in {"recordSubmitted", "recordDispatchFailed", "recordUncertain"} :
        GotoWith(p, pc, task[p].snap)
  BY DEF Submit, Goto
<1>6. /\ task' \in [Procs -> Task]
      /\ \A q \in Procs : q # p => task'[q] = task[q]
      /\ task'[p].pc = pc /\ task'[p].op = o
  BY <1>1, <1>5, GotoType DEF IInv, TypeOK, Pc, OpOf
<1>7. TypeOK'
  BY <1>3, <1>4, <1>6 DEF IInv, TypeOK, Submit, aside
<1>8. SlotInv'
  BY <1>1, <1>6 DEF IInv, SlotInv
<1>9. \A q \in Procs : At(q, "submit")' =>
        q # p /\ At(q, "submit") /\ OpOf(q)' = OpOf(q) /\ OpOf(q) \in Ops
  BY <1>6 DEF At, OpOf, IInv, SlotInv, Idle
<1>10. \A q \in Procs : At(q, "submit")' => OpOf(q) # o
  BY <1>1, <1>9 DEF IInv, ClaimInv
<1>11. exec' = exec
  BY DEF Submit
<1>12. ClaimInv'
  <2>1. \A r \in Ops : exec'[r].attempts = 0 => submits'[r] = 0
    BY <1>2, <1>3, <1>11 DEF IInv, ClaimInv
  <2>2. \A q \in Procs : At(q, "submit")' =>
          exec'[OpOf(q)'].attempts = 1 /\ submits'[OpOf(q)'] = 0
    BY <1>3, <1>9, <1>10, <1>11 DEF IInv, ClaimInv
  <2>3. \A q, r \in Procs :
          At(q, "submit")' /\ At(r, "submit")' /\ OpOf(q)' = OpOf(r)' => q = r
    BY <1>9 DEF IInv, ClaimInv
  <2>4. \A r \in Ops : submits'[r] <= 1
    BY <1>3 DEF IInv, ClaimInv
  <2>5. QED
    BY <2>1, <2>2, <2>3, <2>4 DEF ClaimInv
<1>13. QED
  BY <1>7, <1>8, <1>12 DEF IInv

LEMMA CreateInv ==
  ASSUME IInv, NEW p \in Procs, Create(p)
  PROVE  IInv'
<1> DEFINE o == OpOf(p)
           s == IF exec[o].status = "absent" THEN "pending_submit" ELSE exec[o].status
<1>1. ~At(p, "idle") /\ o \in Ops
  BY DEF Create, At, IInv, SlotInv, Idle, OpOf
<1>2. s \in RowStatus /\ exec[o].txn \in BOOLEAN /\ exec[o].nonce \in Nonces \cup {NoNonce}
  BY <1>1, RowType DEF IInv, RowStatus, ExecutionStatus, UnusedStatuses
<1>3. AfterCreate \in Pc \ {"submit"}
  BY DEF AfterCreate, Pc
<1>4. /\ WriteRow(o, s, exec[o].attempts, exec[o].txn, exec[o].nonce)
      /\ GotoWith(p, AfterCreate, s)
      /\ UNCHANGED <<opStatus, outside, aside>>
  BY DEF Create
<1>5. QED
  BY <1>1, <1>2, <1>3, <1>4, WriteStep

LEMMA RecordSubmittedInv ==
  ASSUME IInv, NEW p \in Procs, RecordSubmitted(p)
  PROVE  IInv'
<1> DEFINE o == OpOf(p)
<1>1. ~At(p, "idle") /\ o \in Ops /\ task[p].snap \in RowStatus
  BY SnapType DEF RecordSubmitted, At, IInv, SlotInv, Idle, OpOf
<1>2. CASE exec[o].status = "pending_submit"
  <2>1. /\ WriteRow(o, "submitted", exec[o].attempts, TRUE, exec[o].nonce)
        /\ GotoWith(p, "readSubmitted", task[p].snap)
        /\ UNCHANGED <<opStatus, outside, aside>>
    BY <1>2 DEF RecordSubmitted, Goto
  <2>2. "submitted" \in RowStatus /\ "readSubmitted" \in Pc \ {"submit"}
    BY DEF RowStatus, ExecutionStatus, UnusedStatuses, Pc
  <2>3. exec[o].nonce \in Nonces \cup {NoNonce}
    BY <1>1, RowType DEF IInv
  <2>4. QED
    BY <1>1, <2>1, <2>2, <2>3, WriteStep
<1>3. CASE exec[o].status # "pending_submit"
  <2>1. GotoWith(p, "idle", task[p].snap) /\ UNCHANGED <<exec, opStatus, outside, aside>>
    BY <1>3 DEF RecordSubmitted, Return, Goto
  <2>2. QED
    BY <1>1, <2>1, QuietStep DEF IInv, TypeOK, outside, aside, Pc
<1>4. QED
  BY <1>2, <1>3

(* Where a handler settles from, whatever copy it holds.                   *)
LEMMA SettleEntryType ==
  ASSUME NEW p, NEW s
  PROVE  SettleEntry(p, s) \in Pc \ {"submit"}
BY AfterRaiseType DEF SettleEntry, Pc

(* The actions that move one handler and write no record.                  *)
LEMMA QuietActionsInv ==
  ASSUME IInv, NEW p \in Procs,
         \/ Lookup(p) \/ ReadSubmitted(p) \/ SettleRead(p) \/ NormaliseRead(p)
         \/ Compensate(p) \/ Query(p)
         \/ OpExecuted(p) \/ OpHandoff(p) \/ OpFailed(p) \/ Crash(p)
  PROVE  IInv'
<1>1. ~At(p, "idle")
  BY DEF Lookup, ReadSubmitted, SettleRead, NormaliseRead, Compensate, Query,
         OpExecuted, OpHandoff, OpFailed, MarkOperation, Crash, At
<1>2. OpOf(p) \in Ops
  BY <1>1 DEF At, IInv, SlotInv, Idle, OpOf
<1>3. \E pc \in Pc \ {"submit"}, snap \in RowStatus : GotoWith(p, pc, snap)
  <2>1. task[p].snap \in RowStatus /\ exec[OpOf(p)].status \in RowStatus
    BY <1>2, SnapType, RowType DEF IInv
  <2>2. CASE Lookup(p)
    BY <2>1, <2>2, AfterRaiseType DEF Lookup, Return, Goto, Pc
  <2>3. CASE ReadSubmitted(p)
    BY <2>1, <2>3 DEF ReadSubmitted, Return, Goto, Pc
  <2>4. CASE SettleRead(p)
    BY <2>1, <2>4, SettleEntryType DEF SettleRead, EnterSettle
  <2>5. CASE NormaliseRead(p)
    BY <2>1, <2>5 DEF NormaliseRead, Pc
  <2>6. CASE Compensate(p)
    BY <2>1, <2>6 DEF Compensate, Goto, Pc
  <2>7. CASE Query(p)
    BY <2>1, <2>7, SettleEntryType DEF Query, Goto, EnterSettle, Pc
  <2>8. CASE OpExecuted(p) \/ OpHandoff(p) \/ OpFailed(p) \/ Crash(p)
    BY <2>1, <2>8 DEF OpExecuted, OpHandoff, OpFailed, MarkOperation, Crash,
                      Return, Goto, Pc
  <2>9. QED
    BY <2>2, <2>3, <2>4, <2>5, <2>6, <2>7, <2>8
<1>4. UNCHANGED <<exec, gateway, submits, mail>>
  BY DEF Lookup, ReadSubmitted, SettleRead, NormaliseRead, Compensate, Query,
         OpExecuted, OpHandoff, OpFailed, MarkOperation, Crash, outside
<1>5. opStatus' \in [Ops -> OperationStatus]
  BY <1>2 DEF IInv, TypeOK, Lookup, ReadSubmitted, SettleRead, NormaliseRead,
         Compensate, Query, OpExecuted, OpHandoff, OpFailed, MarkOperation,
         WriteOp, Crash, OperationStatus
<1>6. reversed' \in [Ops -> BOOLEAN]
  <2>1. CASE Compensate(p)
    BY <2>1 DEF Compensate, IInv, TypeOK
  <2>2. CASE ~Compensate(p)
    BY <2>2 DEF IInv, TypeOK, Lookup, ReadSubmitted, SettleRead, NormaliseRead, Query,
         OpExecuted, OpHandoff, OpFailed, MarkOperation, Crash, outside
  <2>3. QED
    BY <2>1, <2>2
<1>7. crashes' \in Nat /\ disturbed' \subseteq Ops /\ settings' = settings
  <2>1. CASE Crash(p)
    BY <1>2, <2>1 DEF Crash, IInv, TypeOK
  <2>2. CASE ~Crash(p)
    BY <2>2 DEF IInv, TypeOK, Lookup, ReadSubmitted, SettleRead, NormaliseRead,
           Compensate, Query, OpExecuted, OpHandoff, OpFailed, MarkOperation, aside
  <2>3. QED
    BY <2>1, <2>2
<1>8. QED
  BY <1>1, <1>3, <1>4, <1>5, <1>6, <1>7, QuietStep

(* The actions that are one _transition.                                   *)
LEMMA TransitionActionsInv ==
  ASSUME IInv, NEW p \in Procs,
         \/ ShadowConfirm(p) \/ RecordUncertain(p) \/ RecordDispatchFailed(p)
         \/ Normalise(p) \/ RecordCompensated(p) \/ RecordCompensationFailed(p)
         \/ RecordConfirmed(p) \/ RecordMismatch(p)
  PROVE  IInv'
<1>1. ~At(p, "idle")
  BY DEF ShadowConfirm, RecordUncertain, RecordDispatchFailed, Normalise,
         RecordCompensated, RecordCompensationFailed, RecordConfirmed,
         RecordMismatch, At
<1>2. \E s \in RowStatus, x \in BOOLEAN, pc \in Pc \ {"submit"} : Transition(p, s, x, pc)
  <2>1. {"confirmed", "failed_uncertain", "failed_dispatch", "compensated",
         "compensation_failed", "mismatched"} \subseteq RowStatus
    BY DEF RowStatus, ExecutionStatus, UnusedStatuses
  <2>2. {"opExecuted", "settleRead", "normaliseRead", "opHandoff", "idle"}
          \subseteq Pc \ {"submit"}
    BY DEF Pc
  <2>3. QED
    BY <2>1, <2>2
       DEF ShadowConfirm, RecordUncertain, RecordDispatchFailed, Normalise,
           RecordCompensated, RecordCompensationFailed, RecordConfirmed,
           RecordMismatch, AfterCompensation
<1>3. UNCHANGED <<opStatus, outside, aside>>
  BY DEF ShadowConfirm, RecordUncertain, RecordDispatchFailed, Normalise,
         RecordCompensated, RecordCompensationFailed, RecordConfirmed,
         RecordMismatch
<1>4. QED
  BY <1>1, <1>2, <1>3, TransitionStep

LEMMA StepInv ==
  ASSUME IInv, NEW p \in Procs, Step(p) \/ Crash(p)
  PROVE  IInv'
BY QuietActionsInv, TransitionActionsInv, CreateInv, ClaimSubmitInv, SubmitInv,
   RecordSubmittedInv DEF Step

LEMMA StartInv ==
  ASSUME IInv, NEW p \in Procs, NEW o \in Ops,
         StartExecute(p, o) \/ StartReconcile(p, o) \/ StartCompensate(p, o)
  PROVE  IInv'
<1>1. exec[o].status \in RowStatus /\ "absent" \in RowStatus
  BY RowType DEF IInv, RowStatus
<1>2. \E kind \in Kind, pc \in Pc \ {"idle", "submit"}, snap \in RowStatus :
        Begin(p, kind, o, pc, snap)
  BY <1>1 DEF StartExecute, StartReconcile, StartCompensate, Kind, Pc
<1>3. UNCHANGED <<exec, opStatus, outside, crashes, settings>> /\ Join(o)
  BY DEF StartExecute, StartReconcile, StartCompensate
<1>4. exec' \in [Ops -> ExecRow] /\ opStatus' \in [Ops -> OperationStatus]
  BY <1>3 DEF IInv, TypeOK
<1>5. QED
  BY <1>2, <1>3, <1>4, BeginStep

(* What a callback may write is a status a row can have.                   *)
LEMMA NormalizeType ==
  ASSUME NEW s \in RowStatus, NEW ext
  PROVE  NormalizeCallback(s, ext) \in RowStatus
BY DEF NormalizeCallback, RowStatus, ExecutionStatus, UnusedStatuses

LEMMA DeliverCallbackInv ==
  ASSUME IInv, NEW p \in Procs, NEW m \in mail, DeliverCallback(p, m)
  PROVE  IInv'
<1> DEFINE o == m.op
<1>1. o \in Ops /\ m.nonce \in Nonces
  BY DEF IInv, TypeOK, Callback
<1>2. /\ exec[o].status \in RowStatus
      /\ NormalizeCallback(exec[o].status, m.status) \in RowStatus
      /\ "mismatched" \in RowStatus /\ "absent" \in RowStatus
  BY <1>1, RowType, NormalizeType DEF IInv, RowStatus, ExecutionStatus, UnusedStatuses
<1>3. PICK s \in RowStatus : BookNonce(o, s, m)
  BY <1>2 DEF DeliverCallback
<1>4. /\ exec' \in [Ops -> ExecRow]
      /\ \A r \in Ops : exec'[r].attempts = exec[r].attempts
  BY <1>1, <1>3, RowType, WriteRowType DEF BookNonce, IInv
<1>5. opStatus' \in [Ops -> OperationStatus]
  BY <1>1 DEF DeliverCallback, WriteOp, IInv, TypeOK, OperationStatus
<1>6. UNCHANGED <<outside, crashes, settings>> /\ Join(o)
  BY DEF DeliverCallback
<1>7. CASE Begin(p, "callback", o, "settleRead", "absent")
  <2>1. "callback" \in Kind /\ "settleRead" \in Pc \ {"idle", "submit"}
    BY DEF Kind, Pc
  <2>2. QED
    BY <1>1, <1>2, <1>4, <1>5, <1>6, <1>7, <2>1, BeginStep
<1>8. CASE UNCHANGED task
  <2>1. TypeOK'
    BY <1>1, <1>4, <1>5, <1>6, <1>8 DEF IInv, TypeOK, outside, Join
  <2>2. SlotInv' /\ ClaimInv'
    BY <1>4, <1>6, <1>8 DEF IInv, SlotInv, ClaimInv, At, OpOf, Idle, outside
  <2>3. QED
    BY <2>1, <2>2 DEF IInv
<1>9. QED
  BY <1>7, <1>8 DEF DeliverCallback

(* The gateway's own steps and stuttering.                                 *)
LEMMA GatewayInv ==
  ASSUME IInv,
         \/ \E o \in Ops : GatewayResolve(o)
         \/ \E o \in Ops, n \in Nonces : GatewayNotify(o, n)
         \/ UNCHANGED vars
  PROVE  IInv'
<1>1. UNCHANGED <<exec, task, submits, opStatus, reversed, aside>>
  BY DEF GatewayResolve, GatewayNotify, vars, aside
<1>2. gateway' \in [Ops -> GatewayStatus]
  BY DEF GatewayResolve, GatewayNotify, vars, IInv, TypeOK, GatewayStatus
<1>3. mail' \subseteq Callback
  <2>1. CASE \E o \in Ops, n \in Nonces : GatewayNotify(o, n)
    <3>1. PICK o \in Ops, n \in Nonces : GatewayNotify(o, n)
      BY <2>1
    <3>2. PICK ok \in BOOLEAN, s \in {gateway[o], "processing"} \ {"inflight"} :
            mail' = mail \cup {[op |-> o, nonce |-> n, status |-> s, amountOk |-> ok]}
      BY <3>1 DEF GatewayNotify
    <3>3. s \in {"succeeded", "failed", "processing"}
      BY <3>1, <3>2 DEF GatewayNotify, IInv, TypeOK, GatewayStatus
    <3>4. QED
      BY <3>2, <3>3 DEF IInv, TypeOK, Callback
  <2>2. CASE ~\E o \in Ops, n \in Nonces : GatewayNotify(o, n)
    BY <2>2 DEF GatewayResolve, vars, IInv, TypeOK
  <2>3. QED
    BY <2>1, <2>2
<1>4. TypeOK'
  BY <1>1, <1>2, <1>3 DEF IInv, TypeOK, aside
<1>5. SlotInv' /\ ClaimInv'
  BY <1>1 DEF IInv, SlotInv, ClaimInv, At, OpOf
<1>6. QED
  BY <1>4, <1>5 DEF IInv

LEMMA NextInv == IInv /\ [Next]_vars => IInv'
<1> SUFFICES ASSUME IInv, [Next]_vars PROVE IInv'
  OBVIOUS
<1>1. CASE \E p \in Procs : Step(p) \/ Crash(p)
  BY <1>1, StepInv
<1>2. CASE \E p \in Threads, o \in Ops : StartExecute(p, o) \/ StartCompensate(p, o)
  BY <1>2, StartInv DEF Procs
<1>3. CASE \E p \in Threads : \E m \in mail : DeliverCallback(p, m)
  BY <1>3, DeliverCallbackInv DEF Procs
<1>4. CASE \E p \in Workers, o \in Ops : StartReconcile(p, o)
  BY <1>4, StartInv DEF Procs
<1>5. CASE \/ \E o \in Ops : GatewayResolve(o)
           \/ \E o \in Ops, n \in Nonces : GatewayNotify(o, n)
           \/ UNCHANGED vars
  BY <1>5, GatewayInv
<1>6. QED
  BY <1>1, <1>2, <1>3, <1>4, <1>5 DEF Next

(* The invariant holds in every reachable state.                           *)
LEMMA InvAlways == Spec => []IInv
<1>1. Init => IInv
  BY InitInv
<1>2. IInv /\ [Next]_vars => IInv'
  BY NextInv
<1>3. QED
  BY <1>1, <1>2, PTL DEF Spec

-----------------------------------------------------------------------------
(* The controlled execution switch: without it no handler reaches the      *)
(* claim, so none submits and the gateway knows of no payment.             *)

Funded == settings.mode = "live" /\ settings.provider

SwitchInv ==
  ~Funded => /\ \A p \in Procs : task[p].pc \notin {"claim", "submit"}
             /\ \A o \in Ops : submits[o] = 0 /\ gateway[o] = "none"

(* A step that takes no handler to the claim or to the submission and      *)
(* leaves the gateway alone.                                               *)
AwayFromClaim(p) ==
  /\ task'[p].pc \notin {"claim", "submit"}
  /\ \A q \in Procs : q # p => task'[q] = task[q]
  /\ UNCHANGED <<gateway, submits, settings>>

LEMMA AwayKeepsSwitch ==
  ASSUME SwitchInv, NEW p \in Procs, AwayFromClaim(p)
  PROVE  SwitchInv'
BY DEF SwitchInv, AwayFromClaim, Funded

LEMMA GotoAway ==
  ASSUME TypeOK, SwitchInv, NEW p \in Procs, NEW pc \in Pc \ {"claim", "submit"},
         NEW snap \in RowStatus, GotoWith(p, pc, snap),
         UNCHANGED <<gateway, submits, settings>>
  PROVE  SwitchInv'
<1>1. AwayFromClaim(p)
  BY GotoType DEF AwayFromClaim, Pc, Idle, TypeOK
<1>2. QED
  BY <1>1, AwayKeepsSwitch

LEMMA TransitionAway ==
  ASSUME TypeOK, SwitchInv, NEW p \in Procs, NEW s, NEW x,
         NEW pc \in Pc \ {"claim", "submit"}, Transition(p, s, x, pc),
         UNCHANGED <<opStatus, outside, aside>>
  PROVE  SwitchInv'
<1>1. AfterRaise(p) \in Pc \ {"claim", "submit"}
  BY DEF AfterRaise, Pc
<1>2. task[p].snap \in RowStatus
  BY SnapType
<1>3. PICK next \in Pc \ {"claim", "submit"} : GotoWith(p, next, task[p].snap)
  BY <1>1 DEF Transition, Goto
<1>4. QED
  BY <1>2, <1>3, GotoAway DEF outside, aside

LEMMA StepKeepsSwitch ==
  ASSUME IInv, SwitchInv, NEW p \in Procs, Step(p) \/ Crash(p)
  PROVE  SwitchInv'
<1>1. TypeOK /\ task[p].snap \in RowStatus
  BY SnapType DEF IInv
<1>2. (~At(p, "idle") => OpOf(p) \in Ops) /\ (OpOf(p) \in Ops => exec[OpOf(p)].status \in RowStatus)
  BY RowType DEF IInv, SlotInv, At, OpOf, Idle
<1>3. settings' = settings
  BY DEF Step, Lookup, Create, ShadowConfirm, ClaimSubmit, Submit, RecordSubmitted,
         ReadSubmitted, RecordUncertain, RecordDispatchFailed, SettleRead, Normalise,
         NormaliseRead, Compensate, RecordCompensated, RecordCompensationFailed, Query,
         RecordConfirmed, RecordMismatch, OpExecuted, OpHandoff, OpFailed,
         MarkOperation, Crash, aside
<1>4. CASE Funded
  BY <1>3, <1>4 DEF SwitchInv, Funded
<1>5. CASE ~Funded /\ Create(p)
  <2>1. AfterCreate \in Pc \ {"claim", "submit"}
    <3>1. settings.mode \in {"shadow", "live"}
      BY <1>1, SettingsAssumption DEF TypeOK
    <3>2. QED
      BY <1>5, <3>1 DEF AfterCreate, Funded, Pc
  <2>2. PICK snap \in RowStatus : GotoWith(p, AfterCreate, snap)
    BY <1>2, <1>5 DEF Create, At, RowStatus, ExecutionStatus, UnusedStatuses
  <2>3. QED
    BY <1>1, <1>5, <2>1, <2>2, GotoAway DEF Create, outside, aside
<1>6. CASE ~Funded /\ (ClaimSubmit(p) \/ Submit(p))
  BY <1>6 DEF SwitchInv, ClaimSubmit, Submit, At
<1>7. CASE RecordSubmitted(p)
  <2>1. PICK pc \in {"idle", "readSubmitted"} : GotoWith(p, pc, task[p].snap)
    BY <1>7 DEF RecordSubmitted, Return, Goto
  <2>2. QED
    BY <1>1, <1>7, <2>1, GotoAway DEF RecordSubmitted, outside, aside, Pc
<1>8. CASE \/ ShadowConfirm(p) \/ RecordUncertain(p) \/ RecordDispatchFailed(p)
           \/ Normalise(p) \/ RecordCompensated(p) \/ RecordCompensationFailed(p)
           \/ RecordConfirmed(p) \/ RecordMismatch(p)
  <2>1. PICK s \in RowStatus, x \in BOOLEAN,
             pc \in {"opExecuted", "settleRead", "normaliseRead", "opHandoff", "idle"} :
          Transition(p, s, x, pc)
    BY <1>8 DEF ShadowConfirm, RecordUncertain, RecordDispatchFailed, Normalise,
           RecordCompensated, RecordCompensationFailed, RecordConfirmed,
           RecordMismatch, AfterCompensation, RowStatus, ExecutionStatus, UnusedStatuses
  <2>2. UNCHANGED <<opStatus, outside, aside>>
    BY <1>8 DEF ShadowConfirm, RecordUncertain, RecordDispatchFailed, Normalise,
           RecordCompensated, RecordCompensationFailed, RecordConfirmed, RecordMismatch
  <2>3. pc \in Pc \ {"claim", "submit"}
    BY DEF Pc
  <2>4. QED
    BY <1>1, <2>1, <2>2, <2>3, TransitionAway
<1>9. CASE \/ Lookup(p) \/ ReadSubmitted(p) \/ SettleRead(p) \/ NormaliseRead(p)
           \/ Compensate(p) \/ Query(p)
           \/ OpExecuted(p) \/ OpHandoff(p) \/ OpFailed(p) \/ Crash(p)
  <2>1. \E pc \in Pc \ {"claim", "submit"}, snap \in RowStatus : GotoWith(p, pc, snap)
    BY <1>1, <1>2, <1>9 DEF Lookup, ReadSubmitted, SettleRead, NormaliseRead, Compensate,
       Query, OpExecuted, OpHandoff, OpFailed, MarkOperation, Crash, Return, Goto, At,
       EnterSettle, SettleEntry, AfterRaise, Pc
  <2>2. UNCHANGED <<gateway, submits>>
    BY <1>9 DEF Lookup, ReadSubmitted, SettleRead, NormaliseRead, Compensate, Query,
       OpExecuted, OpHandoff, OpFailed, MarkOperation, Crash, outside
  <2>3. QED
    BY <1>1, <1>3, <2>1, <2>2, GotoAway
<1>10. QED
  BY <1>4, <1>5, <1>6, <1>7, <1>8, <1>9 DEF Step

LEMMA BeginKeepsSwitch ==
  ASSUME IInv, SwitchInv, NEW p \in Procs, NEW kind, NEW o, NEW snap,
         NEW pc \in {"lookup", "query", "recordMismatch", "compensate", "settleRead"},
         Begin(p, kind, o, pc, snap), UNCHANGED <<gateway, submits, settings>>
  PROVE  SwitchInv'
<1>1. AwayFromClaim(p)
  BY DEF AwayFromClaim, Begin, IInv, TypeOK
<1>2. QED
  BY <1>1, AwayKeepsSwitch

LEMMA SwitchNext ==
  ASSUME IInv, SwitchInv, [Next]_vars
  PROVE  SwitchInv'
<1>1. CASE \E p \in Procs : Step(p) \/ Crash(p)
  BY <1>1, StepKeepsSwitch
<1>2. ASSUME NEW p \in Procs, NEW o \in Ops,
             StartExecute(p, o) \/ StartReconcile(p, o) \/ StartCompensate(p, o)
      PROVE  SwitchInv'
  <2>1. exec[o].status \in RowStatus /\ "absent" \in RowStatus
    BY RowType DEF IInv, RowStatus
  <2>2. PICK kind \in Kind, snap \in RowStatus,
             pc \in {"lookup", "query", "recordMismatch", "compensate"} :
          Begin(p, kind, o, pc, snap)
    BY <1>2, <2>1 DEF StartExecute, StartReconcile, StartCompensate, Kind
  <2>3. UNCHANGED <<gateway, submits, settings>>
    BY <1>2 DEF StartExecute, StartReconcile, StartCompensate, outside
  <2>4. QED
    BY <2>2, <2>3, BeginKeepsSwitch
<1>3. ASSUME NEW p \in Procs, NEW m \in mail, DeliverCallback(p, m)
      PROVE  SwitchInv'
  <2>1. UNCHANGED <<gateway, submits, settings>>
    BY <1>3 DEF DeliverCallback, outside
  <2>2. CASE Begin(p, "callback", m.op, "settleRead", "absent")
    BY <2>1, <2>2, BeginKeepsSwitch
  <2>3. CASE UNCHANGED task
    BY <2>1, <2>3 DEF SwitchInv, Funded
  <2>4. QED
    BY <1>3, <2>2, <2>3 DEF DeliverCallback
<1>4. CASE \/ \E o \in Ops : GatewayResolve(o)
           \/ \E o \in Ops, n \in Nonces : GatewayNotify(o, n)
           \/ UNCHANGED vars
  <2>1. UNCHANGED <<task, submits, settings>>
    BY <1>4 DEF GatewayResolve, GatewayNotify, vars, aside
  <2>2. ~Funded => gateway' = gateway
    BY <1>4 DEF GatewayResolve, GatewayNotify, vars, SwitchInv
  <2>3. QED
    BY <2>1, <2>2 DEF SwitchInv, Funded
<1>5. QED
  BY <1>1, <1>2, <1>3, <1>4 DEF Next, Procs

(* In shadow mode, and without a provider, no interleaving of any number   *)
(* of handlers makes a payment: the claim and the submission are out of    *)
(* reach.                                                                  *)
THEOREM SwitchHolds == Spec => []NoFundsWithoutSwitch
<1>1. Init => SwitchInv
  BY DEF Init, SwitchInv, Idle
<1>2. IInv /\ SwitchInv /\ [Next]_vars => SwitchInv'
  BY SwitchNext
<1>3. TypeOK /\ SwitchInv => NoFundsWithoutSwitch
  BY SettingsAssumption DEF SwitchInv, NoFundsWithoutSwitch, Funded, TypeOK
<1>4. IInv => TypeOK
  BY DEF IInv
<1>5. QED
  BY <1>1, <1>2, <1>3, <1>4, InvAlways, PTL DEF Spec

-----------------------------------------------------------------------------
(* No interleaving of any number of execute nodes, callbacks, workers and  *)
(* crashes leaves the types, or writes one of the three unused statuses.   *)
THEOREM TypeCorrect == Spec => []TypeOK
<1>1. IInv => TypeOK
  BY DEF IInv
<1>2. QED
  BY <1>1, InvAlways, PTL

(* The gateway is asked at most once for each operation, for any number of *)
(* slots, retries and crashes: the claim of claim_execution_submit is      *)
(* taken once and its holder submits once.                                 *)
THEOREM SubmitOnce == Spec => []AtMostOneSubmit
<1>1. IInv => AtMostOneSubmit
  BY DEF IInv, ClaimInv, AtMostOneSubmit
<1>2. QED
  BY <1>1, InvAlways, PTL

-----------------------------------------------------------------------------
(* Part 2: verdicts.                                                       *)

Final == {"succeeded", "failed"}

(* Where a handler stands only because the gateway refused the payment.    *)
SettlingPc ==
  {"recordDispatchFailed", "settleRead", "normalise", "normaliseRead", "compensate"}

(* What a handler about to act at pc on operation o has learnt, and what   *)
(* therefore is the case, however old its copy of the record is.           *)
Ground(pc, o) ==
  /\ pc = "recordConfirmed" => gateway[o] = "succeeded"
  /\ pc = "recordCompensated" /\ settings.provider => reversed[o]
  /\ pc = "shadowConfirm" => settings.mode = "shadow"
  /\ ~settings.manual /\ pc \in SettlingPc => gateway[o] = "failed"

(* What the gateway reports of a payment it has decided on is so.          *)
MailTrue == \A m \in mail : m.status \in Final => gateway[m.op] = m.status

GroundInv ==
  /\ \A p \in Procs : Ground(task[p].pc, task[p].op)
  /\ MailTrue
  /\ TruthfulVerdict
  /\ ReversalOnlyOfRefused

(* The gateway's books only grow and the deployment stays.                 *)
FactsGrow ==
  /\ \A o \in Ops : gateway[o] \in Final => gateway'[o] = gateway[o]
  /\ \A o \in Ops : reversed[o] => reversed'[o]
  /\ settings' = settings

-----------------------------------------------------------------------------
(* Pieces of the step.                                                     *)

LEMMA IdleGround == ASSUME NEW o PROVE Ground("idle", o)
BY DEF Ground, SettlingPc

(* Growing books keep the ground of whoever does not move.                 *)
LEMMA GroundStable ==
  ASSUME FactsGrow, NEW pc, NEW o \in Ops, Ground(pc, o)
  PROVE  Ground(pc, o)'
BY DEF FactsGrow, Ground, Final

LEMMA SlotCases ==
  ASSUME IInv, NEW p \in Procs
  PROVE  \/ task[p] = Idle /\ task[p].pc = "idle"
         \/ task[p].op \in Ops /\ ~At(p, "idle")
BY DEF IInv, SlotInv, Idle, At

(* One slot moves to a place it has ground for.                            *)
LEMMA MoveGround ==
  ASSUME IInv, GroundInv, FactsGrow, NEW p \in Procs,
         \A q \in Procs : q # p => task'[q] = task[q],
         Ground(task[p].pc, task[p].op)'
  PROVE  (\A q \in Procs : Ground(task[q].pc, task[q].op))'
<1> SUFFICES ASSUME NEW q \in Procs PROVE Ground(task[q].pc, task[q].op)'
  OBVIOUS
<1>1. CASE q = p
  BY <1>1
<1>2. CASE q # p /\ task[q].pc = "idle"
  <2>1. task'[q].pc = "idle"
    BY <1>2
  <2>2. QED
    BY <2>1 DEF Ground, SettlingPc
<1>3. CASE q # p /\ task[q].op \in Ops
  <2>1. task'[q] = task[q]
    BY <1>3
  <2>2. Ground(task[q].pc, task[q].op)
    BY DEF GroundInv
  <2>3. QED
    BY <1>3, <2>1, <2>2 DEF FactsGrow, Ground, Final
<1>4. QED
  BY <1>1, <1>2, <1>3, SlotCases

(* A handler goes on to pc.                                                *)
LEMMA GotoGround ==
  ASSUME IInv, GroundInv, FactsGrow, NEW p \in Procs, ~At(p, "idle"),
         NEW pc \in Pc, NEW snap \in RowStatus, GotoWith(p, pc, snap),
         NEW o, o = OpOf(p), pc # "idle" => Ground(pc, o)'
  PROVE  (\A q \in Procs : Ground(task[q].pc, task[q].op))'
<1>1. /\ \A q \in Procs : q # p => task'[q] = task[q]
      /\ pc = "idle" => task'[p] = Idle
      /\ pc # "idle" => task'[p].pc = pc /\ task'[p].op = o
  BY GotoType DEF IInv, TypeOK, OpOf
<1>2. CASE pc = "idle"
  BY <1>1, <1>2, MoveGround DEF Idle, Ground, SettlingPc
<1>3. CASE pc # "idle"
  <2>1. Ground(task[p].pc, task[p].op)'
    BY <1>1, <1>3 DEF Ground
  <2>2. QED
    BY <1>1, <2>1, MoveGround
<1>4. QED
  BY <1>2, <1>3

(* The rest of the invariant, when at most one record is written.          *)
LEMMA VerdictStable ==
  ASSUME IInv, GroundInv, FactsGrow, NEW o,
         \A r \in Ops : r # o => exec'[r].status = exec[r].status,
         o \in Ops => \/ exec'[o].status = exec[o].status
                      \/ /\ settings.mode = "live" /\ exec'[o].status = "confirmed" =>
                              gateway[o] = "succeeded"
                         /\ settings.provider /\ exec'[o].status = "compensated" =>
                              reversed[o]
  PROVE  TruthfulVerdict'
BY DEF GroundInv, TruthfulVerdict, FactsGrow, Final

LEMMA ReversalStable ==
  ASSUME GroundInv, FactsGrow, reversed' = reversed
  PROVE  ReversalOnlyOfRefused'
BY DEF GroundInv, ReversalOnlyOfRefused, FactsGrow, Final

LEMMA MailStable ==
  ASSUME IInv, GroundInv, FactsGrow, mail' = mail
  PROVE  MailTrue'
BY DEF GroundInv, MailTrue, FactsGrow, IInv, TypeOK, Callback

LEMMA SameFacts ==
  ASSUME UNCHANGED <<gateway, reversed, settings>>
  PROVE  FactsGrow
BY DEF FactsGrow

(* A step that moves one handler and leaves money, mail and verdicts.      *)
LEMMA QuietGround ==
  ASSUME IInv, GroundInv, NEW p \in Procs, ~At(p, "idle"),
         NEW pc \in Pc, NEW snap \in RowStatus, GotoWith(p, pc, snap),
         pc # "idle" => Ground(pc, OpOf(p)),
         UNCHANGED <<gateway, reversed, mail, settings>>,
         \A r \in Ops : exec'[r].status = exec[r].status
                        \/ exec'[r].status \notin {"confirmed", "compensated"}
  PROVE  GroundInv'
<1>1. FactsGrow
  BY SameFacts
<1>2. PICK o : o = OpOf(p)
  OBVIOUS
<1>3. pc # "idle" => Ground(pc, o)'
  BY <1>2 DEF Ground
<1>4. (\A q \in Procs : Ground(task[q].pc, task[q].op))'
  BY <1>1, <1>2, <1>3, GotoGround
<1>5. TruthfulVerdict'
  BY <1>1 DEF GroundInv, TruthfulVerdict, FactsGrow, Final
<1>6. QED
  BY <1>1, <1>4, <1>5, ReversalStable, MailStable DEF GroundInv

-----------------------------------------------------------------------------
(* The steps of a handler.                                                 *)

(* A transition to a verdict its handler has ground for.                   *)
LEMMA TransitionGround ==
  ASSUME IInv, GroundInv, NEW p \in Procs, ~At(p, "idle"), NEW s \in RowStatus,
         NEW x \in BOOLEAN, NEW pc \in Pc \ {"submit"}, Transition(p, s, x, pc),
         UNCHANGED <<opStatus, outside, aside>>,
         Ground(pc, OpOf(p)),
         settings.mode = "live" /\ s = "confirmed" => gateway[OpOf(p)] = "succeeded",
         settings.provider /\ s = "compensated" => reversed[OpOf(p)]
  PROVE  GroundInv'
<1>1. UNCHANGED <<gateway, reversed, mail, submits, settings>>
  BY DEF outside, aside
<1>2. FactsGrow
  BY <1>1, SameFacts
<1>3. PICK o : o = OpOf(p)
  OBVIOUS
<1>4. /\ \A r \in Ops : r # o => exec'[r] = exec[r]
      /\ exec' = exec \/ exec'[o].status = s
  BY <1>1, <1>3, TransitionMove DEF IInv
<1>5. TruthfulVerdict'
  BY <1>2, <1>3, <1>4, VerdictStable
<1>6. PICK next \in {pc, AfterRaise(p)} : GotoWith(p, next, task[p].snap)
  BY DEF Transition, Goto
<1>7. next \in Pc /\ Ground(next, o)
  BY <1>3, AfterRaiseType DEF AfterRaise, Ground, SettlingPc
<1>8. Ground(next, o)'
  BY <1>1, <1>7 DEF Ground
<1>9. task[p].snap \in RowStatus
  BY SnapType DEF IInv
<1>10. (\A q \in Procs : Ground(task[q].pc, task[q].op))'
  BY <1>2, <1>3, <1>6, <1>7, <1>8, <1>9, GotoGround
<1>11. QED
  BY <1>1, <1>2, <1>5, <1>10, ReversalStable, MailStable DEF GroundInv

LEMMA TransitionActionsGround ==
  ASSUME IInv, GroundInv, NEW p \in Procs,
         \/ ShadowConfirm(p) \/ RecordUncertain(p) \/ RecordDispatchFailed(p)
         \/ Normalise(p) \/ RecordCompensated(p) \/ RecordCompensationFailed(p)
         \/ RecordConfirmed(p) \/ RecordMismatch(p)
  PROVE  GroundInv'
<1>1. Ground(task[p].pc, OpOf(p))
  BY DEF GroundInv, OpOf
<1>2. ~At(p, "idle") /\ UNCHANGED <<opStatus, outside, aside>>
  BY DEF ShadowConfirm, RecordUncertain, RecordDispatchFailed, Normalise,
         RecordCompensated, RecordCompensationFailed, RecordConfirmed,
         RecordMismatch, At
<1>3. /\ {"confirmed", "failed_uncertain", "failed_dispatch", "compensated",
          "compensation_failed", "mismatched"} \subseteq RowStatus
      /\ {"opExecuted", "settleRead", "normaliseRead", "opHandoff", "idle"}
           \subseteq Pc \ {"submit"}
      /\ TRUE \in BOOLEAN /\ FALSE \in BOOLEAN
  BY DEF RowStatus, ExecutionStatus, UnusedStatuses, Pc
<1>4. Ground("opExecuted", OpOf(p)) /\ Ground("opHandoff", OpOf(p)) /\ Ground("idle", OpOf(p))
  BY DEF Ground, SettlingPc
<1>5. CASE ShadowConfirm(p)
  <2>1. settings.mode = "shadow" /\ Transition(p, "confirmed", TRUE, "opExecuted")
    BY <1>1, <1>5 DEF ShadowConfirm, At, Ground
  <2>2. QED
    BY <1>2, <1>3, <1>4, <2>1, TransitionGround
<1>6. CASE RecordUncertain(p)
  BY <1>2, <1>3, <1>4, <1>6, TransitionGround DEF RecordUncertain
<1>7. CASE RecordDispatchFailed(p)
  <2>1. Ground("settleRead", OpOf(p))
    BY <1>1, <1>7 DEF RecordDispatchFailed, At, Ground, SettlingPc
  <2>2. QED
    BY <1>2, <1>3, <1>7, <2>1, TransitionGround DEF RecordDispatchFailed
<1>8. CASE Normalise(p)
  <2>1. Ground("normaliseRead", OpOf(p))
    BY <1>1, <1>8 DEF Normalise, At, Ground, SettlingPc
  <2>2. QED
    BY <1>2, <1>3, <1>8, <2>1, TransitionGround DEF Normalise
<1>9. CASE RecordCompensated(p)
  <2>1. settings.provider => reversed[OpOf(p)]
    BY <1>1, <1>9 DEF RecordCompensated, At, Ground
  <2>2. PICK pc \in {"idle", "opExecuted"} : Transition(p, "compensated", FALSE, pc)
    BY <1>9 DEF RecordCompensated, AfterCompensation
  <2>3. QED
    BY <1>2, <1>3, <1>4, <2>1, <2>2, TransitionGround
<1>10. CASE RecordCompensationFailed(p)
  <2>1. PICK pc \in {"idle", "opHandoff"} : Transition(p, "compensation_failed", FALSE, pc)
    BY <1>10 DEF RecordCompensationFailed, AfterCompensation
  <2>2. QED
    BY <1>2, <1>3, <1>4, <2>1, TransitionGround
<1>11. CASE RecordConfirmed(p)
  <2>1. gateway[OpOf(p)] = "succeeded"
    BY <1>1, <1>11 DEF RecordConfirmed, At, Ground
  <2>2. QED
    BY <1>2, <1>3, <1>4, <1>11, <2>1, TransitionGround DEF RecordConfirmed
<1>12. CASE RecordMismatch(p)
  BY <1>2, <1>3, <1>4, <1>12, TransitionGround DEF RecordMismatch
<1>13. QED
  BY <1>5, <1>6, <1>7, <1>8, <1>9, <1>10, <1>11, <1>12

LEMMA RowActionsGround ==
  ASSUME IInv, GroundInv, NEW p \in Procs,
         Create(p) \/ ClaimSubmit(p) \/ RecordSubmitted(p)
  PROVE  GroundInv'
<1>1. OpOf(p) \in Ops /\ ~At(p, "idle") /\ task[p].snap \in RowStatus
  <2>1. task[p].pc # "idle"
    BY DEF Create, ClaimSubmit, RecordSubmitted, At
  <2>2. QED
    BY <2>1, SnapType DEF At, IInv, SlotInv, Idle, OpOf
<1>2. UNCHANGED <<gateway, reversed, mail, settings>>
  BY DEF Create, ClaimSubmit, RecordSubmitted, outside, aside
<1>3. exec[OpOf(p)].status \in RowStatus /\ "pending_submit" \in RowStatus
  BY <1>1, RowType DEF IInv, RowStatus, ExecutionStatus, UnusedStatuses
<1>4. \A r \in Ops : \/ exec'[r].status = exec[r].status
                     \/ exec'[r].status \notin {"confirmed", "compensated"}
  BY <1>1 DEF Create, ClaimSubmit, RecordSubmitted, WriteRow, IInv, TypeOK, ExecRow
<1>5. CASE Create(p)
  <2>1. PICK snap \in RowStatus : GotoWith(p, AfterCreate, snap)
    BY <1>3, <1>5 DEF Create
  <2>2. AfterCreate \in Pc /\ Ground(AfterCreate, OpOf(p))
    BY DEF AfterCreate, Ground, SettlingPc, Pc
  <2>3. QED
    BY <1>1, <1>2, <1>4, <2>1, <2>2, QuietGround
<1>6. CASE ClaimSubmit(p) \/ RecordSubmitted(p)
  <2>1. PICK pc \in {"idle", "submit", "readSubmitted"} : GotoWith(p, pc, task[p].snap)
    BY <1>6 DEF ClaimSubmit, RecordSubmitted, Return, Goto
  <2>2. pc \in Pc /\ Ground(pc, OpOf(p))
    BY DEF Ground, SettlingPc, Pc
  <2>3. QED
    BY <1>1, <1>2, <1>4, <2>1, <2>2, QuietGround
<1>7. QED
  BY <1>5, <1>6

(* Settling is entered on a refusal; where it starts needs no other ground.*)
LEMMA SettleEntryGround ==
  ASSUME NEW p, NEW s, NEW o, ~settings.manual => gateway[o] = "failed"
  PROVE  SettleEntry(p, s) \in Pc /\ Ground(SettleEntry(p, s), o)
BY DEF SettleEntry, AfterRaise, Ground, SettlingPc, Pc

LEMMA QuietActionsGround ==
  ASSUME IInv, GroundInv, NEW p \in Procs,
         \/ Lookup(p) \/ ReadSubmitted(p) \/ SettleRead(p) \/ NormaliseRead(p)
         \/ Query(p) \/ OpExecuted(p) \/ OpHandoff(p) \/ OpFailed(p) \/ Crash(p)
  PROVE  GroundInv'
<1>1. OpOf(p) \in Ops /\ ~At(p, "idle") /\ task[p].snap \in RowStatus
  BY SnapType DEF Lookup, ReadSubmitted, SettleRead, NormaliseRead, Query, OpExecuted,
     OpHandoff, OpFailed, MarkOperation, Crash, At, IInv, SlotInv, Idle, OpOf
<1>2. exec[OpOf(p)].status \in RowStatus /\ Ground(task[p].pc, OpOf(p))
  BY <1>1, RowType DEF IInv, GroundInv, OpOf
<1>3. UNCHANGED <<exec, gateway, reversed, mail, settings>>
  BY DEF Lookup, ReadSubmitted, SettleRead, NormaliseRead, Query, OpExecuted,
     OpHandoff, OpFailed, MarkOperation, Crash, outside, aside
<1>4. \E pc \in Pc, snap \in RowStatus : GotoWith(p, pc, snap) /\ Ground(pc, OpOf(p))
  <2>1. CASE SettleRead(p)
    <3>1. ~settings.manual => gateway[OpOf(p)] = "failed"
      BY <1>2, <2>1 DEF SettleRead, At, Ground, SettlingPc
    <3>2. QED
      BY <1>2, <2>1, <3>1, SettleEntryGround DEF SettleRead, EnterSettle
  <2>2. CASE NormaliseRead(p)
    <3>1. "compensate" \in Pc /\ Ground("compensate", OpOf(p))
      BY <1>2, <2>2 DEF NormaliseRead, At, Ground, SettlingPc, Pc
    <3>2. QED
      BY <1>2, <2>2, <3>1 DEF NormaliseRead
  <2>3. CASE Query(p)
    <3>1. CASE gateway[OpOf(p)] = "failed" /\ EnterSettle(p, task[p].snap)
      BY <1>1, <3>1, SettleEntryGround DEF EnterSettle
    <3>2. CASE Goto(p, "recordMismatch")
      BY <1>1, <3>2 DEF Goto, Ground, SettlingPc, Pc
    <3>3. CASE gateway[OpOf(p)] = "succeeded" /\ Goto(p, "recordConfirmed")
      BY <1>1, <3>3 DEF Goto, Ground, SettlingPc, Pc
    <3>4. QED
      BY <2>3, <3>1, <3>2, <3>3 DEF Query
  <2>4. CASE \/ Lookup(p) \/ ReadSubmitted(p) \/ OpExecuted(p) \/ OpHandoff(p)
             \/ OpFailed(p) \/ Crash(p)
    <3>1. PICK pc \in {"idle", "create", "opFailed", "opExecuted"} :
            GotoWith(p, pc, task[p].snap)
      BY <2>4 DEF Lookup, ReadSubmitted, OpExecuted, OpHandoff, OpFailed, MarkOperation,
         Crash, Return, Goto, AfterRaise
    <3>2. pc \in Pc /\ Ground(pc, OpOf(p))
      BY DEF Ground, SettlingPc, Pc
    <3>3. QED
      BY <1>1, <3>1, <3>2
  <2>5. QED
    BY <2>1, <2>2, <2>3, <2>4
<1>5. QED
  BY <1>1, <1>3, <1>4, QuietGround

(* The answer of the gateway is the ground of what the handler records; a  *)
(* payment it has decided on stays as it is.                               *)
LEMMA SubmitGround ==
  ASSUME IInv, GroundInv, NEW p \in Procs, Submit(p)
  PROVE  GroundInv'
<1>1. OpOf(p) \in Ops /\ ~At(p, "idle") /\ task[p].snap \in RowStatus
  BY SnapType DEF Submit, At, IInv, SlotInv, Idle, OpOf
<1>2. UNCHANGED <<exec, reversed, mail, settings>>
  BY DEF Submit, aside
<1>3. FactsGrow
  <2>1. PICK s \in LostOutcome(OpOf(p)) : gateway' = [gateway EXCEPT ![OpOf(p)] = s]
    BY DEF Submit, LostOutcome
  <2>2. gateway[OpOf(p)] \in Final => s = gateway[OpOf(p)]
    BY DEF LostOutcome, Outcome, Final
  <2>3. QED
    BY <1>1, <1>2, <2>1, <2>2 DEF FactsGrow, IInv, TypeOK
<1>4. PICK o : o = OpOf(p)
  OBVIOUS
<1>5. PICK pc \in {"recordSubmitted", "recordDispatchFailed", "recordUncertain"} :
        GotoWith(p, pc, task[p].snap) /\ (pc = "recordDispatchFailed" => gateway'[o] = "failed")
  BY <1>1, <1>4 DEF Submit, Goto, Outcome, IInv, TypeOK
<1>6. pc \in Pc /\ Ground(pc, o)'
  BY <1>5 DEF Ground, SettlingPc, Pc
<1>7. (\A q \in Procs : Ground(task[q].pc, task[q].op))'
  BY <1>1, <1>3, <1>4, <1>5, <1>6, GotoGround
<1>8. TruthfulVerdict'
  BY <1>2, <1>3, VerdictStable
<1>9. QED
  BY <1>2, <1>3, <1>7, <1>8, ReversalStable, MailStable DEF GroundInv

LEMMA CompensateGround ==
  ASSUME IInv, GroundInv, NEW p \in Procs, Compensate(p)
  PROVE  GroundInv'
<1>1. OpOf(p) \in Ops /\ ~At(p, "idle") /\ task[p].snap \in RowStatus
  BY SnapType DEF Compensate, At, IInv, SlotInv, Idle, OpOf
<1>2. UNCHANGED <<exec, gateway, mail, settings>>
  BY DEF Compensate, aside
<1>3. /\ \A r \in Ops : reversed[r] => reversed'[r]
      /\ \A r \in Ops : r # OpOf(p) => reversed'[r] = reversed[r]
  BY <1>1 DEF Compensate, IInv, TypeOK
<1>4. FactsGrow
  BY <1>2, <1>3 DEF FactsGrow
<1>5. PICK o : o = OpOf(p)
  OBVIOUS
<1>6. PICK pc \in {"recordCompensated", "recordCompensationFailed"} :
        GotoWith(p, pc, task[p].snap)
        /\ (pc = "recordCompensated" /\ settings.provider => reversed'[o])
  BY <1>1, <1>5 DEF Compensate, Goto, IInv, TypeOK
<1>7. pc \in Pc /\ Ground(pc, o)'
  BY <1>2, <1>6 DEF Ground, SettlingPc, Pc
<1>8. (\A q \in Procs : Ground(task[q].pc, task[q].op))'
  BY <1>1, <1>4, <1>5, <1>6, <1>7, GotoGround
<1>9. TruthfulVerdict'
  BY <1>2, <1>4, VerdictStable
<1>10. ReversalOnlyOfRefused'
  <2>1. ~settings.manual => gateway[o] = "failed"
    BY <1>5 DEF Compensate, At, GroundInv, Ground, SettlingPc, OpOf
  <2>2. QED
    BY <1>2, <1>3, <1>5, <2>1 DEF GroundInv, ReversalOnlyOfRefused
<1>11. QED
  BY <1>2, <1>4, <1>8, <1>9, <1>10, MailStable DEF GroundInv

LEMMA StepGround ==
  ASSUME IInv, GroundInv, NEW p \in Procs, Step(p) \/ Crash(p)
  PROVE  GroundInv'
BY TransitionActionsGround, RowActionsGround, QuietActionsGround, SubmitGround,
   CompensateGround DEF Step

-----------------------------------------------------------------------------
(* The steps that begin a handler, and the gateway's.                      *)

LEMMA BeginGround ==
  ASSUME IInv, GroundInv, FactsGrow, NEW p \in Procs, NEW kind, NEW o \in Ops,
         NEW pc, NEW snap, Begin(p, kind, o, pc, snap), Ground(pc, o)
  PROVE  (\A q \in Procs : Ground(task[q].pc, task[q].op))'
<1>1. /\ \A q \in Procs : q # p => task'[q] = task[q]
      /\ task'[p].pc = pc /\ task'[p].op = o
  BY DEF Begin, IInv, TypeOK
<1>2. Ground(task[p].pc, task[p].op)'
  BY <1>1 DEF Ground, FactsGrow, Final
<1>3. QED
  BY <1>1, <1>2, MoveGround

LEMMA StartGround ==
  ASSUME IInv, GroundInv, NEW p \in Procs, NEW o \in Ops,
         StartExecute(p, o) \/ StartReconcile(p, o) \/ StartCompensate(p, o)
  PROVE  GroundInv'
<1>1. UNCHANGED <<exec, gateway, reversed, mail, settings>>
  BY DEF StartExecute, StartReconcile, StartCompensate, outside
<1>2. FactsGrow
  BY <1>1, SameFacts
<1>3. PICK kind \in Kind, snap \in {"absent", exec[o].status},
           pc \in {"lookup", "query", "recordMismatch", "compensate"} :
        Begin(p, kind, o, pc, snap) /\ (pc = "compensate" => settings.manual)
  BY DEF StartExecute, StartReconcile, StartCompensate, Kind
<1>4. Ground(pc, o)
  BY <1>3 DEF Ground, SettlingPc
<1>5. (\A q \in Procs : Ground(task[q].pc, task[q].op))'
  BY <1>2, <1>3, <1>4, BeginGround
<1>6. TruthfulVerdict'
  BY <1>1, <1>2, VerdictStable
<1>7. QED
  BY <1>1, <1>2, <1>5, <1>6, ReversalStable, MailStable DEF GroundInv

(* A callback that asks for a verdict was sent with the ground for it.     *)
LEMMA DeliverGround ==
  ASSUME IInv, GroundInv, NEW p \in Procs, NEW m \in mail, DeliverCallback(p, m)
  PROVE  GroundInv'
<1> DEFINE o == m.op
<1>1. o \in Ops
  BY DEF IInv, TypeOK, Callback
<1>2. UNCHANGED <<gateway, reversed, mail, settings>>
  BY DEF DeliverCallback, outside
<1>3. FactsGrow
  BY <1>2, SameFacts
<1>4. PICK s : /\ BookNonce(o, s, m)
               /\ s \in {"mismatched", exec[o].status, NormalizeCallback(exec[o].status, m.status)}
  BY DEF DeliverCallback
<1>5. /\ exec'[o].status = s
      /\ \A r \in Ops : r # o => exec'[r].status = exec[r].status
  BY <1>1, <1>4 DEF BookNonce, WriteRow, IInv, TypeOK, ExecRow
<1>6. s = exec[o].status \/ (s # "compensated" /\ (s = "confirmed" => gateway[o] = "succeeded"))
  BY <1>4 DEF NormalizeCallback, GroundInv, MailTrue, Final
<1>7. TruthfulVerdict'
  BY <1>3, <1>5, <1>6, VerdictStable
<1>8. (\A q \in Procs : Ground(task[q].pc, task[q].op))'
  <2>1. CASE m.status = "failed" /\ Begin(p, "callback", o, "settleRead", "absent")
    <3>1. Ground("settleRead", o)
      BY <2>1 DEF Ground, SettlingPc, GroundInv, MailTrue, Final
    <3>2. QED
      BY <1>1, <1>3, <2>1, <3>1, BeginGround
  <2>2. CASE UNCHANGED task
    BY <1>2, <2>2 DEF GroundInv, Ground
  <2>3. QED
    BY <2>1, <2>2 DEF DeliverCallback
<1>9. QED
  BY <1>2, <1>3, <1>7, <1>8, ReversalStable, MailStable DEF GroundInv

LEMMA GatewayGround ==
  ASSUME IInv, GroundInv,
         \/ \E o \in Ops : GatewayResolve(o)
         \/ \E o \in Ops, n \in Nonces : GatewayNotify(o, n)
         \/ UNCHANGED vars
  PROVE  GroundInv'
<1>1. UNCHANGED <<exec, task, reversed, settings>>
  BY DEF GatewayResolve, GatewayNotify, vars, aside
<1>2. FactsGrow
  BY DEF GatewayResolve, GatewayNotify, vars, aside, FactsGrow, Final, IInv, TypeOK
<1>3. (\A q \in Procs : Ground(task[q].pc, task[q].op))'
  <2> SUFFICES ASSUME NEW q \in Procs PROVE Ground(task[q].pc, task[q].op)'
    OBVIOUS
  <2>1. CASE task[q].pc = "idle"
    BY <1>1, <2>1 DEF Ground, SettlingPc
  <2>2. CASE task[q].op \in Ops
    BY <1>1, <1>2, <2>2 DEF GroundInv, FactsGrow, Ground, Final
  <2>3. QED
    BY <2>1, <2>2, SlotCases
<1>4. TruthfulVerdict'
  BY <1>1, <1>2, VerdictStable
<1>5. MailTrue'
  <2>1. CASE \E o \in Ops, n \in Nonces : GatewayNotify(o, n)
    <3>1. PICK o \in Ops, n \in Nonces : GatewayNotify(o, n)
      BY <2>1
    <3>2. PICK ok \in BOOLEAN, s \in {gateway[o], "processing"} \ {"inflight"} :
            mail' = mail \cup {[op |-> o, nonce |-> n, status |-> s, amountOk |-> ok]}
      BY <3>1 DEF GatewayNotify
    <3>3. gateway' = gateway
      BY <3>1 DEF GatewayNotify
    <3>4. QED
      BY <3>2, <3>3 DEF GroundInv, MailTrue, Final
  <2>2. CASE ~\E o \in Ops, n \in Nonces : GatewayNotify(o, n)
    <3>1. mail' = mail
      BY <2>2 DEF GatewayResolve, vars
    <3>2. QED
      BY <1>2, <3>1, MailStable
  <2>3. QED
    BY <2>1, <2>2
<1>6. QED
  BY <1>1, <1>2, <1>3, <1>4, <1>5, ReversalStable DEF GroundInv

LEMMA GroundInit == Init => GroundInv
<1> SUFFICES ASSUME Init PROVE GroundInv
  OBVIOUS
<1>1. \A p \in Procs : Ground(task[p].pc, task[p].op)
  BY DEF Init, Idle, Ground, SettlingPc
<1>2. MailTrue /\ TruthfulVerdict /\ ReversalOnlyOfRefused
  BY DEF Init, MailTrue, TruthfulVerdict, ReversalOnlyOfRefused, NoRow
<1>3. QED
  BY <1>1, <1>2 DEF GroundInv

LEMMA GroundNext ==
  ASSUME IInv, GroundInv, [Next]_vars
  PROVE  GroundInv'
<1>1. CASE \E p \in Procs : Step(p) \/ Crash(p)
  BY <1>1, StepGround
<1>2. CASE \E p \in Threads, o \in Ops : StartExecute(p, o) \/ StartCompensate(p, o)
  BY <1>2, StartGround DEF Procs
<1>3. CASE \E p \in Threads : \E m \in mail : DeliverCallback(p, m)
  BY <1>3, DeliverGround DEF Procs
<1>4. CASE \E p \in Workers, o \in Ops : StartReconcile(p, o)
  BY <1>4, StartGround DEF Procs
<1>5. CASE \/ \E o \in Ops : GatewayResolve(o)
           \/ \E o \in Ops, n \in Nonces : GatewayNotify(o, n)
           \/ UNCHANGED vars
  BY <1>5, GatewayGround
<1>6. QED
  BY <1>1, <1>2, <1>3, <1>4, <1>5 DEF Next

LEMMA GroundAlways == Spec => []GroundInv
<1>1. IInv /\ GroundInv /\ [Next]_vars => GroundInv'
  BY GroundNext
<1>2. QED
  BY <1>1, GroundInit, InvAlways, PTL DEF Spec

-----------------------------------------------------------------------------
(* A live record says confirmed only over a payment and compensated only   *)
(* over a reversal, for any number of handlers with copies of any age.     *)
THEOREM VerdictHolds == Spec => []TruthfulVerdict
<1>1. GroundInv => TruthfulVerdict
  BY DEF GroundInv
<1>2. QED
  BY <1>1, GroundAlways, PTL

(* Unless somebody calls compensate(), no handler reverses a payment the   *)
(* gateway did not refuse, late answers and callbacks included.            *)
THEOREM RefusedBeforeReversal == Spec => []ReversalOnlyOfRefused
<1>1. GroundInv => ReversalOnlyOfRefused
  BY DEF GroundInv
<1>2. QED
  BY <1>1, GroundAlways, PTL

-----------------------------------------------------------------------------
(* Part 3: funds.                                                          *)

(* How far a record and a handler come where nobody can submit: the record *)
(* is at most confirmed on a simulated receipt, and only compensate(),     *)
(* called from outside, goes beyond marking the operation.                 *)
UnfundedStatus == {"absent", "pending_submit", "confirmed"}
UnfundedPc ==
  {"idle", "lookup", "create", "shadowConfirm", "compensate", "recordCompensated",
   "recordCompensationFailed", "opExecuted", "opFailed"}

UnfundedInv ==
  ~Funded =>
    /\ \A o \in Ops : exec[o].status \in UnfundedStatus
    /\ \A p \in Procs : task[p].pc \in UnfundedPc /\ task[p].snap \in UnfundedStatus
    /\ mail = {}

FInv == IInv /\ GroundInv /\ SwitchInv /\ UnfundedInv

-----------------------------------------------------------------------------
(* Without live mode and a provider nothing is ever compensated.           *)

(* A slot stays where an unfunded handler may be, and so does its record.  *)
UnfundedMove(p) ==
  /\ \A q \in Procs : q # p => task'[q] = task[q]
  /\ task'[p].pc \in UnfundedPc /\ task'[p].snap \in UnfundedStatus
  /\ \A o \in Ops : exec'[o].status \in UnfundedStatus
  /\ UNCHANGED <<mail, settings>>

LEMMA UnfundedMoveKeeps ==
  ASSUME UnfundedInv, NEW p \in Procs, ~Funded => UnfundedMove(p), settings' = settings
  PROVE  UnfundedInv'
BY DEF UnfundedInv, UnfundedMove, Funded

(* No transition leads from there to a reversal.                           *)
LEMMA NoReversalMove ==
  ASSUME NEW s \in UnfundedStatus
  PROVE  ~CanTransition(s, "compensated") /\ ~CanTransition(s, "compensation_failed")
BY DEF CanTransition, Transitions, UnfundedStatus, ExecutionStatus, Terminal,
       IntermediateAbnormal

LEMMA SettingsStay ==
  ASSUME [Next]_vars
  PROVE  settings' = settings
BY DEF Next, Step, Lookup, Create, ShadowConfirm, ClaimSubmit, Submit, RecordSubmitted,
       ReadSubmitted, RecordUncertain, RecordDispatchFailed, SettleRead, Normalise,
       NormaliseRead, Compensate, RecordCompensated, RecordCompensationFailed, Query,
       RecordConfirmed, RecordMismatch, OpExecuted, OpHandoff, OpFailed,
       MarkOperation, Crash, StartExecute, StartCompensate, StartReconcile,
       DeliverCallback, GatewayResolve, GatewayNotify, aside, vars

LEMMA UnfundedStep ==
  ASSUME FInv, ~Funded, NEW p \in Procs, Step(p) \/ Crash(p)
  PROVE  UnfundedMove(p)
<1>1. /\ TypeOK /\ settings.mode \in {"shadow", "live"}
      /\ \A o \in Ops : exec[o].status \in UnfundedStatus
      /\ task[p].pc \in UnfundedPc /\ task[p].snap \in UnfundedStatus
      /\ UnfundedStatus \subseteq RowStatus /\ UnfundedPc \subseteq Pc
  BY SettingsAssumption DEF FInv, IInv, UnfundedInv, TypeOK, UnfundedStatus, UnfundedPc,
     RowStatus, ExecutionStatus, UnusedStatuses, Pc
<1>2. OpOf(p) \in Ops
  <2>1. task[p].pc # "idle"
    BY DEF Step, Lookup, Create, ShadowConfirm, ClaimSubmit, Submit, RecordSubmitted,
       ReadSubmitted, RecordUncertain, RecordDispatchFailed, SettleRead, Normalise,
       NormaliseRead, Compensate, RecordCompensated, RecordCompensationFailed, Query,
       RecordConfirmed, RecordMismatch, OpExecuted, OpHandoff, OpFailed,
       MarkOperation, Crash, At
  <2>2. QED
    BY <2>1 DEF FInv, IInv, SlotInv, OpOf, Idle
<1>3. \/ Lookup(p) \/ Create(p) \/ ShadowConfirm(p) \/ Compensate(p)
      \/ RecordCompensated(p) \/ RecordCompensationFailed(p)
      \/ OpExecuted(p) \/ OpFailed(p) \/ Crash(p)
  BY <1>1 DEF Step, UnfundedPc, ClaimSubmit, Submit, RecordSubmitted, ReadSubmitted,
     RecordUncertain, RecordDispatchFailed, SettleRead, Normalise, NormaliseRead, Query,
     RecordConfirmed, RecordMismatch, OpHandoff, MarkOperation, At
<1>4. UNCHANGED <<mail, settings>>
  BY <1>3 DEF Lookup, Create, ShadowConfirm, Compensate, RecordCompensated,
     RecordCompensationFailed, OpExecuted, OpFailed, MarkOperation, Crash, outside, aside
<1>5. ASSUME NEW pc \in UnfundedPc, NEW snap \in UnfundedStatus, GotoWith(p, pc, snap)
      PROVE  /\ \A q \in Procs : q # p => task'[q] = task[q]
             /\ task'[p].pc \in UnfundedPc /\ task'[p].snap \in UnfundedStatus
  <2>1. pc \in Pc /\ snap \in RowStatus
    BY <1>1
  <2>2. Idle.pc \in UnfundedPc /\ Idle.snap \in UnfundedStatus
    BY DEF Idle, UnfundedPc, UnfundedStatus
  <2>3. QED
    BY <1>1, <1>5, <2>1, <2>2, GotoType DEF TypeOK
<1>6. {"idle", "opFailed", "opExecuted", "create", "shadowConfirm", "recordCompensated",
       "recordCompensationFailed", AfterRaise(p)} \subseteq UnfundedPc
  BY DEF UnfundedPc, AfterRaise
<1>7. CASE Create(p)
  <2>1. AfterCreate \in UnfundedPc
    BY <1>1 DEF AfterCreate, Funded, UnfundedPc
  <2>2. PICK s \in UnfundedStatus :
          /\ WriteRow(OpOf(p), s, exec[OpOf(p)].attempts, exec[OpOf(p)].txn, exec[OpOf(p)].nonce)
          /\ GotoWith(p, AfterCreate, s)
    BY <1>1, <1>2, <1>7 DEF Create, UnfundedStatus
  <2>3. \A o \in Ops : exec'[o].status \in UnfundedStatus
    BY <1>1, <2>2 DEF WriteRow, TypeOK, ExecRow
  <2>4. QED
    BY <1>4, <1>5, <2>1, <2>2, <2>3 DEF UnfundedMove
<1>8. CASE ShadowConfirm(p)
  <2>1. \A o \in Ops : exec'[o].status \in UnfundedStatus
    BY <1>1, <1>8 DEF ShadowConfirm, Transition, WriteRow, TypeOK, ExecRow, UnfundedStatus
  <2>2. PICK pc \in UnfundedPc : GotoWith(p, pc, task[p].snap)
    BY <1>6, <1>8 DEF ShadowConfirm, Transition, Goto
  <2>3. QED
    BY <1>1, <1>4, <1>5, <2>1, <2>2 DEF UnfundedMove
<1>9. CASE RecordCompensated(p) \/ RecordCompensationFailed(p)
  <2>1. Goto(p, AfterRaise(p)) /\ UNCHANGED exec
    BY <1>1, <1>9, NoReversalMove DEF RecordCompensated, RecordCompensationFailed, Transition
  <2>2. QED
    BY <1>1, <1>4, <1>5, <1>6, <2>1 DEF UnfundedMove, Goto
<1>10. CASE Lookup(p) \/ Compensate(p) \/ OpExecuted(p) \/ OpFailed(p) \/ Crash(p)
  <2>1. UNCHANGED exec
    BY <1>10 DEF Lookup, Compensate, OpExecuted, OpFailed, MarkOperation, Crash
  <2>2. PICK pc \in UnfundedPc : GotoWith(p, pc, task[p].snap)
    BY <1>6, <1>10 DEF Lookup, Compensate, OpExecuted, OpFailed, MarkOperation, Crash,
       Return, Goto
  <2>3. QED
    BY <1>1, <1>4, <1>5, <2>1, <2>2 DEF UnfundedMove
<1>11. QED
  BY <1>3, <1>7, <1>8, <1>9, <1>10

(* A record there is no target of reconciliation.                          *)
LEMMA UnfundedStart ==
  ASSUME FInv, ~Funded, NEW p \in Procs, NEW o \in Ops,
         StartExecute(p, o) \/ StartReconcile(p, o) \/ StartCompensate(p, o)
  PROVE  UnfundedMove(p)
<1>1. exec[o].status \in UnfundedStatus /\ "absent" \in UnfundedStatus
  BY DEF FInv, UnfundedInv, UnfundedStatus
<1>2. PICK kind \in Kind, snap \in UnfundedStatus, pc \in {"lookup", "compensate"} :
        Begin(p, kind, o, pc, snap)
  BY <1>1 DEF StartExecute, StartReconcile, StartCompensate, Kind, UnfundedStatus,
     ReconcileTargets
<1>3. UNCHANGED <<exec, mail, settings>>
  BY DEF StartExecute, StartReconcile, StartCompensate, outside
<1>4. QED
  BY <1>2, <1>3 DEF UnfundedMove, Begin, FInv, IInv, TypeOK, UnfundedInv, UnfundedPc

LEMMA UnfundedNext ==
  ASSUME FInv, [Next]_vars
  PROVE  UnfundedInv'
<1>1. settings' = settings
  BY SettingsStay
<1>2. CASE \E p \in Procs : Step(p) \/ Crash(p)
  BY <1>1, <1>2, UnfundedStep, UnfundedMoveKeeps DEF FInv
<1>3. CASE \/ \E p \in Threads, o \in Ops : StartExecute(p, o) \/ StartCompensate(p, o)
           \/ \E p \in Workers, o \in Ops : StartReconcile(p, o)
  BY <1>1, <1>3, UnfundedStart, UnfundedMoveKeeps DEF FInv, Procs
<1>4. CASE \E p \in Threads : \E m \in mail : DeliverCallback(p, m)
  BY <1>1, <1>4 DEF FInv, UnfundedInv, Funded
<1>5. CASE \/ \E o \in Ops : GatewayResolve(o)
           \/ \E o \in Ops, n \in Nonces : GatewayNotify(o, n)
           \/ UNCHANGED vars
  <2>1. UNCHANGED <<exec, task>>
    BY <1>5 DEF GatewayResolve, GatewayNotify, vars
  <2>2. ~Funded => mail' = mail
    BY <1>5 DEF GatewayResolve, GatewayNotify, vars, FInv, SwitchInv
  <2>3. QED
    BY <1>1, <2>1, <2>2 DEF FInv, UnfundedInv, Funded
<1>6. QED
  BY <1>2, <1>3, <1>4, <1>5 DEF Next

LEMMA FAlways == Spec => []FInv
<1>1. Init => SwitchInv /\ UnfundedInv
  BY DEF Init, SwitchInv, UnfundedInv, UnfundedStatus, UnfundedPc, Idle, NoRow
<1>2. FInv /\ [Next]_vars => FInv'
  BY NextInv, GroundNext, SwitchNext, UnfundedNext DEF FInv
<1>3. Init => FInv
  BY <1>1, InitInv, GroundInit DEF FInv
<1>4. QED
  BY <1>2, <1>3, PTL DEF Spec

-----------------------------------------------------------------------------
(* The refinement.                                                         *)

Judged(o) == VerdictOf(exec[o].status)

LEMMA VerdictTrue ==
  ASSUME FInv, NEW o \in Ops
  PROVE  /\ Judged(o) \in {"open", "paid", "rolledback", "human"}
         /\ Judged(o) = "paid" => gateway[o] = "succeeded"
         /\ Judged(o) = "rolledback" => reversed[o]
BY DEF FInv, Judged, VerdictOf, GroundInv, TruthfulVerdict, UnfundedInv, UnfundedStatus,
       Funded, HandoffStatus

(* The promise's view of the state.                                        *)
Asked == [o \in Ops |-> submits[o] > 0]
Judgement == [o \in Ops |-> Judged(o)]

(* A step that leaves the money alone and writes one record at most.       *)
LEMMA JudgeStep ==
  ASSUME FInv, FInv', UNCHANGED <<gateway, reversed, submits, settings>>, NEW o,
         \A r \in Ops : r # o => exec'[r].status = exec[r].status
  PROVE  [Promise!PromiseNext]_(Promise!promiseVars)
<1>1. Asked' = Asked
  BY DEF Asked
<1>2. \A r \in Ops : r # o => Judged(r)' = Judged(r)
  BY DEF Judged, VerdictOf
<1>3. CASE o \in Ops
  <2>1. Judgement' = [Judgement EXCEPT ![o] = Judged(o)']
    BY <1>2, <1>3 DEF Judgement
  <2>2. /\ Judged(o)' \in Promise!Verdict
        /\ Judged(o)' = "paid" => gateway[o] = "succeeded"
        /\ Judged(o)' = "rolledback" => reversed[o]
    BY <1>3, VerdictTrue DEF Promise!Verdict, FInv, Judged, VerdictOf, GroundInv,
       TruthfulVerdict, UnfundedInv, UnfundedStatus, Funded, HandoffStatus
  <2>3. Promise!Judge(o)
    BY <1>1, <2>1, <2>2 DEF Promise!Judge, Asked, Judgement, Judged
  <2>4. QED
    BY <1>3, <2>3 DEF Promise!PromiseNext
<1>4. CASE o \notin Ops
  <2>1. Judgement' = Judgement
    BY <1>2, <1>4 DEF Judgement
  <2>2. QED
    BY <1>1, <2>1 DEF Promise!promiseVars, Asked, Judgement, Judged
<1>5. QED
  BY <1>3, <1>4

(* A step that writes no record leaves the judgement.                      *)
LEMMA SameJudgement ==
  ASSUME UNCHANGED <<exec, settings>>
  PROVE  Judgement' = Judgement
BY DEF Judgement, Judged, VerdictOf

LEMMA SubmitAsks ==
  ASSUME FInv, NEW p \in Procs, Submit(p)
  PROVE  Promise!PromiseNext
<1>0. PICK o : o = OpOf(p)
  OBVIOUS
<1>1. o \in Ops /\ submits[o] = 0 /\ UNCHANGED <<exec, reversed, settings>>
  BY <1>0 DEF Submit, At, FInv, IInv, SlotInv, ClaimInv, Idle, OpOf, aside
<1>2. Asked' = [Asked EXCEPT ![o] = TRUE] /\ ~Asked[o]
  <2>1. submits \in [Ops -> Nat] /\ submits' = [submits EXCEPT ![o] = submits[o] + 1]
    BY <1>0 DEF Submit, FInv, IInv, TypeOK
  <2>2. submits'[o] > 0 /\ \A r \in Ops : r # o => submits'[r] = submits[r]
    BY <1>1, <2>1
  <2>3. (submits'[o] > 0) = TRUE /\ ~(submits[o] > 0)
    BY <1>1, <2>2
  <2>4. \A r \in Ops : r # o => (submits'[r] > 0) = (submits[r] > 0)
    BY <2>2
  <2>5. Asked' = [r \in Ops |-> IF r = o THEN TRUE ELSE Asked[r]]
    BY <2>3, <2>4, Zenon DEF Asked
  <2>6. QED
    BY <1>1, <2>3, <2>5, Zenon DEF Asked
<1>3. PICK s \in GatewayStatus : gateway' = [gateway EXCEPT ![o] = s]
  <2>1. gateway[o] \in GatewayStatus
    BY <1>1 DEF FInv, IInv, TypeOK
  <2>2. QED
    BY <1>0, <2>1 DEF Submit, LostOutcome, Outcome, GatewayStatus
<1>4. Promise!Ask(o)
  BY <1>1, <1>2, <1>3, SameJudgement DEF Promise!Ask, Promise!Funds, GatewayStatus, Asked,
     Judgement, Judged
<1>5. QED
  BY <1>1, <1>4 DEF Promise!PromiseNext

LEMMA CompensateUndoes ==
  ASSUME FInv, NEW p \in Procs, Compensate(p)
  PROVE  [Promise!PromiseNext]_(Promise!promiseVars)
<1>0. PICK o : o = OpOf(p)
  OBVIOUS
<1>1. o \in Ops /\ UNCHANGED <<exec, gateway, submits, settings>>
  BY <1>0 DEF Compensate, At, FInv, IInv, SlotInv, Idle, OpOf, aside
<1>2. Asked' = Asked /\ Judgement' = Judgement
  BY <1>1, SameJudgement DEF Asked
<1>3. reversed' = reversed \/ reversed' = [reversed EXCEPT ![o] = TRUE]
  BY <1>0, <1>1 DEF Compensate, FInv, IInv, TypeOK
<1>4. settings.manual \/ gateway[o] = "failed"
  BY <1>0 DEF Compensate, At, FInv, GroundInv, Ground, SettlingPc, OpOf
<1>5. CASE reversed' = reversed
  BY <1>1, <1>2, <1>5 DEF Promise!promiseVars, Asked, Judgement, Judged
<1>6. CASE reversed' = [reversed EXCEPT ![o] = TRUE]
  <2>1. Promise!Undo(o)
    BY <1>1, <1>2, <1>4, <1>6 DEF Promise!Undo, Asked, Judgement, Judged
  <2>2. QED
    BY <1>1, <2>1 DEF Promise!PromiseNext
<1>7. QED
  BY <1>3, <1>5, <1>6

LEMMA ResolveDecides ==
  ASSUME NEW o \in Ops, GatewayResolve(o)
  PROVE  Promise!PromiseNext
<1>1. UNCHANGED <<exec, reversed, submits, settings>>
  BY DEF GatewayResolve, aside
<1>2. Asked' = Asked /\ Judgement' = Judgement
  BY <1>1, SameJudgement DEF Asked
<1>3. Promise!Decide(o)
  BY <1>1, <1>2 DEF GatewayResolve, Promise!Decide, Asked, Judgement, Judged
<1>4. QED
  BY <1>1, <1>3 DEF Promise!PromiseNext

(* The other steps of a handler write its own record or none.              *)
LEMMA StepJudges ==
  ASSUME FInv, NEW p \in Procs, Step(p) \/ Crash(p), ~Submit(p), ~Compensate(p)
  PROVE  /\ UNCHANGED <<gateway, reversed, submits>>
         /\ \A r \in Ops : r # OpOf(p) => exec'[r].status = exec[r].status
<1>1. exec \in [Ops -> ExecRow]
  BY DEF FInv, IInv, TypeOK
<1>2. UNCHANGED <<gateway, reversed, submits>>
  BY DEF Step, Lookup, Create, ShadowConfirm, ClaimSubmit, RecordSubmitted,
     ReadSubmitted, RecordUncertain, RecordDispatchFailed, SettleRead, Normalise,
     NormaliseRead, RecordCompensated, RecordCompensationFailed, Query,
     RecordConfirmed, RecordMismatch, OpExecuted, OpHandoff, OpFailed,
     MarkOperation, Crash, outside
<1>3. exec' = exec \/ \E row : exec' = [exec EXCEPT ![OpOf(p)] = row]
  BY DEF Step, Lookup, Create, ShadowConfirm, ClaimSubmit, RecordSubmitted,
     ReadSubmitted, RecordUncertain, RecordDispatchFailed, SettleRead, Normalise,
     NormaliseRead, RecordCompensated, RecordCompensationFailed, Query,
     RecordConfirmed, RecordMismatch, OpExecuted, OpHandoff, OpFailed,
     MarkOperation, Crash, Transition, WriteRow
<1>4. QED
  BY <1>1, <1>2, <1>3

LEMMA DeliverJudges ==
  ASSUME FInv, NEW p \in Procs, NEW m \in mail, DeliverCallback(p, m)
  PROVE  /\ UNCHANGED <<gateway, reversed, submits>>
         /\ \A r \in Ops : r # m.op => exec'[r].status = exec[r].status
BY DEF DeliverCallback, BookNonce, WriteRow, outside, FInv, IInv, TypeOK

LEMMA StepImplements ==
  ASSUME FInv, FInv', [Next]_vars
  PROVE  [Promise!PromiseNext]_(Promise!promiseVars)
<1>1. settings' = settings
  BY SettingsStay
<1>2. ASSUME NEW p \in Procs, Step(p) \/ Crash(p)
      PROVE  [Promise!PromiseNext]_(Promise!promiseVars)
  <2>1. CASE Submit(p)
    BY <2>1, SubmitAsks
  <2>2. CASE Compensate(p)
    BY <2>2, CompensateUndoes
  <2>3. CASE ~Submit(p) /\ ~Compensate(p)
    BY <1>1, <1>2, <2>3, StepJudges, JudgeStep
  <2>4. QED
    BY <2>1, <2>2, <2>3
<1>3. CASE \E p \in Threads : \E m \in mail : DeliverCallback(p, m)
  BY <1>1, <1>3, DeliverJudges, JudgeStep DEF Procs
<1>4. CASE \E o \in Ops : GatewayResolve(o)
  BY <1>4, ResolveDecides
<1>5. CASE \/ \E p \in Threads, o \in Ops : StartExecute(p, o) \/ StartCompensate(p, o)
           \/ \E p \in Workers, o \in Ops : StartReconcile(p, o)
           \/ \E o \in Ops, n \in Nonces : GatewayNotify(o, n)
           \/ UNCHANGED vars
  <2>1. UNCHANGED <<exec, gateway, reversed, submits>>
    BY <1>5 DEF StartExecute, StartCompensate, StartReconcile, GatewayNotify, vars, outside
  <2>2. QED
    BY <1>1, <2>1, JudgeStep
<1>6. QED
  BY <1>2, <1>3, <1>4, <1>5 DEF Next

LEMMA InitImplements == Init => Promise!PromiseInit
<1> SUFFICES ASSUME Init PROVE Promise!PromiseInit
  OBVIOUS
<1>1. settings.manual \in BOOLEAN
  BY SettingsAssumption DEF Init
<1>2. Asked = [o \in Ops |-> FALSE] /\ Judgement = [o \in Ops |-> "open"]
  <2>1. \A o \in Ops : ~(submits[o] > 0) /\ exec[o].status = "absent"
    BY DEF Init, NoRow
  <2>2. \A o \in Ops : Judged(o) = "open"
    BY <2>1 DEF Judged, VerdictOf, HandoffStatus
  <2>3. \A o \in Ops : (submits[o] > 0) = FALSE
    BY <2>1
  <2>4. QED
    BY <2>2, <2>3, Zenon DEF Asked, Judgement
<1>3. QED
  BY <1>1, <1>2 DEF Init, Promise!PromiseInit, Asked, Judgement, Judged

(* Whatever execute nodes, callbacks, workers and crashes do to the        *)
(* records, and however late the gateway answers, the money follows        *)
(* FundsPromise: asked for once, undone only after a refusal or by order,  *)
(* judged truthfully.                                                      *)
THEOREM Implements == Spec => ImplementsPromise
<1>1. FInv /\ FInv' /\ [Next]_vars => [Promise!PromiseNext]_(Promise!promiseVars)
  BY StepImplements
<1>2. QED
  BY <1>1, InitImplements, FAlways, PTL DEF Spec, ImplementsPromise, Promise!PromiseSpec

-----------------------------------------------------------------------------
(* A callback that moves a record books a new nonce on an open one.        *)
LEMMA DeliverKeepsClosed ==
  ASSUME IInv, NEW p \in Procs, NEW m \in mail, DeliverCallback(p, m), NEW o \in Ops
  PROVE  \/ exec'[o].status = exec[o].status
         \/ exec[o].status \notin Terminal /\ exec'[o].nonce # exec[o].nonce
<1>1. m.op \in Ops /\ exec \in [Ops -> ExecRow]
  BY DEF IInv, TypeOK, Callback
<1>2. PICK s : BookNonce(m.op, s, m)
  BY DEF DeliverCallback
<1>3. exec[m.op].nonce # m.nonce /\ exec[m.op].status \notin Terminal
  BY DEF DeliverCallback, IsAmountMismatch, IsProcessing, IsApplied, IsAdmitted,
     IsReplay, IsTerminalLocked
<1>4. QED
  BY <1>1, <1>2, <1>3 DEF BookNonce, WriteRow

(* However many callbacks are delivered late, twice or out of order, none  *)
(* moves a terminal record and none is applied on the nonce last booked.   *)
THEOREM CallbacksKeepClosed == Spec => CallbackKeepsClosed
<1>1. IInv /\ [Next]_vars =>
        [CallbackStep =>
           \A o \in Ops :
             \/ exec'[o].status = exec[o].status
             \/ /\ exec[o].status \notin Terminal
                /\ exec'[o].nonce # exec[o].nonce]_vars
  BY DeliverKeepsClosed DEF CallbackStep, Procs
<1>2. QED
  BY <1>1, InvAlways, PTL DEF Spec, CallbackKeepsClosed
-----------------------------------------------------------------------------
(* One handler at a time.                                                  *)

(* Where a handler tests or uses the copy it holds, and where it reverses. *)
CopyPc ==
  {"shadowConfirm", "claim", "submit", "recordUncertain", "recordDispatchFailed",
   "normalise", "compensate", "recordCompensated", "recordCompensationFailed",
   "query", "recordConfirmed", "recordMismatch"}
ReversalPc == {"compensate", "recordCompensated", "recordCompensationFailed"}

(* Its copy is the row, and whatever the row says that the operation does  *)
(* not show yet is about to be written there.                              *)
Working(p, o) ==
  /\ task[p].pc \in CopyPc => task[p].snap = exec[o].status
  /\ exec[o].status = "confirmed" =>
       \/ At(p, "opExecuted")
       \/ /\ task[p].kind = "compensate" /\ task[p].pc \in ReversalPc
          /\ opStatus[o] = "executed"
  /\ ~settings.manual /\ exec[o].status \in HandoffStatus => At(p, "opHandoff")
  /\ ~settings.manual => task[p].kind # "compensate"

Resting(o) ==
  /\ exec[o].status = "confirmed" => opStatus[o] = "executed"
  /\ ~settings.manual /\ exec[o].status \in HandoffStatus => opStatus[o] = "human_handoff"

Alone(o) ==
  /\ \A p, q \in Procs : OpOf(p) = o /\ OpOf(q) = o => p = q
  /\ \A p \in Procs : OpOf(p) = o => Working(p, o)
  /\ Quiet(o) => Resting(o)

AloneInv == \A o \in Ops : o \notin disturbed => Alone(o)

(* A step leaves the operation as it is and nobody comes to or leaves it.  *)
LEMMA Untouched ==
  ASSUME NEW o \in Ops, Alone(o),
         exec'[o].status = exec[o].status, opStatus'[o] = opStatus[o],
         settings' = settings,
         \A q \in Procs : \/ task'[q] = task[q]
                          \/ task[q].op # o /\ task'[q].op # o
  PROVE  Alone(o)'
<1>1. \A q \in Procs : (OpOf(q)' = o) = (OpOf(q) = o)
  BY DEF OpOf
<1>2. \A q \in Procs : OpOf(q)' = o => task'[q] = task[q]
  BY DEF OpOf
<1>3. (\A q, r \in Procs : OpOf(q) = o /\ OpOf(r) = o => q = r)'
  BY <1>1 DEF Alone
<1>4. (\A q \in Procs : OpOf(q) = o => Working(q, o))'
  BY <1>1, <1>2 DEF Alone, Working, At
<1>5. (Quiet(o) => Resting(o))'
  BY <1>1 DEF Alone, Quiet, Resting
<1>6. QED
  BY <1>3, <1>4, <1>5 DEF Alone

(* The only handler on an operation moves on or leaves.                    *)
OwnMove(p, o) ==
  /\ \A q \in Procs : q # p => task'[q] = task[q]
  /\ \/ OpOf(p)' = o /\ Working(p, o)'
     \/ OpOf(p)' # o /\ Resting(o)'

LEMMA OwnMoveKeeps ==
  ASSUME NEW o \in Ops, Alone(o), NEW p \in Procs, OpOf(p) = o, OwnMove(p, o)
  PROVE  Alone(o)'
<1>1. \A q \in Procs : q # p => OpOf(q)' # o
  BY DEF OwnMove, Alone, OpOf
<1>2. (\A q, r \in Procs : OpOf(q) = o /\ OpOf(r) = o => q = r)'
  BY <1>1
<1>3. (\A q \in Procs : OpOf(q) = o => Working(q, o))'
  BY <1>1 DEF OwnMove
<1>4. (Quiet(o) => Resting(o))'
  BY DEF OwnMove, Quiet
<1>5. QED
  BY <1>2, <1>3, <1>4 DEF Alone

(* A handler comes to an operation nobody works on.                        *)
LEMMA ArrivalKeeps ==
  ASSUME NEW o \in Ops, Quiet(o), NEW p \in Procs, OpOf(p)' = o,
         \A q \in Procs : q # p => task'[q] = task[q], Working(p, o)'
  PROVE  Alone(o)'
<1>1. \A q \in Procs : q # p => OpOf(q)' # o
  BY DEF Quiet, OpOf
<1>2. QED
  BY <1>1 DEF Alone, Quiet

(* What a terminal row says of the handler on it.                          *)
Stays(o) == exec[o].status \in Terminal => exec'[o].status = exec[o].status

(* A step that writes no row, made before the handler has judged: it goes  *)
(* on or leaves.                                                           *)
LEMMA MoveOn ==
  ASSUME IInv, NEW p \in Procs, ~At(p, "idle"), NEW o \in Ops, o = OpOf(p),
         Working(p, o), ~At(p, "opExecuted"), ~At(p, "opHandoff"),
         NEW pc \in Pc, NEW snap \in RowStatus, GotoWith(p, pc, snap),
         exec'[o].status = exec[o].status, opStatus' = opStatus, settings' = settings,
         pc \in CopyPc => snap = exec[o].status,
         exec[o].status = "confirmed" => pc \in ReversalPc \cup {"idle"}
  PROVE  OwnMove(p, o) /\ Stays(o)
<1>1. /\ \A q \in Procs : q # p => task'[q] = task[q]
      /\ pc = "idle" => task'[p] = Idle
      /\ pc # "idle" => /\ task'[p].pc = pc /\ task'[p].op = task[p].op
                        /\ task'[p].kind = task[p].kind /\ task'[p].snap = snap
  BY GotoType DEF IInv, TypeOK
<1>2. CASE pc = "idle"
  <2>1. OpOf(p)' # o
    BY <1>1, <1>2, NullAssumption DEF OpOf, Idle
  <2>2. Resting(o)'
    BY DEF Working, Resting, At
  <2>3. QED
    BY <1>1, <2>1, <2>2 DEF OwnMove, Stays
<1>3. CASE pc # "idle"
  <2>1. OpOf(p)' = o
    BY <1>1, <1>3 DEF OpOf
  <2>2. Working(p, o)'
    BY <1>1, <1>3 DEF Working, At
  <2>3. QED
    BY <1>1, <2>1, <2>2 DEF OwnMove, Stays
<1>4. QED
  BY <1>2, <1>3

(* _transition on a copy that is the row: legal only on an open row, and   *)
(* the handler goes where the new status has to be shown.                  *)
LEMMA TransitionAlone ==
  ASSUME IInv, NEW p \in Procs, NEW o \in Ops, o = OpOf(p), Working(p, o),
         task[p].pc \in CopyPc, NEW s \in RowStatus, NEW x \in BOOLEAN,
         NEW pc \in Pc, Transition(p, s, x, pc), opStatus' = opStatus,
         settings' = settings, pc \notin CopyPc,
         s = "confirmed" => pc = "opExecuted",
         ~settings.manual /\ s \in HandoffStatus => pc = "opHandoff"
  PROVE  OwnMove(p, o) /\ Stays(o)
<1>1. task[p].snap = exec[o].status /\ task[p].snap \in RowStatus
  BY SnapType DEF Working, CopyPc, IInv
<1>2. ~At(p, "idle") /\ ~At(p, "opExecuted") /\ ~At(p, "opHandoff")
  BY DEF CopyPc, At
<1>3. CASE CanTransition(task[p].snap, s)
  <2>1. exec[o].status \notin Terminal
    BY <1>1, <1>3, CanTransitionType
  <2>2. exec'[o].status = s
    BY <1>3, WriteRowType, RowType DEF Transition, IInv
  <2>3. /\ \A q \in Procs : q # p => task'[q] = task[q]
        /\ pc = "idle" => task'[p] = Idle
        /\ pc # "idle" => /\ task'[p].pc = pc /\ task'[p].op = task[p].op
                          /\ task'[p].kind = task[p].kind
    BY <1>1, <1>3, GotoType DEF Transition, Goto, IInv, TypeOK
  <2>4. CASE pc = "idle"
    <3>1. OpOf(p)' # o
      BY <2>3, <2>4, NullAssumption DEF OpOf, Idle
    <3>2. Resting(o)'
      BY <2>2, <2>4 DEF Resting
    <3>3. QED
      BY <2>1, <2>3, <3>1, <3>2 DEF OwnMove, Stays
  <2>5. CASE pc # "idle"
    <3>1. OpOf(p)' = o
      BY <2>3, <2>5 DEF OpOf
    <3>2. Working(p, o)'
      BY <2>2, <2>3, <2>5 DEF Working, At
    <3>3. QED
      BY <2>1, <2>3, <3>1, <3>2 DEF OwnMove, Stays
  <2>6. QED
    BY <2>4, <2>5
<1>4. CASE ~CanTransition(task[p].snap, s)
  <2>1. GotoWith(p, AfterRaise(p), task[p].snap) /\ exec' = exec
    BY <1>4 DEF Transition, Goto
  <2>2. AfterRaise(p) \in Pc \ CopyPc
    BY DEF AfterRaise, Pc, CopyPc
  <2>3. exec[o].status = "confirmed" => AfterRaise(p) = "idle"
    BY <1>2 DEF Working, AfterRaise
  <2>4. QED
    BY <1>1, <1>2, <2>1, <2>2, <2>3, MoveOn
<1>5. QED
  BY <1>3, <1>4

LEMMA QuietAlone ==
  ASSUME IInv, NEW p \in Procs, NEW o \in Ops, o = OpOf(p), Working(p, o),
         \/ Lookup(p) \/ Submit(p) \/ ReadSubmitted(p) \/ SettleRead(p)
         \/ NormaliseRead(p) \/ Compensate(p) \/ Query(p)
  PROVE  OwnMove(p, o) /\ Stays(o)
<1>1. /\ ~At(p, "idle") /\ ~At(p, "opExecuted") /\ ~At(p, "opHandoff")
      /\ UNCHANGED <<exec, opStatus, settings>>
  BY DEF Lookup, Submit, ReadSubmitted, SettleRead, NormaliseRead, Compensate, Query,
     outside, aside, At
<1>2. task[p].snap \in RowStatus /\ exec[o].status \in RowStatus
  BY SnapType, RowType DEF IInv
<1>3. {"idle", "create", "opFailed", "recordSubmitted", "recordDispatchFailed",
       "recordUncertain", "opExecuted", "compensate", "normalise", "recordCompensated",
       "recordCompensationFailed", "recordConfirmed", "recordMismatch", AfterRaise(p)}
        \subseteq Pc
  BY DEF Pc, AfterRaise
<1>4. SUFFICES \E pc \in Pc, snap \in RowStatus :
                 /\ GotoWith(p, pc, snap)
                 /\ pc \in CopyPc => snap = exec[o].status
                 /\ exec[o].status = "confirmed" => pc \in ReversalPc \cup {"idle"}
  BY <1>1, MoveOn
<1>5. CASE Lookup(p)
  <2>1. exec[o].status # "confirmed"
    BY <1>5 DEF Lookup, Working, At, ReversalPc
  <2>2. PICK pc \in {"idle", "create", AfterRaise(p)} : GotoWith(p, pc, task[p].snap)
    BY <1>5 DEF Lookup, Return, Goto
  <2>3. pc \notin CopyPc
    BY DEF AfterRaise, CopyPc
  <2>4. QED
    BY <1>2, <1>3, <2>1, <2>2, <2>3
<1>6. CASE Submit(p)
  <2>1. exec[o].status # "confirmed" /\ task[p].snap = exec[o].status
    BY <1>6 DEF Submit, Working, At, ReversalPc, CopyPc
  <2>2. PICK pc \in {"recordSubmitted", "recordDispatchFailed", "recordUncertain"} :
          GotoWith(p, pc, task[p].snap)
    BY <1>6 DEF Submit, Goto
  <2>3. QED
    BY <1>2, <1>3, <2>1, <2>2
<1>7. CASE ReadSubmitted(p)
  <2>1. exec[o].status # "confirmed"
    BY <1>7 DEF ReadSubmitted, Working, At, ReversalPc
  <2>2. PICK pc \in {"idle", "opExecuted"} : GotoWith(p, pc, task[p].snap)
    BY <1>7 DEF ReadSubmitted, Return, Goto
  <2>3. QED
    BY <1>2, <1>3, <2>1, <2>2 DEF CopyPc
<1>8. CASE SettleRead(p)
  <2>1. exec[o].status # "confirmed"
    BY <1>8 DEF SettleRead, Working, At, ReversalPc
  <2>2. PICK pc \in {"compensate", "normalise", AfterRaise(p)} :
          GotoWith(p, pc, exec[o].status)
    BY <1>8 DEF SettleRead, EnterSettle, SettleEntry
  <2>3. QED
    BY <1>2, <1>3, <2>1, <2>2
<1>9. CASE NormaliseRead(p)
  <2>1. GotoWith(p, "compensate", exec[o].status)
    BY <1>9 DEF NormaliseRead
  <2>2. QED
    BY <1>2, <1>3, <2>1 DEF ReversalPc
<1>10. CASE Compensate(p)
  <2>1. task[p].snap = exec[o].status
    BY <1>10 DEF Compensate, Working, At, CopyPc
  <2>2. PICK pc \in {"recordCompensated", "recordCompensationFailed"} :
          GotoWith(p, pc, task[p].snap)
    BY <1>10 DEF Compensate, Goto
  <2>3. QED
    BY <1>2, <1>3, <2>1, <2>2 DEF ReversalPc
<1>11. CASE Query(p)
  <2>1. exec[o].status # "confirmed" /\ task[p].snap = exec[o].status
    BY <1>11 DEF Query, Working, At, ReversalPc, CopyPc
  <2>2. PICK pc \in {"recordMismatch", "recordConfirmed", "compensate", "normalise",
                     AfterRaise(p)} :
          GotoWith(p, pc, task[p].snap)
    BY <1>11 DEF Query, Goto, EnterSettle, SettleEntry
  <2>3. QED
    BY <1>2, <1>3, <2>1, <2>2
<1>12. QED
  BY <1>5, <1>6, <1>7, <1>8, <1>9, <1>10, <1>11

LEMMA TransitionActionsAlone ==
  ASSUME IInv, NEW p \in Procs, NEW o \in Ops, o = OpOf(p), Working(p, o),
         \/ ShadowConfirm(p) \/ RecordUncertain(p) \/ RecordDispatchFailed(p)
         \/ Normalise(p) \/ RecordCompensated(p) \/ RecordCompensationFailed(p)
         \/ RecordConfirmed(p) \/ RecordMismatch(p)
  PROVE  OwnMove(p, o) /\ Stays(o)
<1>1. task[p].pc \in CopyPc /\ UNCHANGED <<opStatus, settings>>
  BY DEF ShadowConfirm, RecordUncertain, RecordDispatchFailed, Normalise,
     RecordCompensated, RecordCompensationFailed, RecordConfirmed, RecordMismatch,
     outside, aside, At, CopyPc
<1>2. /\ {"opExecuted", "settleRead", "normaliseRead", "opHandoff", "idle"} \subseteq Pc
      /\ {"confirmed", "failed_uncertain", "failed_dispatch", "compensated",
          "compensation_failed", "mismatched"} \subseteq RowStatus
  BY DEF Pc, RowStatus, ExecutionStatus, UnusedStatuses
<1>3. PICK s \in {"confirmed", "failed_uncertain", "failed_dispatch", "compensated",
                  "compensation_failed", "mismatched"},
           x \in BOOLEAN,
           pc \in {"opExecuted", "settleRead", "normaliseRead", "opHandoff", "idle"} :
        /\ Transition(p, s, x, pc)
        /\ s = "confirmed" => pc = "opExecuted"
        /\ ~settings.manual /\ s \in HandoffStatus => pc = "opHandoff"
  <2>1. \/ Transition(p, "confirmed", TRUE, "opExecuted")
        \/ Transition(p, "confirmed", FALSE, "opExecuted")
        \/ Transition(p, "failed_uncertain", FALSE, "opExecuted")
        \/ Transition(p, "failed_dispatch", TRUE, "settleRead")
        \/ Transition(p, "failed_dispatch", FALSE, "normaliseRead")
        \/ Transition(p, "compensated", FALSE, AfterCompensation(p, "opExecuted"))
        \/ Transition(p, "compensation_failed", FALSE, AfterCompensation(p, "opHandoff"))
        \/ Transition(p, "mismatched", FALSE, "opHandoff")
    BY DEF ShadowConfirm, RecordUncertain, RecordDispatchFailed, Normalise,
       RecordCompensated, RecordCompensationFailed, RecordConfirmed, RecordMismatch
  <2>2. /\ AfterCompensation(p, "opExecuted") \in {"idle", "opExecuted"}
        /\ AfterCompensation(p, "opHandoff") \in {"idle", "opHandoff"}
        /\ ~settings.manual => AfterCompensation(p, "opHandoff") = "opHandoff"
    BY DEF AfterCompensation, Working
  <2>3. {"failed_uncertain", "failed_dispatch", "compensated", "confirmed"}
          \cap HandoffStatus = {}
    BY DEF HandoffStatus
  <2>4. QED
    BY <2>1, <2>2, <2>3
<1>4. pc \notin CopyPc
  BY DEF CopyPc
<1>5. QED
  BY <1>1, <1>2, <1>3, <1>4, TransitionAlone

LEMMA RowActionsAlone ==
  ASSUME IInv, NEW p \in Procs, NEW o \in Ops, o = OpOf(p), Working(p, o),
         Create(p) \/ ClaimSubmit(p) \/ RecordSubmitted(p)
  PROVE  OwnMove(p, o) /\ Stays(o)
<1>1. /\ ~At(p, "idle") /\ ~At(p, "opExecuted") /\ ~At(p, "opHandoff")
      /\ UNCHANGED <<opStatus, settings>>
      /\ exec[o].status # "confirmed"
  BY DEF Create, ClaimSubmit, RecordSubmitted, outside, aside, At, Working, ReversalPc
<1>2. /\ task[p].snap \in RowStatus /\ exec[o].status \in RowStatus
      /\ exec[o].txn \in BOOLEAN /\ exec[o].attempts \in {0, 1}
      /\ exec[o].nonce \in Nonces \cup {NoNonce}
      /\ {"pending_submit", "submitted"} \subseteq RowStatus
  BY SnapType, RowType DEF IInv, RowStatus, ExecutionStatus, UnusedStatuses
<1>3. {"idle", "submit", "readSubmitted", AfterCreate} \subseteq Pc
  BY DEF Pc, AfterCreate
<1>4. CASE Create(p)
  <2>1. PICK s \in {"pending_submit", exec[o].status} :
          /\ WriteRow(o, s, exec[o].attempts, exec[o].txn, exec[o].nonce)
          /\ GotoWith(p, AfterCreate, s)
          /\ s = IF exec[o].status = "absent" THEN "pending_submit" ELSE exec[o].status
    BY <1>4 DEF Create
  <2>2. exec'[o].status = s
    BY <1>2, <2>1, WriteRowType DEF IInv
  <2>3. /\ \A q \in Procs : q # p => task'[q] = task[q]
        /\ task'[p].pc = AfterCreate /\ task'[p].op = o
        /\ task'[p].kind = task[p].kind /\ task'[p].snap = s
    BY <1>2, <1>3, <2>1, GotoType DEF IInv, TypeOK, AfterCreate, OpOf
  <2>4. s # "confirmed" /\ (s \in HandoffStatus => exec[o].status \in HandoffStatus)
    BY <1>1, <2>1 DEF HandoffStatus
  <2>5. ~settings.manual => s \notin HandoffStatus
    BY <1>1, <2>4 DEF Working
  <2>6. OpOf(p)' = o /\ Working(p, o)'
    BY <1>1, <2>2, <2>3, <2>4, <2>5 DEF OpOf, Working
  <2>7. Stays(o)
    BY <2>1, <2>2 DEF Stays, Terminal
  <2>8. QED
    BY <2>3, <2>6, <2>7 DEF OwnMove
<1>5. CASE ClaimSubmit(p)
  <2>1. exec'[o].status = exec[o].status
    BY <1>2, <1>5, WriteRowType DEF ClaimSubmit, IInv
  <2>2. PICK pc \in {"idle", "submit"} : GotoWith(p, pc, task[p].snap)
    BY <1>5 DEF ClaimSubmit, Return, Goto
  <2>3. task[p].snap = exec[o].status
    BY <1>5 DEF ClaimSubmit, Working, At, CopyPc
  <2>4. QED
    BY <1>1, <1>2, <1>3, <2>1, <2>2, <2>3, MoveOn
<1>6. CASE RecordSubmitted(p)
  <2>1. CASE exec[o].status # "pending_submit"
    <3>1. GotoWith(p, "idle", task[p].snap) /\ exec' = exec
      BY <1>6, <2>1 DEF RecordSubmitted, Return, Goto
    <3>2. QED
      BY <1>1, <1>2, <1>3, <3>1, MoveOn DEF CopyPc
  <2>2. CASE exec[o].status = "pending_submit"
    <3>1. /\ WriteRow(o, "submitted", exec[o].attempts, TRUE, exec[o].nonce)
          /\ GotoWith(p, "readSubmitted", task[p].snap)
      BY <1>6, <2>2 DEF RecordSubmitted, Goto
    <3>2. exec'[o].status = "submitted"
      BY <3>1 DEF WriteRow, IInv, TypeOK
    <3>3. /\ \A q \in Procs : q # p => task'[q] = task[q]
          /\ task'[p].pc = "readSubmitted" /\ task'[p].op = o
          /\ task'[p].kind = task[p].kind
      BY <1>2, <1>3, <3>1, GotoType DEF IInv, TypeOK, OpOf
    <3>4. OpOf(p)' = o /\ Working(p, o)'
      BY <1>1, <3>2, <3>3 DEF OpOf, Working, CopyPc, HandoffStatus
    <3>5. Stays(o)
      BY <2>2 DEF Stays, Terminal
    <3>6. QED
      BY <3>3, <3>4, <3>5 DEF OwnMove
  <2>3. QED
    BY <2>1, <2>2
<1>7. QED
  BY <1>4, <1>5, <1>6

LEMMA MarkAlone ==
  ASSUME IInv, NEW p \in Procs, NEW o \in Ops, o = OpOf(p), Working(p, o),
         OpExecuted(p) \/ OpHandoff(p) \/ OpFailed(p)
  PROVE  OwnMove(p, o) /\ Stays(o)
<1>1. UNCHANGED <<exec, settings>> /\ GotoWith(p, "idle", task[p].snap)
  BY DEF OpExecuted, OpHandoff, OpFailed, MarkOperation, Return, Goto, aside
<1>2. /\ \A q \in Procs : q # p => task'[q] = task[q]
      /\ task'[p] = Idle
  <2>1. task[p].snap \in RowStatus /\ "idle" \in Pc
    BY SnapType DEF IInv, Pc
  <2>2. QED
    BY <1>1, <2>1, GotoType DEF IInv, TypeOK
<1>3. OpOf(p)' # o
  BY <1>2, NullAssumption DEF OpOf, Idle
<1>4. PICK s : /\ opStatus' = [opStatus EXCEPT ![o] = s]
               /\ \/ At(p, "opExecuted") /\ s = "executed"
                  \/ At(p, "opHandoff") /\ s = "human_handoff"
                  \/ At(p, "opFailed") /\ s = "failed"
  BY DEF OpExecuted, OpHandoff, OpFailed, MarkOperation, WriteOp
<1>5. opStatus'[o] = s
  BY <1>4 DEF IInv, TypeOK
<1>6. Resting(o)'
  BY <1>1, <1>4, <1>5 DEF Working, Resting, At, ReversalPc
<1>7. QED
  BY <1>1, <1>2, <1>3, <1>6 DEF OwnMove, Stays

LEMMA StepAlone ==
  ASSUME IInv, NEW p \in Procs, NEW o \in Ops, o = OpOf(p), Working(p, o), Step(p)
  PROVE  OwnMove(p, o) /\ Stays(o)
BY QuietAlone, TransitionActionsAlone, RowActionsAlone, MarkAlone DEF Step

(* A handler's step touches its own operation only.                        *)
LEMMA StepElsewhere ==
  ASSUME IInv, NEW p \in Procs, Step(p) \/ Crash(p), NEW o \in Ops, o # OpOf(p)
  PROVE  /\ exec'[o].status = exec[o].status /\ opStatus'[o] = opStatus[o]
         /\ settings' = settings
         /\ \A q \in Procs : \/ task'[q] = task[q]
                             \/ task[q].op # o /\ task'[q].op # o
<1>1. exec \in [Ops -> ExecRow] /\ opStatus \in [Ops -> OperationStatus]
      /\ task \in [Procs -> Task]
  BY DEF IInv, TypeOK
<1>2. settings' = settings
  BY SettingsStay DEF Next
<1>3. exec' = exec \/ \E row : exec' = [exec EXCEPT ![OpOf(p)] = row]
  BY DEF Step, Lookup, Create, ShadowConfirm, ClaimSubmit, Submit, RecordSubmitted,
     ReadSubmitted, RecordUncertain, RecordDispatchFailed, SettleRead, Normalise,
     NormaliseRead, Compensate, RecordCompensated, RecordCompensationFailed, Query,
     RecordConfirmed, RecordMismatch, OpExecuted, OpHandoff, OpFailed,
     MarkOperation, Crash, Transition, WriteRow
<1>4. opStatus' = opStatus \/ \E s : opStatus' = [opStatus EXCEPT ![OpOf(p)] = s]
  BY DEF Step, Lookup, Create, ShadowConfirm, ClaimSubmit, Submit, RecordSubmitted,
     ReadSubmitted, RecordUncertain, RecordDispatchFailed, SettleRead, Normalise,
     NormaliseRead, Compensate, RecordCompensated, RecordCompensationFailed, Query,
     RecordConfirmed, RecordMismatch, OpExecuted, OpHandoff, OpFailed,
     MarkOperation, Crash, WriteOp
<1>5. \E pc, snap : GotoWith(p, pc, snap)
  BY DEF Step, Lookup, Create, ShadowConfirm, ClaimSubmit, Submit, RecordSubmitted,
     ReadSubmitted, RecordUncertain, RecordDispatchFailed, SettleRead, Normalise,
     NormaliseRead, Compensate, RecordCompensated, RecordCompensationFailed, Query,
     RecordConfirmed, RecordMismatch, OpExecuted, OpHandoff, OpFailed,
     MarkOperation, Crash, Transition, Return, Goto, EnterSettle
<1>6. \A q \in Procs : q # p => task'[q] = task[q]
  BY <1>1, <1>5 DEF GotoWith
<1>7. task'[p].op \in {task[p].op, NoOp}
  BY <1>1, <1>5 DEF GotoWith, Idle
<1>8. \A q \in Procs : \/ task'[q] = task[q]
                       \/ task[q].op # o /\ task'[q].op # o
  BY <1>6, <1>7, NullAssumption DEF OpOf
<1>9. QED
  BY <1>1, <1>2, <1>3, <1>4, <1>8

(* A handler that begins beside another disturbs the operation.            *)
LEMMA StartAlone ==
  ASSUME IInv, AloneInv, NEW p \in Procs, NEW o \in Ops,
         StartExecute(p, o) \/ StartReconcile(p, o) \/ StartCompensate(p, o)
  PROVE  AloneInv'
<1>1. UNCHANGED <<exec, opStatus, settings>> /\ At(p, "idle")
  BY DEF StartExecute, StartReconcile, StartCompensate, outside
<1>2. PICK kind, pc, snap : Begin(p, kind, o, pc, snap)
  BY DEF StartExecute, StartReconcile, StartCompensate
<1>3. /\ \A q \in Procs : q # p => task'[q] = task[q]
      /\ task'[p] = [pc |-> pc, kind |-> kind, op |-> o, snap |-> snap]
  BY <1>2 DEF Begin, IInv, TypeOK
<1>4. task[p].op = NoOp
  BY <1>1, SlotCases DEF Idle, At
<1>5. disturbed' = IF Quiet(o) THEN disturbed ELSE disturbed \cup {o}
  BY DEF StartExecute, StartReconcile, StartCompensate, Join
<1>6. ASSUME NEW r \in Ops, r # o, r \notin disturbed'
      PROVE  Alone(r)'
  <2>1. Alone(r)
    BY <1>5, <1>6 DEF AloneInv
  <2>2. \A q \in Procs : \/ task'[q] = task[q]
                         \/ task[q].op # r /\ task'[q].op # r
    BY <1>3, <1>4, <1>6, NullAssumption
  <2>3. QED
    BY <1>1, <2>1, <2>2, Untouched
<1>7. ASSUME o \notin disturbed'
      PROVE  Alone(o)'
  <2>1. Quiet(o) /\ Resting(o)
    BY <1>5, <1>7 DEF AloneInv, Alone
  <2>2. Working(p, o)'
    <3>1. CASE StartExecute(p, o)
      <4>1. task'[p].pc = "lookup" /\ task'[p].kind = "execute"
        BY <3>1 DEF StartExecute, Begin, IInv, TypeOK
      <4>2. opStatus[o] \notin {"executed", "human_handoff"}
        BY <3>1 DEF StartExecute
      <4>3. QED
        BY <1>1, <2>1, <4>1, <4>2 DEF Resting, Working, CopyPc
    <3>2. CASE StartReconcile(p, o)
      <4>1. /\ task'[p].pc \in {"query", "recordMismatch"} /\ task'[p].kind = "reconcile"
            /\ task'[p].snap = exec[o].status
        BY <3>2 DEF StartReconcile, Begin, IInv, TypeOK
      <4>2. exec[o].status # "confirmed" /\ exec[o].status \notin HandoffStatus
        BY <3>2 DEF StartReconcile, ReconcileTargets, HandoffStatus
      <4>3. QED
        BY <1>1, <4>1, <4>2 DEF Working
    <3>3. CASE StartCompensate(p, o)
      <4>1. /\ task'[p].pc = "compensate" /\ task'[p].kind = "compensate"
            /\ task'[p].snap = exec[o].status /\ settings.manual
        BY <3>3 DEF StartCompensate, Begin, IInv, TypeOK
      <4>2. QED
        BY <1>1, <2>1, <4>1 DEF Resting, Working, ReversalPc
    <3>4. QED
      BY <3>1, <3>2, <3>3
  <2>3. OpOf(p)' = o
    BY <1>3 DEF OpOf
  <2>4. QED
    BY <1>3, <2>1, <2>2, <2>3, ArrivalKeeps
<1>8. QED
  BY <1>6, <1>7 DEF AloneInv

LEMMA DeliverAlone ==
  ASSUME IInv, AloneInv, NEW p \in Procs, NEW m \in mail, DeliverCallback(p, m)
  PROVE  AloneInv'
<1>0. PICK o : o = m.op
  OBVIOUS
<1>1. o \in Ops /\ At(p, "idle") /\ settings' = settings /\ task \in [Procs -> Task]
  BY <1>0 DEF DeliverCallback, IInv, TypeOK, Callback, outside
<1>2. task[p].op = NoOp
  BY <1>1, SlotCases DEF Idle, At
<1>3. disturbed' = IF Quiet(o) THEN disturbed ELSE disturbed \cup {o}
  BY <1>0 DEF DeliverCallback, Join
<1>4. exec \in [Ops -> ExecRow] /\ opStatus \in [Ops -> OperationStatus]
  BY DEF IInv, TypeOK
<1>5. \/ task' = task
      \/ Begin(p, "callback", o, "settleRead", "absent")
  BY <1>0 DEF DeliverCallback
<1>6. ASSUME NEW r \in Ops, r # o, r \notin disturbed'
      PROVE  Alone(r)'
  <2>1. Alone(r)
    BY <1>3, <1>6 DEF AloneInv
  <2>2. exec'[r].status = exec[r].status
    BY <1>0, <1>4, <1>6 DEF DeliverCallback, BookNonce, WriteRow
  <2>3. opStatus'[r] = opStatus[r]
    BY <1>0, <1>4, <1>6 DEF DeliverCallback, WriteOp
  <2>4. \A q \in Procs : \/ task'[q] = task[q]
                         \/ task[q].op # r /\ task'[q].op # r
    BY <1>1, <1>2, <1>5, <1>6, NullAssumption DEF Begin
  <2>5. QED
    BY <1>1, <2>1, <2>2, <2>3, <2>4, Untouched
<1>7. ASSUME o \notin disturbed'
      PROVE  Alone(o)'
  <2>1. Quiet(o) /\ Resting(o)
    BY <1>1, <1>3, <1>7 DEF AloneInv, Alone
  <2>2. PICK s, n : exec'[o] = [status |-> s, attempts |-> exec[o].attempts,
                                txn |-> exec[o].txn, nonce |-> n]
    BY <1>0, <1>1, <1>4 DEF DeliverCallback, BookNonce, WriteRow
  <2>3. CASE IsAmountMismatch(exec[o].status, exec[o].nonce, m)
    <3>1. exec'[o].status = "mismatched" /\ opStatus'[o] = "human_handoff" /\ task' = task
      BY <1>0, <1>1, <1>4, <2>3 DEF DeliverCallback, BookNonce, WriteRow, WriteOp,
         IsAmountMismatch, IsProcessing, IsApplied, IsAdmitted
    <3>2. Quiet(o)' /\ Resting(o)'
      BY <2>1, <3>1 DEF Quiet, OpOf, Resting
    <3>3. QED
      BY <3>2 DEF Alone, Quiet
  <2>4. CASE IsProcessing(exec[o].status, exec[o].nonce, m)
    <3>1. exec'[o].status = exec[o].status /\ opStatus' = opStatus /\ task' = task
      BY <1>0, <1>1, <1>4, <2>4 DEF DeliverCallback, BookNonce, WriteRow,
         IsAmountMismatch, IsProcessing, IsApplied, IsAdmitted, CanTransition
    <3>2. Quiet(o)' /\ Resting(o)'
      BY <1>1, <2>1, <3>1 DEF Quiet, OpOf, Resting
    <3>3. QED
      BY <3>2 DEF Alone, Quiet
  <2>5. CASE /\ IsApplied(exec[o].status, exec[o].nonce, m)
             /\ ~IsProcessing(exec[o].status, exec[o].nonce, m)
    <3>1. /\ exec'[o].status = NormalizeCallback(exec[o].status, m.status)
          /\ opStatus'[o] = "executed"
          /\ IF m.status = "failed"
               THEN Begin(p, "callback", o, "settleRead", "absent")
               ELSE task' = task
      BY <1>0, <1>1, <1>4, <2>5 DEF DeliverCallback, BookNonce, WriteRow, WriteOp,
         IsAmountMismatch, IsApplied, IsAdmitted
    <3>2. CASE m.status = "failed"
      <4>1. exec'[o].status = "failed_dispatch"
        BY <3>1, <3>2 DEF NormalizeCallback
      <4>2. /\ \A q \in Procs : q # p => task'[q] = task[q]
            /\ task'[p].pc = "settleRead" /\ task'[p].kind = "callback" /\ task'[p].op = o
        BY <1>1, <3>1, <3>2 DEF Begin
      <4>3. OpOf(p)' = o /\ Working(p, o)'
        BY <4>1, <4>2 DEF OpOf, Working, CopyPc, HandoffStatus
      <4>4. QED
        BY <1>1, <2>1, <4>2, <4>3, ArrivalKeeps
    <3>3. CASE m.status # "failed"
      <4>1. exec'[o].status = "confirmed"
        BY <2>5, <3>1, <3>3 DEF NormalizeCallback, IsApplied, IsProcessing
      <4>2. Quiet(o)' /\ Resting(o)'
        BY <2>1, <3>1, <3>3, <4>1 DEF Quiet, OpOf, Resting, HandoffStatus
      <4>3. QED
        BY <4>2 DEF Alone, Quiet
    <3>4. QED
      BY <3>2, <3>3
  <2>6. QED
    BY <1>0, <2>3, <2>4, <2>5 DEF DeliverCallback
<1>8. QED
  BY <1>6, <1>7 DEF AloneInv

LEMMA AloneNext ==
  ASSUME IInv, AloneInv, [Next]_vars
  PROVE  AloneInv'
<1>1. settings' = settings
  BY SettingsStay
<1>2. ASSUME NEW p \in Procs, Step(p)
      PROVE  AloneInv'
  <2>1. disturbed' = disturbed
    BY <1>2 DEF Step, Lookup, Create, ShadowConfirm, ClaimSubmit, Submit,
       RecordSubmitted, ReadSubmitted, RecordUncertain, RecordDispatchFailed, SettleRead,
       Normalise, NormaliseRead, Compensate, RecordCompensated,
       RecordCompensationFailed, Query, RecordConfirmed, RecordMismatch, OpExecuted,
       OpHandoff, OpFailed, MarkOperation, aside
  <2>2. ASSUME NEW o \in Ops, o \notin disturbed', o = OpOf(p)
        PROVE  Alone(o)'
    <3>1. Alone(o) /\ Working(p, o)
      BY <2>1, <2>2 DEF AloneInv, Alone
    <3>2. OwnMove(p, o)
      BY <1>2, <2>2, <3>1, StepAlone
    <3>3. QED
      BY <2>2, <3>1, <3>2, OwnMoveKeeps
  <2>3. ASSUME NEW o \in Ops, o \notin disturbed', o # OpOf(p)
        PROVE  Alone(o)'
    BY <1>2, <2>1, <2>3, StepElsewhere, Untouched DEF AloneInv
  <2>4. QED
    BY <2>2, <2>3 DEF AloneInv
<1>3. ASSUME NEW p \in Procs, Crash(p)
      PROVE  AloneInv'
  <2>1. disturbed' = disturbed \cup {OpOf(p)}
    BY <1>3 DEF Crash
  <2>2. ASSUME NEW o \in Ops, o \notin disturbed'
        PROVE  Alone(o)'
    BY <1>3, <2>1, <2>2, StepElsewhere, Untouched DEF AloneInv
  <2>3. QED
    BY <2>2 DEF AloneInv
<1>4. CASE \/ \E p \in Threads, o \in Ops : StartExecute(p, o) \/ StartCompensate(p, o)
           \/ \E p \in Workers, o \in Ops : StartReconcile(p, o)
  BY <1>4, StartAlone DEF Procs
<1>5. CASE \E p \in Threads : \E m \in mail : DeliverCallback(p, m)
  BY <1>5, DeliverAlone DEF Procs
<1>6. CASE \/ \E o \in Ops : GatewayResolve(o)
           \/ \E o \in Ops, n \in Nonces : GatewayNotify(o, n)
           \/ UNCHANGED vars
  <2>1. UNCHANGED <<exec, opStatus, task, disturbed, settings>>
    BY <1>6 DEF GatewayResolve, GatewayNotify, vars, aside
  <2>2. QED
    BY <2>1, Untouched DEF AloneInv
<1>7. QED
  BY <1>2, <1>3, <1>4, <1>5, <1>6 DEF Next

LEMMA AloneAlways == Spec => [](IInv /\ AloneInv)
<1>1. Init => AloneInv
  <2> SUFFICES ASSUME Init, NEW o \in Ops PROVE Alone(o)
    BY DEF AloneInv
  <2>1. \A p \in Procs : OpOf(p) # o
    BY NullAssumption DEF Init, OpOf, Idle
  <2>2. Resting(o)
    BY DEF Init, Resting, NoRow, HandoffStatus
  <2>3. QED
    BY <2>1, <2>2 DEF Alone
<1>2. IInv /\ AloneInv /\ [Next]_vars => (IInv /\ AloneInv)'
  BY NextInv, AloneNext
<1>3. Init => IInv /\ AloneInv
  BY <1>1, InitInv
<1>4. QED
  BY <1>2, <1>3, PTL DEF Spec

(* Where no two handlers meet on an operation and none dies on it, what    *)
(* rests shows: a confirmed execution as executed, one that a human must   *)
(* look at as handed over, however many attempts, callbacks, settlements   *)
(* and reconciliations followed each other.                                *)
THEOREM AgreementHolds == Spec => []OperationAgrees
<1>1. AloneInv => OperationAgrees
  <2> SUFFICES ASSUME AloneInv PROVE OperationAgrees
    OBVIOUS
  <2>1. \A o \in Ops : o \notin disturbed /\ Quiet(o) => Resting(o)
    BY DEF AloneInv, Alone
  <2>2. QED
    BY <2>1 DEF OperationAgrees, HandoffVisible, ConfirmedNotFailed, Resting
<1>2. QED
  BY <1>1, AloneAlways, PTL

LEMMA AloneStays ==
  ASSUME IInv, AloneInv, [Next]_vars, NEW o \in Ops, o \notin disturbed'
  PROVE  Stays(o)
<1>1. CASE \E p \in Procs : Step(p) \/ Crash(p)
  <2>1. PICK p \in Procs : Step(p) \/ Crash(p)
    BY <1>1
  <2>2. CASE o # OpOf(p)
    BY <2>1, <2>2, StepElsewhere DEF Stays
  <2>3. CASE Crash(p)
    BY <2>3 DEF Crash, Stays
  <2>4. CASE o = OpOf(p) /\ Step(p)
    <3>1. disturbed' = disturbed
      BY <2>4 DEF Step, Lookup, Create, ShadowConfirm, ClaimSubmit, Submit,
         RecordSubmitted, ReadSubmitted, RecordUncertain, RecordDispatchFailed,
         SettleRead, Normalise, NormaliseRead, Compensate, RecordCompensated,
         RecordCompensationFailed, Query, RecordConfirmed, RecordMismatch, OpExecuted,
         OpHandoff, OpFailed, MarkOperation, aside
    <3>2. Working(p, o)
      BY <2>4, <3>1 DEF AloneInv, Alone
    <3>3. QED
      BY <2>4, <3>2, StepAlone
  <2>5. QED
    BY <2>1, <2>2, <2>3, <2>4
<1>2. CASE \E p \in Threads : \E m \in mail : DeliverCallback(p, m)
  BY <1>2, DeliverKeepsClosed DEF Procs, Stays
<1>3. CASE \/ \E p \in Threads, r \in Ops : StartExecute(p, r) \/ StartCompensate(p, r)
           \/ \E p \in Workers, r \in Ops : StartReconcile(p, r)
           \/ \E r \in Ops : GatewayResolve(r)
           \/ \E r \in Ops, n \in Nonces : GatewayNotify(r, n)
           \/ UNCHANGED vars
  BY <1>3 DEF StartExecute, StartCompensate, StartReconcile, GatewayResolve,
     GatewayNotify, vars, Stays
<1>4. QED
  BY <1>1, <1>2, <1>3 DEF Next

(* Only a copy made stale by a second handler, or left behind by a crash,  *)
(* ever reopens a terminal record.                                         *)
THEOREM ClosedAlone == Spec => TerminalClosedAlone
<1>1. IInv /\ AloneInv /\ [Next]_vars =>
        [\A o \in Ops :
           exec[o].status \in Terminal /\ o \notin disturbed' =>
             exec'[o].status = exec[o].status]_vars
  BY AloneStays DEF Stays
<1>2. QED
  BY <1>1, AloneAlways, PTL DEF Spec, TerminalClosedAlone

-----------------------------------------------------------------------------
(* Part 4: who carries a record that is pending.                           *)

(* The handler has created the record, or found it, and not yet recorded   *)
(* what became of the submission.                                          *)
Unclaimed == {"shadowConfirm", "claim"}
Submitting == {"submit", "recordSubmitted", "recordUncertain", "recordDispatchFailed"}
PendingPc == Unclaimed \cup Submitting

(* Slot p works on o where a record with that many attempts is carried on. *)
Carries(p, o) ==
  OpOf(p) = o /\ task[p].pc \in (IF exec[o].attempts = 0 THEN Unclaimed ELSE Submitting)

(* There is something to execute with.                                     *)
Executable == settings.mode = "shadow" \/ settings.provider

CarriedInv ==
  /\ \A o \in Ops : exec[o].status = "absent" => exec[o].attempts = 0
  /\ \A p \in Procs : task[p].pc \in PendingPc =>
       /\ exec[OpOf(p)].status # "absent"
       /\ exec[OpOf(p)].status = "pending_submit" => task[p].snap = "pending_submit"
  /\ crashes = 0 /\ Executable =>
       \A o \in Ops : exec[o].status = "pending_submit" => \E p \in Procs : Carries(p, o)

LEMMA SlotOp ==
  ASSUME IInv, NEW p \in Procs, task[p].pc # "idle"
  PROVE  OpOf(p) \in Ops
BY DEF IInv, SlotInv, Idle, OpOf

(* A step of slot p that neither starts a record nor makes one pending     *)
(* again, and after which p itself is not in charge of one.                *)
LEMMA KeepsCarried ==
  ASSUME IInv, CarriedInv, NEW p \in Procs,
         \A q \in Procs : q # p => task'[q] = task[q],
         task'[p].pc \notin PendingPc,
         settings' = settings,
         crashes' = 0 => crashes = 0,
         \A o \in Ops : exec'[o].attempts = exec[o].attempts,
         \A o \in Ops : \/ exec'[o].status = exec[o].status
                        \/ exec'[o].status \notin {"absent", "pending_submit"},
         crashes' = 0 /\ task[p].pc \in PendingPc =>
           exec'[OpOf(p)].status # "pending_submit"
  PROVE  CarriedInv'
<1>1. (\A o \in Ops : exec[o].status = "absent" => exec[o].attempts = 0)'
  BY DEF CarriedInv
<1>2. ASSUME NEW q \in Procs, task'[q].pc \in PendingPc
      PROVE  /\ exec'[OpOf(q)'].status # "absent"
             /\ exec'[OpOf(q)'].status = "pending_submit" => task'[q].snap = "pending_submit"
  <2>1. q # p /\ task'[q] = task[q]
    BY <1>2
  <2>2. OpOf(q) \in Ops /\ OpOf(q)' = OpOf(q)
    BY <1>2, <2>1, SlotOp DEF PendingPc, Unclaimed, Submitting, OpOf
  <2>3. QED
    BY <1>2, <2>1, <2>2 DEF CarriedInv
<1>3. ASSUME (crashes = 0 /\ Executable)', NEW o \in Ops,
             exec'[o].status = "pending_submit"
      PROVE  \E q \in Procs : Carries(q, o)'
  <2>1. crashes = 0 /\ Executable /\ exec[o].status = "pending_submit"
    BY <1>3 DEF Executable
  <2>2. PICK q \in Procs : Carries(q, o)
    BY <2>1 DEF CarriedInv
  <2>3. q # p
    BY <1>3, <2>2 DEF Carries, PendingPc
  <2>4. Carries(q, o)'
    BY <2>2, <2>3 DEF Carries, OpOf
  <2>5. QED
    BY <2>4
<1>4. QED
  BY <1>1, <1>2, <1>3 DEF CarriedInv

LEMMA CreateCarried ==
  ASSUME IInv, CarriedInv, NEW p \in Procs, Create(p)
  PROVE  CarriedInv'
<1> DEFINE o == OpOf(p)
           s == IF exec[o].status = "absent" THEN "pending_submit" ELSE exec[o].status
<1>1. task[p].pc = "create" /\ o \in Ops
  BY SlotOp DEF Create, At
<1>2. s \in RowStatus /\ s # "absent" /\ AfterCreate \in {"shadowConfirm", "claim", "opFailed"}
  BY <1>1, RowType DEF IInv, RowStatus, ExecutionStatus, UnusedStatuses, AfterCreate
<1>3. /\ \A r \in Ops : r # o => exec'[r] = exec[r]
      /\ exec'[o].status = s /\ exec'[o].attempts = exec[o].attempts
  BY <1>1, <1>2, RowType, WriteRowType DEF IInv, Create
<1>4. /\ \A q \in Procs : q # p => task'[q] = task[q]
      /\ task'[p].pc = AfterCreate /\ task'[p].op = o /\ task'[p].snap = s
  BY <1>2, GotoType DEF IInv, TypeOK, Create, Pc, OpOf
<1>5. crashes' = crashes /\ settings' = settings
  BY DEF Create, aside
<1>6. (\A r \in Ops : exec[r].status = "absent" => exec[r].attempts = 0)'
  BY <1>2, <1>3 DEF CarriedInv
<1>7. ASSUME NEW q \in Procs, task'[q].pc \in PendingPc
      PROVE  /\ exec'[OpOf(q)'].status # "absent"
             /\ exec'[OpOf(q)'].status = "pending_submit" => task'[q].snap = "pending_submit"
  <2>1. CASE q = p
    BY <1>2, <1>3, <1>4, <2>1 DEF OpOf
  <2>2. CASE q # p
    <3>1. task'[q] = task[q] /\ OpOf(q) \in Ops /\ OpOf(q)' = OpOf(q)
      BY <1>4, <1>7, <2>2, SlotOp DEF PendingPc, Unclaimed, Submitting, OpOf
    <3>2. /\ exec[OpOf(q)].status # "absent"
          /\ exec[OpOf(q)].status = "pending_submit" => task[q].snap = "pending_submit"
      BY <1>7, <3>1 DEF CarriedInv
    <3>3. exec'[OpOf(q)].status = exec[OpOf(q)].status
      BY <1>3, <3>1, <3>2
    <3>4. QED
      BY <3>1, <3>2, <3>3
  <2>3. QED
    BY <2>1, <2>2
<1>8. ASSUME (crashes = 0 /\ Executable)', NEW r \in Ops,
             exec'[r].status = "pending_submit"
      PROVE  \E q \in Procs : Carries(q, r)'
  <2>1. crashes = 0 /\ Executable
    BY <1>5, <1>8 DEF Executable
  <2>2. CASE r = o /\ exec[o].status = "absent"
    <3>1. AfterCreate \in Unclaimed
      BY <2>1, SettingsAssumption DEF AfterCreate, Executable, Unclaimed, IInv, TypeOK
    <3>2. exec'[o].attempts = 0
      BY <1>1, <1>3, <2>2 DEF CarriedInv
    <3>3. Carries(p, r)'
      BY <1>4, <2>2, <3>1, <3>2 DEF Carries, OpOf
    <3>4. QED
      BY <3>3
  <2>3. CASE ~(r = o /\ exec[o].status = "absent")
    <3>1. exec[r].status = "pending_submit" /\ exec'[r].attempts = exec[r].attempts
      BY <1>3, <1>8, <2>3
    <3>2. PICK q \in Procs : Carries(q, r)
      BY <2>1, <3>1 DEF CarriedInv
    <3>3. q # p
      BY <1>1, <3>2 DEF Carries, Unclaimed, Submitting
    <3>4. Carries(q, r)'
      BY <1>4, <3>1, <3>2, <3>3 DEF Carries, OpOf
    <3>5. QED
      BY <3>4
  <2>4. QED
    BY <2>2, <2>3
<1>9. QED
  BY <1>6, <1>7, <1>8 DEF CarriedInv

(* The holder of the claim carries the record from now on.                 *)
LEMMA ClaimCarried ==
  ASSUME IInv, CarriedInv, NEW p \in Procs, ClaimSubmit(p)
  PROVE  CarriedInv'
<1> DEFINE o == OpOf(p)
<1>1. task[p].pc = "claim" /\ o \in Ops /\ task[p].snap \in RowStatus
  BY SlotOp, SnapType DEF ClaimSubmit, At, IInv
<1>2. crashes' = crashes /\ settings' = settings
  BY DEF ClaimSubmit, aside
<1>3. CASE exec[o].status = "pending_submit" /\ exec[o].attempts = 0
  <2>1. /\ \A r \in Ops : r # o => exec'[r] = exec[r]
        /\ exec'[o].status = "pending_submit" /\ exec'[o].attempts = 1
    <3>1. WriteRow(o, exec[o].status, 1, exec[o].txn, exec[o].nonce)
      BY <1>3 DEF ClaimSubmit
    <3>2. QED
      BY <1>1, <1>3, <3>1, RowType, WriteRowType DEF IInv
  <2>2. /\ \A q \in Procs : q # p => task'[q] = task[q]
        /\ task'[p].pc = "submit" /\ task'[p].op = o /\ task'[p].snap = task[p].snap
    BY <1>1, <1>3, GotoType DEF IInv, TypeOK, ClaimSubmit, Goto, Pc, OpOf
  <2>3. task[p].snap = "pending_submit"
    BY <1>1, <1>3 DEF CarriedInv, PendingPc, Unclaimed
  <2>4. (\A r \in Ops : exec[r].status = "absent" => exec[r].attempts = 0)'
    BY <2>1 DEF CarriedInv
  <2>5. ASSUME NEW q \in Procs, task'[q].pc \in PendingPc
        PROVE  /\ exec'[OpOf(q)'].status # "absent"
               /\ exec'[OpOf(q)'].status = "pending_submit" =>
                    task'[q].snap = "pending_submit"
    <3>1. CASE q = p
      BY <2>1, <2>2, <2>3, <3>1 DEF OpOf
    <3>2. CASE q # p
      <4>1. task'[q] = task[q] /\ OpOf(q) \in Ops /\ OpOf(q)' = OpOf(q)
        BY <2>2, <2>5, <3>2, SlotOp DEF PendingPc, Unclaimed, Submitting, OpOf
      <4>2. exec'[OpOf(q)].status = exec[OpOf(q)].status
        BY <1>3, <2>1, <4>1
      <4>3. QED
        BY <2>5, <4>1, <4>2 DEF CarriedInv
    <3>3. QED
      BY <3>1, <3>2
  <2>6. ASSUME (crashes = 0 /\ Executable)', NEW r \in Ops,
               exec'[r].status = "pending_submit"
        PROVE  \E q \in Procs : Carries(q, r)'
    <3>1. CASE r = o
      <4>1. Carries(p, r)'
        BY <2>1, <2>2, <3>1 DEF Carries, OpOf, Submitting
      <4>2. QED
        BY <4>1
    <3>2. CASE r # o
      <4>1. crashes = 0 /\ Executable /\ exec'[r] = exec[r]
        BY <1>2, <2>1, <2>6, <3>2 DEF Executable
      <4>2. PICK q \in Procs : Carries(q, r)
        BY <2>6, <4>1 DEF CarriedInv
      <4>3. q # p
        BY <3>2, <4>2 DEF Carries
      <4>4. Carries(q, r)'
        BY <2>2, <4>1, <4>2, <4>3 DEF Carries, OpOf
      <4>5. QED
        BY <4>4
    <3>3. QED
      BY <3>1, <3>2
  <2>7. QED
    BY <2>4, <2>5, <2>6 DEF CarriedInv
<1>4. CASE ~(exec[o].status = "pending_submit" /\ exec[o].attempts = 0)
  <2>1. GotoWith(p, "idle", task[p].snap) /\ exec' = exec
    BY <1>4 DEF ClaimSubmit, Return, Goto
  <2>2. (\A q \in Procs : q # p => task'[q] = task[q]) /\ task'[p] = Idle
    BY <1>1, <2>1, GotoType DEF IInv, TypeOK, Pc
  <2>3. (\A r \in Ops : exec[r].status = "absent" => exec[r].attempts = 0)'
    BY <2>1 DEF CarriedInv
  <2>4. ASSUME NEW q \in Procs, task'[q].pc \in PendingPc
        PROVE  /\ exec'[OpOf(q)'].status # "absent"
               /\ exec'[OpOf(q)'].status = "pending_submit" =>
                    task'[q].snap = "pending_submit"
    BY <2>1, <2>2, <2>4 DEF CarriedInv, OpOf, Idle, PendingPc, Unclaimed, Submitting
  <2>5. ASSUME (crashes = 0 /\ Executable)', NEW r \in Ops,
               exec'[r].status = "pending_submit"
        PROVE  \E q \in Procs : Carries(q, r)'
    <3>1. crashes = 0 /\ Executable /\ exec[r].status = "pending_submit"
      BY <1>2, <2>1, <2>5 DEF Executable
    <3>2. PICK q \in Procs : Carries(q, r)
      BY <3>1 DEF CarriedInv
    <3>3. q # p
      BY <1>1, <1>4, <3>1, <3>2 DEF Carries, Submitting
    <3>4. Carries(q, r)'
      BY <2>1, <2>2, <3>2, <3>3 DEF Carries, OpOf
    <3>5. QED
      BY <3>4
  <2>6. QED
    BY <2>3, <2>4, <2>5 DEF CarriedInv
<1>5. QED
  BY <1>3, <1>4

(* Whatever the provider answers, or fails to, is about to be recorded.    *)
LEMMA SubmitCarried ==
  ASSUME IInv, CarriedInv, NEW p \in Procs, Submit(p)
  PROVE  CarriedInv'
<1>1. task[p].pc = "submit" /\ task[p].snap \in RowStatus
  BY SnapType DEF Submit, At, IInv
<1>2. PICK pc \in {"recordSubmitted", "recordDispatchFailed", "recordUncertain"} :
        GotoWith(p, pc, task[p].snap)
  BY DEF Submit, Goto
<1>3. /\ \A q \in Procs : q # p => task'[q] = task[q]
      /\ task'[p].pc = pc /\ task'[p].op = task[p].op /\ task'[p].snap = task[p].snap
  BY <1>1, <1>2, GotoType DEF IInv, TypeOK, Pc
<1>4. UNCHANGED <<exec, crashes, settings>>
  BY DEF Submit, aside
<1>5. \A q \in Procs : OpOf(q)' = OpOf(q) /\ task'[q].snap = task[q].snap
                       /\ (task'[q].pc = task[q].pc
                           \/ (task'[q].pc \in Submitting /\ task[q].pc \in Submitting))
  <2> SUFFICES ASSUME NEW q \in Procs
      PROVE  OpOf(q)' = OpOf(q) /\ task'[q].snap = task[q].snap
             /\ (task'[q].pc = task[q].pc
                 \/ (task'[q].pc \in Submitting /\ task[q].pc \in Submitting))
    OBVIOUS
  <2>2. CASE q = p
    <3>1. pc \in Submitting /\ task[p].pc \in Submitting
      BY <1>1, <1>2 DEF Submitting
    <3>2. QED
      BY <1>3, <2>2, <3>1 DEF OpOf
  <2>3. CASE q # p
    BY <1>3, <2>3 DEF OpOf
  <2>4. QED
    BY <2>2, <2>3
<1>6. (\A r \in Ops : exec[r].status = "absent" => exec[r].attempts = 0)'
  BY <1>4 DEF CarriedInv
<1>7. ASSUME NEW q \in Procs, task'[q].pc \in PendingPc
      PROVE  /\ exec'[OpOf(q)'].status # "absent"
             /\ exec'[OpOf(q)'].status = "pending_submit" => task'[q].snap = "pending_submit"
  BY <1>4, <1>5, <1>7 DEF CarriedInv, PendingPc
<1>8. ASSUME (crashes = 0 /\ Executable)', NEW r \in Ops,
             exec'[r].status = "pending_submit"
      PROVE  \E q \in Procs : Carries(q, r)'
  <2>1. PICK q \in Procs : Carries(q, r)
    BY <1>4, <1>8 DEF CarriedInv, Executable
  <2>2. Carries(q, r)'
    BY <1>4, <1>5, <2>1 DEF Carries, Unclaimed, Submitting
  <2>3. QED
    BY <2>2
<1>9. QED
  BY <1>6, <1>7, <1>8 DEF CarriedInv

(* A transition made with a pending copy is legal and ends the charge; one *)
(* made by a handler that is not in charge does not begin one.             *)
LEMMA TransitionCarried ==
  ASSUME IInv, CarriedInv, NEW p \in Procs, ~At(p, "idle"),
         NEW s \in RowStatus \ {"absent", "pending_submit"}, NEW x \in BOOLEAN,
         NEW pc \in Pc \ PendingPc, Transition(p, s, x, pc),
         UNCHANGED <<opStatus, outside, aside>>,
         task[p].pc \in PendingPc => CanTransition("pending_submit", s)
  PROVE  CarriedInv'
<1>1. OpOf(p) \in Ops /\ task[p].snap \in RowStatus
  BY SlotOp, SnapType DEF At, IInv
<1>2. /\ \A r \in Ops : r # OpOf(p) => exec'[r] = exec[r]
      /\ exec' = exec \/ exec'[OpOf(p)].status = s
      /\ PlainMove(p)
  BY TransitionMove DEF IInv, outside, PendingPc, Submitting
<1>3. PICK next \in {pc, AfterRaise(p)} : GotoWith(p, next, task[p].snap)
  BY DEF Transition, Goto
<1>4. next \in Pc \ PendingPc
  BY <1>3, AfterRaiseType DEF AfterRaise, PendingPc, Unclaimed, Submitting
<1>5. /\ \A q \in Procs : q # p => task'[q] = task[q]
      /\ task'[p].pc \notin PendingPc
  BY <1>1, <1>3, <1>4, GotoType DEF IInv, TypeOK, Idle, PendingPc, Unclaimed, Submitting
<1>6. crashes' = crashes /\ settings' = settings
  BY DEF aside
<1>7. \A o \in Ops : exec'[o].attempts = exec[o].attempts
  BY <1>2 DEF PlainMove
<1>8. \A o \in Ops : \/ exec'[o].status = exec[o].status
                     \/ exec'[o].status \notin {"absent", "pending_submit"}
  BY <1>2
<1>9. task[p].pc \in PendingPc => exec'[OpOf(p)].status # "pending_submit"
  <2>1. CASE exec[OpOf(p)].status # "pending_submit"
    BY <1>1, <1>2, <2>1
  <2>2. CASE task[p].pc \in PendingPc /\ exec[OpOf(p)].status = "pending_submit"
    <3>1. CanTransition(task[p].snap, s)
      BY <2>2 DEF CarriedInv
    <3>2. WriteRow(OpOf(p), s, exec[OpOf(p)].attempts, exec[OpOf(p)].txn \/ x,
                   exec[OpOf(p)].nonce)
      BY <3>1 DEF Transition
    <3>3. exec[OpOf(p)].txn \/ x \in BOOLEAN
      OBVIOUS
    <3>4. exec'[OpOf(p)].status = s
      BY <1>1, <3>2, <3>3, RowType, WriteRowType DEF IInv
    <3>5. QED
      BY <3>4
  <2>3. QED
    BY <2>1, <2>2
<1>10. QED
  BY <1>5, <1>6, <1>7, <1>8, <1>9, KeepsCarried


LEMMA TransitionActionsCarried ==
  ASSUME IInv, CarriedInv, NEW p \in Procs,
         \/ ShadowConfirm(p) \/ RecordUncertain(p) \/ RecordDispatchFailed(p)
         \/ Normalise(p) \/ RecordCompensated(p) \/ RecordCompensationFailed(p)
         \/ RecordConfirmed(p) \/ RecordMismatch(p)
  PROVE  CarriedInv'
<1>1. ~At(p, "idle") /\ UNCHANGED <<opStatus, outside, aside>>
  BY DEF ShadowConfirm, RecordUncertain, RecordDispatchFailed, Normalise,
         RecordCompensated, RecordCompensationFailed, RecordConfirmed,
         RecordMismatch, At
<1>2. {"confirmed", "failed_uncertain", "failed_dispatch", "compensated",
       "compensation_failed", "mismatched"} \subseteq RowStatus \ {"absent", "pending_submit"}
  BY DEF RowStatus, ExecutionStatus, UnusedStatuses
<1>3. {"opExecuted", "settleRead", "normaliseRead", "opHandoff", "idle"}
        \subseteq Pc \ PendingPc
  BY DEF Pc, PendingPc, Unclaimed, Submitting
<1>4. \A s \in {"confirmed", "failed_uncertain", "failed_dispatch"} :
        CanTransition("pending_submit", s)
  BY DEF CanTransition, Transitions
<1>5. \E s \in RowStatus \ {"absent", "pending_submit"}, x \in BOOLEAN,
         pc \in Pc \ PendingPc :
        /\ Transition(p, s, x, pc)
        /\ task[p].pc \in PendingPc => CanTransition("pending_submit", s)
  <2>1. CASE ShadowConfirm(p)
    BY <1>2, <1>3, <1>4, <2>1 DEF ShadowConfirm
  <2>2. CASE RecordUncertain(p)
    BY <1>2, <1>3, <1>4, <2>2 DEF RecordUncertain
  <2>3. CASE RecordDispatchFailed(p)
    BY <1>2, <1>3, <1>4, <2>3 DEF RecordDispatchFailed
  <2>4. CASE \/ Normalise(p) \/ RecordCompensated(p) \/ RecordCompensationFailed(p)
             \/ RecordConfirmed(p) \/ RecordMismatch(p)
    <3>1. task[p].pc \notin PendingPc
      BY <2>4 DEF Normalise, RecordCompensated, RecordCompensationFailed,
             RecordConfirmed, RecordMismatch, At, PendingPc, Unclaimed, Submitting
    <3>2. QED
      BY <1>2, <1>3, <2>4, <3>1 DEF Normalise, RecordCompensated,
         RecordCompensationFailed, RecordConfirmed, RecordMismatch, AfterCompensation
  <2>5. QED
    BY <2>1, <2>2, <2>3, <2>4
<1>6. QED
  BY <1>1, <1>5, TransitionCarried

LEMMA RecordSubmittedCarried ==
  ASSUME IInv, CarriedInv, NEW p \in Procs, RecordSubmitted(p)
  PROVE  CarriedInv'
<1> DEFINE o == OpOf(p)
<1>1. /\ task[p].pc = "recordSubmitted" /\ o \in Ops /\ task[p].snap \in RowStatus
      /\ crashes' = crashes /\ settings' = settings
  BY SlotOp, SnapType DEF RecordSubmitted, At, IInv, aside
<1>2. PICK pc \in {"idle", "readSubmitted"} : GotoWith(p, pc, task[p].snap)
  BY DEF RecordSubmitted, Return, Goto
<1>3. /\ \A q \in Procs : q # p => task'[q] = task[q]
      /\ task'[p].pc \notin PendingPc
  BY <1>1, <1>2, GotoType DEF IInv, TypeOK, Idle, Pc, PendingPc, Unclaimed, Submitting
<1>4. /\ \A r \in Ops : exec'[r].attempts = exec[r].attempts
      /\ \A r \in Ops : \/ exec'[r].status = exec[r].status
                        \/ exec'[r].status \notin {"absent", "pending_submit"}
      /\ exec'[o].status # "pending_submit"
  <2>1. CASE exec[o].status = "pending_submit"
    <3>1. WriteRow(o, "submitted", exec[o].attempts, TRUE, exec[o].nonce)
      BY <2>1 DEF RecordSubmitted
    <3>2. /\ "submitted" \in RowStatus /\ TypeOK
          /\ exec[o].attempts \in {0, 1} /\ exec[o].nonce \in Nonces \cup {NoNonce}
      BY <1>1, RowType DEF IInv, RowStatus, ExecutionStatus, UnusedStatuses
    <3>3. PICK y \in BOOLEAN :
            WriteRow(o, "submitted", exec[o].attempts, y, exec[o].nonce)
      BY <3>1
    <3>4. /\ exec'[o].status = "submitted" /\ exec'[o].attempts = exec[o].attempts
          /\ \A r \in Ops : r # o => exec'[r] = exec[r]
      BY <1>1, <3>2, <3>3, WriteRowType
    <3>5. QED
      BY <3>4
  <2>2. CASE exec[o].status # "pending_submit"
    BY <2>2 DEF RecordSubmitted
  <2>3. QED
    BY <2>1, <2>2
<1>5. QED
  BY <1>1, <1>3, <1>4, KeepsCarried

(* The actions that move one handler and write no record.                  *)
LEMMA QuietActionsCarried ==
  ASSUME IInv, CarriedInv, NEW p \in Procs,
         \/ Lookup(p) \/ ReadSubmitted(p) \/ SettleRead(p) \/ NormaliseRead(p)
         \/ Compensate(p) \/ Query(p)
         \/ OpExecuted(p) \/ OpHandoff(p) \/ OpFailed(p) \/ Crash(p)
  PROVE  CarriedInv'
<1>1. task[p].pc # "idle" /\ OpOf(p) \in Ops
  BY SlotOp DEF Lookup, ReadSubmitted, SettleRead, NormaliseRead, Compensate, Query,
         OpExecuted, OpHandoff, OpFailed, MarkOperation, Crash, At
<1>2. task[p].snap \in RowStatus /\ exec[OpOf(p)].status \in RowStatus
  BY <1>1, SnapType, RowType DEF IInv
<1>3. exec' = exec /\ settings' = settings
  BY DEF Lookup, ReadSubmitted, SettleRead, NormaliseRead, Compensate, Query,
         OpExecuted, OpHandoff, OpFailed, MarkOperation, Crash, aside
<1>4. \E pc \in Pc \ PendingPc, snap \in RowStatus : GotoWith(p, pc, snap)
  <2>1. {"idle", "create", "opExecuted", "opFailed", "compensate", "normalise",
         "recordCompensated", "recordCompensationFailed", "recordMismatch",
         "recordConfirmed"} \subseteq Pc \ PendingPc
    BY DEF Pc, PendingPc, Unclaimed, Submitting
  <2>2. AfterRaise(p) \in {"idle", "opFailed"}
    BY DEF AfterRaise
  <2>3. \A s : SettleEntry(p, s) \in {"compensate", "normalise", "idle", "opFailed"}
    BY <2>2 DEF SettleEntry
  <2>4. CASE Lookup(p) \/ ReadSubmitted(p)
    BY <1>2, <2>1, <2>2, <2>4 DEF Lookup, ReadSubmitted, Return, Goto
  <2>5. CASE SettleRead(p) \/ NormaliseRead(p)
    BY <1>2, <2>1, <2>3, <2>5 DEF SettleRead, NormaliseRead, EnterSettle
  <2>6. CASE Compensate(p) \/ Query(p)
    BY <1>2, <2>1, <2>3, <2>6 DEF Compensate, Query, Goto, EnterSettle
  <2>7. CASE OpExecuted(p) \/ OpHandoff(p) \/ OpFailed(p) \/ Crash(p)
    BY <1>2, <2>1, <2>7 DEF OpExecuted, OpHandoff, OpFailed, MarkOperation, Crash,
                            Return, Goto
  <2>8. QED
    BY <2>4, <2>5, <2>6, <2>7
<1>5. /\ \A q \in Procs : q # p => task'[q] = task[q]
      /\ task'[p].pc \notin PendingPc
  BY <1>4, GotoType DEF IInv, TypeOK, Idle, PendingPc, Unclaimed, Submitting
<1>6. /\ crashes' = 0 => crashes = 0
      /\ crashes' = 0 => task[p].pc \notin PendingPc
  <2>1. CASE Crash(p)
    BY <2>1 DEF Crash, IInv, TypeOK
  <2>2. CASE ~Crash(p)
    BY <2>2 DEF Lookup, ReadSubmitted, SettleRead, NormaliseRead, Compensate, Query,
           OpExecuted, OpHandoff, OpFailed, MarkOperation, aside, At,
           PendingPc, Unclaimed, Submitting
  <2>3. QED
    BY <2>1, <2>2
<1>7. QED
  BY <1>3, <1>5, <1>6, KeepsCarried

(* A handler that begins is not in charge of a record yet.                 *)
LEMMA BeginCarried ==
  ASSUME IInv, CarriedInv, NEW p \in Procs, At(p, "idle"), NEW kind, NEW o, NEW snap,
         NEW pc \in {"lookup", "query", "recordMismatch", "compensate", "settleRead"},
         Begin(p, kind, o, pc, snap) \/ UNCHANGED task,
         UNCHANGED <<crashes, settings>>,
         \A r \in Ops : exec'[r].attempts = exec[r].attempts,
         \A r \in Ops : \/ exec'[r].status = exec[r].status
                        \/ exec'[r].status \notin {"absent", "pending_submit"}
  PROVE  CarriedInv'
<1>1. /\ \A q \in Procs : q # p => task'[q] = task[q]
      /\ task'[p].pc \notin PendingPc
      /\ task[p].pc \notin PendingPc
  BY DEF Begin, IInv, TypeOK, At, PendingPc, Unclaimed, Submitting
<1>2. QED
  BY <1>1, KeepsCarried

LEMMA DeliverCarried ==
  ASSUME IInv, CarriedInv, NEW p \in Procs, NEW m \in mail, DeliverCallback(p, m)
  PROVE  CarriedInv'
<1> DEFINE o == m.op
<1>1. o \in Ops /\ m.nonce \in Nonces
  BY DEF IInv, TypeOK, Callback
<1>2. /\ exec[o].status \in RowStatus
      /\ NormalizeCallback(exec[o].status, m.status) \in RowStatus
      /\ "mismatched" \in RowStatus
  BY <1>1, RowType, NormalizeType DEF IInv, RowStatus, ExecutionStatus, UnusedStatuses
<1>3. PICK s \in RowStatus : BookNonce(o, s, m) /\ s \in {exec[o].status, "mismatched",
                               "confirmed", "failed_dispatch"}
  BY <1>2 DEF DeliverCallback, NormalizeCallback
<1>4. /\ exec'[o].status = s /\ exec'[o].attempts = exec[o].attempts
      /\ \A r \in Ops : r # o => exec'[r] = exec[r]
  BY <1>1, <1>3, RowType, WriteRowType DEF BookNonce, IInv
<1>5. /\ At(p, "idle") /\ UNCHANGED <<crashes, settings>>
      /\ Begin(p, "callback", o, "settleRead", "absent") \/ UNCHANGED task
  BY DEF DeliverCallback
<1>6. QED
  BY <1>3, <1>4, <1>5, BeginCarried

LEMMA CarriedNext ==
  ASSUME IInv, CarriedInv, [Next]_vars
  PROVE  CarriedInv'
<1>1. ASSUME NEW p \in Procs, Step(p) \/ Crash(p) PROVE CarriedInv'
  BY <1>1, QuietActionsCarried, TransitionActionsCarried, CreateCarried, ClaimCarried,
     SubmitCarried, RecordSubmittedCarried DEF Step
<1>2. ASSUME NEW p \in Procs, NEW o \in Ops,
             StartExecute(p, o) \/ StartReconcile(p, o) \/ StartCompensate(p, o)
      PROVE  CarriedInv'
  <2>1. \E kind, snap : \E pc \in {"lookup", "query", "recordMismatch", "compensate"} :
          Begin(p, kind, o, pc, snap)
    BY <1>2 DEF StartExecute, StartReconcile, StartCompensate
  <2>2. At(p, "idle") /\ UNCHANGED <<exec, crashes, settings>>
    BY <1>2 DEF StartExecute, StartReconcile, StartCompensate
  <2>3. QED
    BY <2>1, <2>2, BeginCarried
<1>3. ASSUME NEW p \in Procs, NEW m \in mail, DeliverCallback(p, m) PROVE CarriedInv'
  BY <1>3, DeliverCarried
<1>4. CASE \/ \E o \in Ops : GatewayResolve(o)
           \/ \E o \in Ops, n \in Nonces : GatewayNotify(o, n)
           \/ UNCHANGED vars
  <2>1. UNCHANGED <<exec, task, crashes, settings>>
    BY <1>4 DEF GatewayResolve, GatewayNotify, vars, aside
  <2>2. QED
    BY <2>1 DEF CarriedInv, Carries, OpOf, Executable
<1>5. QED
  BY <1>1, <1>2, <1>3, <1>4 DEF Next, Procs

(* As long as no handler dies and there is something to execute with, a    *)
(* record on which nobody works any more is closed or in the reach of the  *)
(* reconciliation, for any number of handlers racing for the claim.        *)
THEOREM NeverStranded == Spec => []NothingStranded
<1>1. Init => CarriedInv
  <2> SUFFICES ASSUME Init PROVE CarriedInv
    OBVIOUS
  <2>1. /\ \A p \in Procs : task[p].pc \notin PendingPc
        /\ \A o \in Ops : exec[o].status # "pending_submit" /\ exec[o].attempts = 0
    BY DEF Init, Idle, NoRow, PendingPc, Unclaimed, Submitting
  <2>2. QED
    BY <2>1 DEF CarriedInv
<1>2. IInv /\ CarriedInv /\ [Next]_vars => CarriedInv'
  BY CarriedNext
<1>3. IInv /\ CarriedInv => NothingStranded
  <2> SUFFICES ASSUME IInv, CarriedInv, crashes = 0,
                      settings.mode = "shadow" \/ settings.provider,
                      NEW o \in Ops, Quiet(o)
               PROVE  exec[o].status \in Accounted
    BY DEF NothingStranded
  <2>1. exec[o].status # "pending_submit"
    BY DEF CarriedInv, Executable, Carries, Quiet
  <2>2. exec[o].status \in RowStatus
    BY RowType DEF IInv
  <2>3. QED
    BY <2>1, <2>2 DEF RowStatus, ExecutionStatus, UnusedStatuses, Accounted, Terminal,
                      ReconcileTargets
<1>4. QED
  BY <1>1, <1>2, <1>3, InvAlways, PTL DEF Spec
=============================================================================
