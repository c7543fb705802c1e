----------------------------- MODULE FundsPromise -----------------------------
(***************************************************************************)
(* What the execution chain promises about money, without handlers,        *)
(* records or callbacks: an operation is handed to the gateway at most     *)
(* once, a payment is reversed only after the gateway refused it or by an  *)
(* order from outside, and the verdict shown for it is true of the gateway.*)
(***************************************************************************)
CONSTANT Ops

VARIABLES
  override, \* somebody may order a reversal from outside; never changes
  asked,    \* the operation has been handed to the gateway
  funds,    \* what the gateway did with it
  undone,   \* the gateway has a reversal
  verdict   \* what the record says of it

promiseVars == <<override, asked, funds, undone, verdict>>

Funds == {"none", "inflight", "succeeded", "failed"}
Verdict == {"open", "paid", "rolledback", "human"}

PromiseInit ==
  /\ override \in BOOLEAN
  /\ asked = [o \in Ops |-> FALSE]
  /\ funds = [o \in Ops |-> "none"]
  /\ undone = [o \in Ops |-> FALSE]
  /\ verdict = [o \in Ops |-> "open"]

(* Once per operation, whatever becomes of the request.                    *)
Ask(o) ==
  /\ ~asked[o]
  /\ asked' = [asked EXCEPT ![o] = TRUE]
  /\ \E f \in Funds : funds' = [funds EXCEPT ![o] = f]
  /\ UNCHANGED <<undone, verdict>>

Decide(o) ==
  /\ funds[o] = "inflight"
  /\ \E f \in {"succeeded", "failed"} : funds' = [funds EXCEPT ![o] = f]
  /\ UNCHANGED <<asked, undone, verdict>>

Undo(o) ==
  /\ override \/ funds[o] = "failed"
  /\ undone' = [undone EXCEPT ![o] = TRUE]
  /\ UNCHANGED <<asked, funds, verdict>>

Judge(o) ==
  /\ \E v \in Verdict :
       /\ v = "paid" => funds[o] = "succeeded"
       /\ v = "rolledback" => undone[o]
       /\ verdict' = [verdict EXCEPT ![o] = v]
  /\ UNCHANGED <<asked, funds, undone>>

PromiseNext ==
  /\ UNCHANGED override
  /\ \E o \in Ops : Ask(o) \/ Decide(o) \/ Undo(o) \/ Judge(o)

PromiseSpec == PromiseInit /\ [][PromiseNext]_promiseVars
=============================================================================
