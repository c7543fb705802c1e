---------------------------- MODULE ApprovalPromise ----------------------------
(***************************************************************************)
(* What the approval promises of one operation, without conversations,     *)
(* checkpoints or handlers: it is decided or expires once, and is carried  *)
(* out at most once, after it was approved.                                *)
(***************************************************************************)
CONSTANT Ops

VARIABLE phase

Phase == {"none", "waiting", "approved", "rejected", "expired", "done"}

PromiseInit == phase = [o \in Ops |-> "none"]

Become(o, from, to) == phase[o] = from /\ phase' = [phase EXCEPT ![o] = to]

Ask(o) == Become(o, "none", "waiting")
Decide(o) == \E d \in {"approved", "rejected"} : Become(o, "waiting", d)
TimeOut(o) == Become(o, "waiting", "expired")
CarryOut(o) == Become(o, "approved", "done")

PromiseNext == \E o \in Ops : Ask(o) \/ Decide(o) \/ TimeOut(o) \/ CarryOut(o)

PromiseSpec == PromiseInit /\ [][PromiseNext]_phase
=============================================================================
