-------------------------- MODULE ApprovalProperties --------------------------
(***************************************************************************)
(* What the approval must guarantee, stated over ApprovalFlow.             *)
(***************************************************************************)
EXTENDS ApprovalFlow

(* Every variable stays in its type; a graph that waits for an approval or *)
(* an execution is bound to an operation.                                  *)
TypeOK ==
  /\ chatOf \in [Ops -> Chats]
  /\ asked \subseteq Ops
  /\ opStatus \in [Ops -> OpStatus]
  /\ appr \in [Ops -> ApprovalStatus]
  /\ ckpt \in [Chats -> Checkpoint]
  /\ \A c \in Chats : ckpt[c].next \in {"approval", "execute"} => ckpt[c].op \in Ops
  /\ task \in [Runners -> Task]
  /\ decisions \in [Ops -> SUBSET {"approved", "rejected"}]
  /\ runs \in [Ops -> Nat]
  /\ lost \subseteq Ops
  /\ refused \subseteq Ops
  /\ crashes \in Nat

(* No other request uses the operation's conversation.                     *)
Alone(o) == \A a \in Ops \ {o} : chatOf[a] # chatOf[o]

(* An operation is executed only if staff approved that very operation and *)
(* nobody rejected it and it did not time out.                             *)
ExecutedAsDecided ==
  \A o \in Ops : runs[o] > 0 => decisions[o] = {"approved"} /\ appr[o] = "approved"

(* In a conversation of its own, an operation is executed only if staff    *)
(* approved it, and at most once, although several members of the staff    *)
(* decide it at the same time and it may time out under them.              *)
AloneAsDecided ==
  \A o \in Ops :
    Alone(o) /\ runs[o] > 0 =>
      runs[o] = 1 /\ decisions[o] = {"approved"} /\ appr[o] = "approved"

(* A decision stands: no later write of an approval turns it into another, *)
(* as long as no second request joins the conversation.                    *)
DecisionStands ==
  [][\A o \in Ops :
       Alone(o) /\ appr[o] \in {"approved", "rejected", "timeout"} =>
         appr'[o] = appr[o]]_vars


PhaseOf(o) ==
  IF runs[o] > 0 THEN "done"
  ELSE IF appr[o] = "absent" THEN "none"
  ELSE IF appr[o] = "pending" THEN "waiting"
  ELSE IF appr[o] = "timeout" THEN "expired"
  ELSE appr[o]

Promise == INSTANCE ApprovalPromise WITH
  phase <- [o \in Ops |-> IF Alone(o) THEN PhaseOf(o) ELSE "none"]

(* As long as a conversation carries one request, the whole of it is one   *)
(* decision and at most one execution.                                     *)
ImplementsPromise == Promise!PromiseSpec
=============================================================================
