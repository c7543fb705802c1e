----------------------------- MODULE ApprovalProofs -----------------------------
(***************************************************************************)
(* Theorems of ApprovalFlow, for any requests, conversations and handlers. *)
(***************************************************************************)
EXTENDS ApprovalProperties, TLAPS

Decided == {"approved", "rejected", "timeout"}
Verdict(p) == IF task[p].approve THEN "approved" ELSE "rejected"

(* Where a handler is after a claim it has won.                            *)
Won == {"resume", "createOp", "createApproval", "decideRead", "decideWrite", "readOp",
        "readApproval", "engine"}
Holder(p, o) == Target(p) = o /\ task[p].pc \in Won

-----------------------------------------------------------------------------
(* A handler's state and a checkpoint are bound to requests of their own   *)
(* conversation.                                                           *)
TaskBound(t) ==
  /\ t.pc \notin {"idle", "createOp", "createApproval"} => t.target \in Ops
  /\ t.pc \in Won \ {"resume"} => t.op \in Ops
  /\ t.op \in Ops /\ t.target \in Ops => chatOf[t.op] = chatOf[t.target]

CkptBound(c, k) ==
  /\ k.next = "write" => k.req \in Ops
  /\ k.next \in {"approval", "execute"} => k.op \in Ops
  /\ k.req \in Ops => chatOf[k.req] = c
  /\ k.op \in Ops => chatOf[k.op] = c

BoundInv ==
  /\ \A p \in Runners : TaskBound(task[p])
  /\ \A c \in Chats : CkptBound(c, ckpt[c])

(* A claim is won once, and never undone.                                  *)
ClaimInv ==
  /\ \A p \in Runners, o \in Ops : Holder(p, o) => appr[o] \in Decided
  /\ \A p, q \in Runners, o \in Ops : Holder(p, o) /\ Holder(q, o) => p = q

(* In a conversation of its own, the approval says what was decided and    *)
(* what the winner of the claim carries; an execution ends his work.       *)
DecidedInv(o) ==
  decisions[o] = IF appr[o] \in {"approved", "rejected"} THEN {appr[o]} ELSE {}
WinnerInv(o) ==
  \A p \in Runners :
    Holder(p, o) =>
      /\ appr[o] = Verdict(p)
      /\ runs[o] = 0
      /\ task[p].pc = "engine" => task[p].approve
RunInv(o) == runs[o] > 0 => runs[o] = 1 /\ appr[o] = "approved"
AloneInv == \A o \in Ops : Alone(o) => DecidedInv(o) /\ WinnerInv(o) /\ RunInv(o)

IInv == TypeOK /\ BoundInv /\ ClaimInv /\ AloneInv

USE DEF OpStatus, ApprovalStatus, Node, Pc

LEMMA InitInv == Init => IInv
  <1> SUFFICES ASSUME Init PROVE IInv
    OBVIOUS
  <1> USE NoOpAssumption, CrashAssumption DEF Init, Idle
  <1>1. TypeOK
    BY DEF TypeOK, Checkpoint, Task
  <1>2. BoundInv
    BY DEF BoundInv, TaskBound, CkptBound, Won
  <1>3. ClaimInv
    BY DEF ClaimInv, Holder, Won
  <1>4. AloneInv
    BY DEF AloneInv, DecidedInv, WinnerInv, RunInv, Holder, Won
  <1> QED
    BY <1>1, <1>2, <1>3, <1>4 DEF IInv

-----------------------------------------------------------------------------
(* Types and bindings.                                                     *)

(* A slot turns to t, and the checkpoint of its conversation perhaps to k. *)
Turns(p, t) == t \in Task /\ TaskBound(t) /\ task' = [task EXCEPT ![p] = t]
Saves(c, k) ==
  k \in Checkpoint /\ CkptBound(c, k) /\ ckpt' = [ckpt EXCEPT ![c] = k]

LEMMA BoundKept ==
  ASSUME TypeOK, BoundInv, UNCHANGED chatOf,
         NEW p \in Runners, NEW t, Turns(p, t),
         ckpt' = ckpt \/ \E c \in Chats : \E k : Saves(c, k)
  PROVE  /\ BoundInv'
         /\ task' \in [Runners -> Task]
         /\ ckpt' \in [Chats -> Checkpoint]
         /\ \A c \in Chats : ckpt'[c].next \in {"approval", "execute"} => ckpt'[c].op \in Ops
  <1>1. task' \in [Runners -> Task] /\ \A q \in Runners : TaskBound(task'[q])
    BY DEF Turns, TypeOK, BoundInv
  <1>2. ckpt' \in [Chats -> Checkpoint] /\ \A c \in Chats : CkptBound(c, ckpt'[c])
    BY DEF Saves, TypeOK, BoundInv
  <1> QED
    BY <1>1, <1>2 DEF BoundInv, TaskBound, CkptBound

(* The conversation a handler's graph runs on is that of its operation.    *)
LEMMA ChatForOp ==
  ASSUME TypeOK, NEW p \in Runners, TaskBound(task[p]), OpOf(p) \in Ops
  PROVE  /\ ChatFor(p) = chatOf[OpOf(p)]
         /\ ChatFor(p) \in Chats
  <1>1. task[p] \in Task
    BY DEF TypeOK
  <1>2. Target(p) \in Ops \cup {NoOp}
    BY <1>1 DEF Task, Target
  <1> QED
    BY <1>2, NoOpAssumption DEF ChatFor, TaskBound, OpOf, Target, TypeOK

(* Move and Return, where the operation stays or is bound to the target's  *)
(* conversation.                                                           *)
LEMMA MoveTurns ==
  ASSUME TypeOK, BoundInv, NEW p \in Runners,
         NEW pc \in Pc, NEW o \in Ops, NEW s \in OpStatus,
         pc \in {"createOp", "createApproval"} \/ Target(p) \in Ops,
         Target(p) \in Ops => chatOf[o] = chatOf[Target(p)],
         Move(p, pc, o, s)
  PROVE  \E t : Turns(p, t)
  <1> DEFINE t == [pc |-> pc, op |-> o, target |-> task[p].target,
                   approve |-> task[p].approve, snap |-> s]
  <1>1. task[p] \in Task
    BY DEF TypeOK
  <1>2. t \in Task
    BY <1>1 DEF Task
  <1>3. TaskBound(t)
    BY DEF TaskBound, Target, Won
  <1>4. task' = [task EXCEPT ![p] = t]
    BY DEF Move
  <1> QED
    BY <1>2, <1>3, <1>4 DEF Turns

LEMMA ReturnTurns ==
  ASSUME NEW p \in Runners, Return(p)
  PROVE  Turns(p, Idle)
  <1>1. Idle \in Task /\ TaskBound(Idle)
    BY NoOpAssumption DEF Idle, Task, TaskBound, Won
  <1> QED
    BY <1>1 DEF Turns, Return

(* What a handler saves for its conversation when it leaves a node.        *)
LEMMA LeaveSaves ==
  ASSUME TypeOK, BoundInv, NEW p \in Runners, OpOf(p) \in Ops,
         NEW next \in {"none", "execute"},
         Save(ChatFor(p), next, ckpt[ChatFor(p)].req, OpOf(p))
  PROVE  \E c \in Chats : \E k : Saves(c, k)
  <1> DEFINE c == ChatFor(p)
             k == [next |-> next, req |-> ckpt[c].req, op |-> OpOf(p)]
  <1>1. c \in Chats /\ chatOf[OpOf(p)] = c
    BY ChatForOp DEF BoundInv
  <1>2. ckpt[c] \in Checkpoint /\ CkptBound(c, ckpt[c])
    BY <1>1 DEF TypeOK, BoundInv
  <1>3. k \in Checkpoint
    BY <1>2 DEF Checkpoint
  <1>4. CkptBound(c, k)
    BY <1>1, <1>2 DEF CkptBound
  <1>5. ckpt' = [ckpt EXCEPT ![c] = k]
    BY DEF Save
  <1> QED
    BY <1>1, <1>3, <1>4, <1>5 DEF Saves

(* The variables that only need a type.                                    *)
PlainTypes ==
  /\ chatOf \in [Ops -> Chats]
  /\ asked \subseteq Ops
  /\ opStatus \in [Ops -> OpStatus]
  /\ appr \in [Ops -> ApprovalStatus]
  /\ decisions \in [Ops -> SUBSET {"approved", "rejected"}]
  /\ runs \in [Ops -> Nat]
  /\ lost \subseteq Ops
  /\ refused \subseteq Ops
  /\ crashes \in Nat

LEMMA StepTypes ==
  ASSUME TypeOK, BoundInv, UNCHANGED chatOf,
         NEW p \in Runners, NEW t, Turns(p, t),
         ckpt' = ckpt \/ \E c \in Chats : \E k : Saves(c, k),
         PlainTypes'
  PROVE  TypeOK' /\ BoundInv'
  BY BoundKept DEF PlainTypes, TypeOK

LEMMA SlotStepTypes ==
  ASSUME TypeOK, BoundInv, NEW p \in Runners, Step(p)
  PROVE  TypeOK' /\ BoundInv'
  <1>1. task[p] \in Task /\ TaskBound(task[p])
    BY DEF TypeOK, BoundInv
  <1>2. /\ Target(p) \in Ops \cup {NoOp} /\ task[p].snap \in OpStatus
        /\ task[p].approve \in BOOLEAN
    BY <1>1 DEF Task, Target
  <1>3. PlainTypes
    BY DEF PlainTypes, TypeOK
  <1>4. OpOf(p) \in Ops => /\ ChatFor(p) \in Chats /\ ChatFor(p) = chatOf[OpOf(p)]
                           /\ ckpt[ChatFor(p)] \in Checkpoint
                           /\ CkptBound(ChatFor(p), ckpt[ChatFor(p)])
    BY <1>1, ChatForOp DEF TypeOK, BoundInv
  <1>5. OpOf(p) \in Ops /\ Target(p) \in Ops => chatOf[OpOf(p)] = chatOf[Target(p)]
    BY <1>1 DEF TaskBound, OpOf, Target
  <1>6. CASE OtherIntent(p)
    <2>1. OpOf(p) \in Ops
      BY <1>1, <1>6 DEF OtherIntent, At, TaskBound, OpOf, Won
    <2> DEFINE c == ChatFor(p)
               k == [next |-> "none", req |-> OpOf(p), op |-> ckpt[c].op]
    <2>2. k \in Checkpoint /\ CkptBound(c, k)
      BY <1>4, <2>1 DEF Checkpoint, CkptBound
    <2>3. ckpt' = [ckpt EXCEPT ![c] = k]
      BY <1>6 DEF OtherIntent, Save
    <2>4. \E d \in Chats : \E x : Saves(d, x)
      BY <1>4, <2>1, <2>2, <2>3 DEF Saves
    <2>5. Turns(p, Idle) /\ UNCHANGED chatOf
      BY <1>6, ReturnTurns DEF OtherIntent
    <2>6. PlainTypes'
      BY <1>3, <1>6 DEF OtherIntent, PlainTypes, history, aside
    <2> QED
      BY <2>4, <2>5, <2>6, StepTypes
  <1>7. CASE CreateOperation(p)
    <2>1. OpOf(p) \in Ops
      BY <1>1, <1>7 DEF CreateOperation, At, TaskBound, OpOf, Won
    <2>2. \E t : Turns(p, t)
      BY <1>2, <1>5, <1>7, <2>1, MoveTurns DEF CreateOperation, Goto
    <2>3. PlainTypes' /\ UNCHANGED <<chatOf, ckpt>>
      BY <1>3, <1>7 DEF CreateOperation, PlainTypes, history, aside, SetOp
    <2> QED
      BY <2>2, <2>3, StepTypes
  <1>8. CASE CreateApproval(p)
    <2>1. OpOf(p) \in Ops
      BY <1>1, <1>8 DEF CreateApproval, At, TaskBound, OpOf, Won
    <2> DEFINE c == ChatFor(p)
               k == [next |-> "approval", req |-> OpOf(p), op |-> OpOf(p)]
    <2>2. k \in Checkpoint /\ CkptBound(c, k)
      BY <1>4, <2>1 DEF Checkpoint, CkptBound
    <2>3. ckpt' = [ckpt EXCEPT ![c] = k]
      BY <1>8 DEF CreateApproval, Save
    <2>4. \E d \in Chats : \E x : Saves(d, x)
      BY <1>4, <2>1, <2>2, <2>3 DEF Saves
    <2>5. Turns(p, Idle) /\ UNCHANGED chatOf
      BY <1>8, ReturnTurns DEF CreateApproval
    <2>6. PlainTypes'
      BY <1>3, <1>8 DEF CreateApproval, PlainTypes, history, aside, SetApproval
    <2> QED
      BY <2>4, <2>5, <2>6, StepTypes
  <1>9. CASE Claim(p)
    <2>1. Target(p) \in Ops
      BY <1>1, <1>9 DEF Claim, At, TaskBound, Target
    <2>2. \E t : Turns(p, t)
      <3>1. CASE Return(p)
        BY <3>1, ReturnTurns
      <3>2. CASE Goto(p, "resume")
        <4> DEFINE t == [pc |-> "resume", op |-> OpOf(p), target |-> task[p].target,
                         approve |-> task[p].approve, snap |-> task[p].snap]
        <4>1. t \in Task
          BY <1>1 DEF Task, OpOf
        <4>2. TaskBound(t)
          BY <1>5, <2>1 DEF TaskBound, Won, Target
        <4>3. task' = [task EXCEPT ![p] = t]
          BY <3>2 DEF Goto, Move
        <4> QED
          BY <4>1, <4>2, <4>3 DEF Turns
      <3> QED
        BY <1>9, <3>1, <3>2 DEF Claim
    <2>3. UNCHANGED <<chatOf, ckpt>>
      BY <1>9 DEF Claim
    <2>4. PlainTypes'
      <3>1. CASE UNCHANGED <<opStatus, appr, decisions>>
        BY <1>3, <1>9, <3>1 DEF Claim, PlainTypes, aside
      <3>2. CASE WriteDecision(Target(p), task[p].approve)
        <4>1. opStatus' \in [Ops -> OpStatus] /\ appr' \in [Ops -> ApprovalStatus]
          BY <1>3, <3>2 DEF WriteDecision, SetApproval, SetOp, PlainTypes
        <4>2. decisions' \in [Ops -> SUBSET {"approved", "rejected"}]
          BY <1>3, <2>1, <3>2 DEF WriteDecision, PlainTypes
        <4> QED
          BY <1>3, <1>9, <4>1, <4>2 DEF Claim, PlainTypes, aside
      <3> QED
        BY <1>9, <3>1, <3>2 DEF Claim
    <2> QED
      BY <2>2, <2>3, <2>4, StepTypes
  <1>10. CASE Resume(p)
    <2> DEFINE c == chatOf[Target(p)]
    <2>1. Target(p) \in Ops
      BY <1>1, <1>10 DEF Resume, At, TaskBound, Target
    <2>2. c \in Chats /\ ckpt[c] \in Checkpoint /\ CkptBound(c, ckpt[c])
      BY <2>1 DEF TypeOK, BoundInv
    <2>3. \E t : Turns(p, t)
      <3>1. CASE Return(p)
        BY <3>1, ReturnTurns
      <3>2. CASE ckpt[c].next = "write" /\ Move(p, "createOp", ckpt[c].req, "absent")
        BY <2>1, <2>2, <3>2, MoveTurns DEF CkptBound
      <3>3. CASE ckpt[c].next = "approval" /\ Move(p, "decideRead", ckpt[c].op, "absent")
        BY <2>1, <2>2, <3>3, MoveTurns DEF CkptBound
      <3>4. CASE ckpt[c].next = "execute" /\ Move(p, "readOp", ckpt[c].op, "absent")
        BY <2>1, <2>2, <3>4, MoveTurns DEF CkptBound
      <3> QED
        BY <1>10, <3>1, <3>2, <3>3, <3>4 DEF Resume
    <2>4. PlainTypes' /\ UNCHANGED <<chatOf, ckpt>>
      BY <1>3, <1>10 DEF Resume, PlainTypes, history, aside
    <2> QED
      BY <2>3, <2>4, StepTypes
  <1>11. CASE DecideRead(p) \/ DecideWrite(p)
    <2>1. OpOf(p) \in Ops /\ Target(p) \in Ops
      BY <1>1, <1>11 DEF DecideRead, DecideWrite, At, TaskBound, OpOf, Target, Won
    <2>2. (\E t : Turns(p, t)) /\ (ckpt' = ckpt \/ \E c \in Chats : \E k : Saves(c, k))
      <3>1. CASE Goto(p, "decideWrite") /\ UNCHANGED ckpt
        BY <1>2, <1>5, <2>1, <3>1, MoveTurns DEF Goto
      <3>2. CASE /\ Save(ChatFor(p), "execute", ckpt[ChatFor(p)].req, OpOf(p))
                 /\ Goto(p, "readOp")
        BY <1>2, <1>5, <2>1, <3>2, MoveTurns, LeaveSaves DEF Goto
      <3>3. CASE Save(ChatFor(p), "none", ckpt[ChatFor(p)].req, OpOf(p)) /\ Return(p)
        BY <2>1, <3>3, ReturnTurns, LeaveSaves
      <3> QED
        BY <1>11, <3>1, <3>2, <3>3 DEF DecideRead, DecideWrite, LeaveApproval
    <2>3. PlainTypes' /\ UNCHANGED chatOf
      <3>1. CASE DecideRead(p)
        BY <1>3, <3>1 DEF DecideRead, PlainTypes, history, aside
      <3>2. CASE DecideWrite(p)
        BY <1>3, <3>2 DEF DecideWrite, PlainTypes, history, aside, SetApproval
      <3> QED
        BY <1>11, <3>1, <3>2
    <2> QED
      BY <2>2, <2>3, StepTypes
  <1>12. CASE ReadOp(p) \/ ReadApproval(p)
    <2>1. OpOf(p) \in Ops /\ Target(p) \in Ops
      BY <1>1, <1>12 DEF ReadOp, ReadApproval, At, TaskBound, OpOf, Target, Won
    <2>2. (\E t : Turns(p, t)) /\ (ckpt' = ckpt \/ \E c \in Chats : \E k : Saves(c, k))
      <3>1. CASE ReadOp(p)
        <4>1. opStatus[OpOf(p)] \in OpStatus
          BY <2>1 DEF TypeOK
        <4> QED
          BY <1>5, <2>1, <3>1, <4>1, MoveTurns DEF ReadOp
      <3>2. CASE Goto(p, "engine") /\ UNCHANGED ckpt
        BY <1>2, <1>5, <2>1, <3>2, MoveTurns DEF Goto
      <3>3. CASE Save(ChatFor(p), "none", ckpt[ChatFor(p)].req, OpOf(p)) /\ Return(p)
        BY <2>1, <3>3, ReturnTurns, LeaveSaves
      <3> QED
        BY <1>12, <3>1, <3>2, <3>3 DEF ReadApproval
    <2>3. PlainTypes' /\ UNCHANGED chatOf
      BY <1>3, <1>12, <2>1 DEF ReadOp, ReadApproval, PlainTypes, history, aside
    <2> QED
      BY <2>2, <2>3, StepTypes
  <1>13. CASE Engine(p)
    <2>1. OpOf(p) \in Ops
      BY <1>1, <1>13 DEF Engine, At, TaskBound, OpOf, Won
    <2>2. Turns(p, Idle) /\ UNCHANGED chatOf /\ \E c \in Chats : \E k : Saves(c, k)
      BY <1>13, <2>1, ReturnTurns, LeaveSaves DEF Engine
    <2>3. PlainTypes'
      BY <1>3, <1>13, <2>1 DEF Engine, PlainTypes, SetOp, aside
    <2> QED
      BY <2>2, <2>3, StepTypes
  <1> QED
    BY <1>6, <1>7, <1>8, <1>9, <1>10, <1>11, <1>12, <1>13 DEF Step

LEMMA NextTypes == TypeOK /\ BoundInv /\ [Next]_vars => TypeOK' /\ BoundInv'
  <1> SUFFICES ASSUME TypeOK, BoundInv, [Next]_vars PROVE TypeOK' /\ BoundInv'
    OBVIOUS
  <1>1. PlainTypes
    BY DEF PlainTypes, TypeOK
  <1>2. ASSUME NEW p \in Runners, Step(p) PROVE TypeOK' /\ BoundInv'
    BY <1>2, SlotStepTypes
  <1>3. ASSUME NEW p \in Runners, Crash(p) PROVE TypeOK' /\ BoundInv'
    <2>1. Turns(p, Idle) /\ UNCHANGED <<chatOf, ckpt>>
      BY <1>3, ReturnTurns DEF Crash
    <2>2. {OpOf(p), Target(p)} \ {NoOp} \subseteq Ops
      BY DEF TypeOK, Task, OpOf, Target
    <2>3. PlainTypes'
      BY <1>1, <1>3, <2>2 DEF Crash, PlainTypes, history
    <2> QED
      BY <2>1, <2>3, StepTypes
  <1>4. ASSUME NEW p \in Runners, NEW o \in Ops, StartRun(p, o) PROVE TypeOK' /\ BoundInv'
    <2> DEFINE t == [Idle EXCEPT !.pc = "createOp", !.op = o]
               c == chatOf[o]
               k == [next |-> "write", req |-> o, op |-> ckpt[c].op]
    <2>1. t \in Task /\ TaskBound(t)
      BY NoOpAssumption DEF Idle, Task, TaskBound, Won
    <2>2. Turns(p, t)
      BY <1>4, <2>1 DEF StartRun, Turns
    <2>3. c \in Chats /\ ckpt[c] \in Checkpoint /\ CkptBound(c, ckpt[c])
      BY DEF TypeOK, BoundInv
    <2>4. k \in Checkpoint /\ CkptBound(c, k)
      BY <2>3 DEF Checkpoint, CkptBound
    <2>5. Saves(c, k)
      BY <1>4, <2>4 DEF StartRun, Save, Saves
    <2>6. PlainTypes' /\ UNCHANGED chatOf
      BY <1>1, <1>4 DEF StartRun, PlainTypes, history, aside
    <2> QED
      BY <2>2, <2>3, <2>5, <2>6, StepTypes
  <1>5. ASSUME NEW p \in Runners, NEW o \in Ops, NEW approve \in BOOLEAN,
               StartDecision(p, o, approve)
        PROVE  TypeOK' /\ BoundInv'
    <2> DEFINE t == [Idle EXCEPT !.pc = "claim", !.target = o, !.approve = approve]
    <2>1. t \in Task /\ TaskBound(t)
      BY NoOpAssumption DEF Idle, Task, TaskBound, Won
    <2>2. Turns(p, t) /\ UNCHANGED <<chatOf, ckpt>>
      BY <1>5, <2>1 DEF StartDecision, Turns
    <2>3. PlainTypes'
      BY <1>1, <1>5 DEF StartDecision, PlainTypes, history, aside
    <2> QED
      BY <2>2, <2>3, StepTypes
  <1>6. ASSUME NEW o \in Ops, Expire(o) PROVE TypeOK' /\ BoundInv'
    <2>1. opStatus' \in [Ops -> OpStatus] /\ appr' \in [Ops -> ApprovalStatus]
      BY <1>1, <1>6 DEF Expire, SetApproval, SetOp, PlainTypes
    <2>2. UNCHANGED <<chatOf, asked, ckpt, task, decisions, runs, lost, refused, crashes>>
      BY <1>6 DEF Expire, history, aside
    <2> QED
      BY <2>1, <2>2 DEF TypeOK, BoundInv, TaskBound, CkptBound
  <1>7. CASE UNCHANGED vars
    BY <1>7 DEF vars, history, aside, TypeOK, BoundInv, TaskBound, CkptBound
  <1> QED
    BY <1>2, <1>3, <1>4, <1>5, <1>6, <1>7 DEF Next

-----------------------------------------------------------------------------
(* What a step of a slot does to the slot itself.                          *)
Wins(p) ==
  /\ At(p, "claim") /\ appr[Target(p)] = "pending" /\ appr'[Target(p)] = Verdict(p)
  /\ task'[p].pc = "resume"
Keeps(p) ==
  /\ task'[p].target = task[p].target /\ task'[p].approve = task[p].approve
  /\ task[p].pc \in Won \/ Wins(p)
  /\ task'[p].pc = "engine" => At(p, "readApproval") /\ appr[OpOf(p)] = "approved"

LEMMA StepKeeps ==
  ASSUME TypeOK, BoundInv, NEW p \in Runners, Step(p)
  PROVE  /\ \A q \in Runners \ {p} : task'[q] = task[q]
         /\ task'[p] = Idle \/ Keeps(p)
  <1>1. task \in [Runners -> Task] /\ appr \in [Ops -> ApprovalStatus]
    BY DEF TypeOK
  <1>2. CASE Return(p)
    BY <1>1, <1>2 DEF Return
  <1>3. CASE /\ task[p].pc \in Won
             /\ \E pc \in Pc \ {"engine"} : \E o, s : Move(p, pc, o, s)
    BY <1>1, <1>3 DEF Move, Keeps
  <1>4. CASE OtherIntent(p) \/ CreateOperation(p) \/ CreateApproval(p) \/ Resume(p) \/ ReadOp(p)
    <2>1. task[p].pc \in Won
      BY <1>4 DEF OtherIntent, CreateOperation, CreateApproval, Resume, ReadOp, At, Won
    <2>2. Return(p) \/ \E pc \in Pc \ {"engine"} : \E o, s : Move(p, pc, o, s)
      BY <1>4 DEF OtherIntent, CreateOperation, CreateApproval, Resume, ReadOp, Goto
    <2> QED
      BY <1>2, <1>3, <2>1, <2>2
  <1>5. CASE DecideRead(p) \/ DecideWrite(p)
    <2>1. task[p].pc \in Won
      BY <1>5 DEF DecideRead, DecideWrite, At, Won
    <2>2. Return(p) \/ Goto(p, "readOp") \/ Goto(p, "decideWrite")
      BY <1>5 DEF DecideRead, DecideWrite, LeaveApproval
    <2>3. Return(p) \/ \E pc \in Pc \ {"engine"} : \E o, s : Move(p, pc, o, s)
      BY <2>2 DEF Goto
    <2> QED
      BY <1>2, <1>3, <2>1, <2>3
  <1>6. CASE Claim(p)
    <2>1. Target(p) \in Ops
      BY <1>6 DEF Claim, At, BoundInv, TaskBound, Target
    <2>2. CASE WriteDecision(Target(p), task[p].approve) /\ Goto(p, "resume")
               /\ appr[Target(p)] = "pending"
      <3>1. appr'[Target(p)] = Verdict(p)
        BY <1>1, <2>1, <2>2 DEF WriteDecision, SetApproval, Verdict
      <3> QED
        BY <1>1, <1>6, <2>2, <3>1 DEF Claim, Goto, Move, Keeps, Wins
    <2> QED
      BY <1>2, <1>6, <2>2 DEF Claim
  <1>7. CASE ReadApproval(p)
    <2>1. CASE Goto(p, "engine") /\ appr[OpOf(p)] = "approved"
      BY <1>1, <1>7, <2>1 DEF ReadApproval, Goto, Move, Keeps, At, Won
    <2> QED
      BY <1>2, <1>7, <2>1 DEF ReadApproval
  <1>8. CASE Engine(p)
    BY <1>2, <1>8 DEF Engine
  <1> QED
    BY <1>4, <1>5, <1>6, <1>7, <1>8 DEF Step

(* Who holds the claim of o after a step held it before, with the same     *)
(* decision, or won it in the step.                                        *)
Held(q, o) ==
  /\ Holder(q, o)
  /\ task'[q].approve = task[q].approve
  /\ task'[q].pc = "engine" =>
       \/ task[q].pc = "engine"
       \/ At(q, "readApproval") /\ appr[OpOf(q)] = "approved"
Gains(q, o) ==
  /\ Target(q) = o /\ Wins(q) /\ task'[q].approve = task[q].approve
  /\ \A r \in Runners \ {q} : task'[r] = task[r]

LEMMA HolderStep ==
  ASSUME TypeOK, BoundInv, [Next]_vars, NEW q \in Runners, NEW o \in Ops, Holder(q, o)'
  PROVE  Held(q, o) \/ Gains(q, o)
  <1>1. task'[q].target = o /\ task'[q].pc \in Won
    BY DEF Holder, Target
  <1>2. task \in [Runners -> Task]
    BY DEF TypeOK
  <1>3. CASE task'[q] = task[q]
    BY <1>1, <1>3 DEF Held, Holder, Target
  <1>4. task'[q] # Idle
    BY <1>1 DEF Idle, Won
  <1>5. ASSUME NEW p \in Runners, Step(p) PROVE Held(q, o) \/ Gains(q, o)
    <2>1. CASE p # q
      BY <1>3, <1>5, <2>1, StepKeeps
    <2>2. CASE p = q
      <3>1. Keeps(q) /\ \A r \in Runners \ {q} : task'[r] = task[r]
        BY <1>4, <1>5, <2>2, StepKeeps
      <3> QED
        BY <1>1, <3>1 DEF Keeps, Held, Gains, Holder, Target
    <2> QED
      BY <2>1, <2>2
  <1>6. ASSUME NEW p \in Runners, Crash(p) PROVE Held(q, o)
    BY <1>2, <1>3, <1>4, <1>6 DEF Crash, Return, Held, Gains, Holder, Target
  <1>7. ASSUME NEW p \in Runners, NEW a \in Ops, StartRun(p, a) PROVE task'[q] = task[q]
    BY <1>1, <1>2, <1>7, NoOpAssumption DEF StartRun, Idle
  <1>8. ASSUME NEW p \in Runners, NEW a \in Ops, NEW b \in BOOLEAN, StartDecision(p, a, b)
        PROVE  task'[q] = task[q]
    BY <1>1, <1>2, <1>8 DEF StartDecision, Idle, Won
  <1>9. CASE (\E a \in Ops : Expire(a)) \/ UNCHANGED vars
    BY <1>3, <1>9 DEF Expire, vars
  <1>10. Held(q, o) => Held(q, o) \/ Gains(q, o)
    OBVIOUS
  <1>11. CASE Next
    BY <1>3, <1>5, <1>6, <1>7, <1>8, <1>9, <1>11 DEF Next
  <1> QED
    BY <1>9, <1>11

-----------------------------------------------------------------------------
(* What a step does to requests: nothing, or one of four things to one.    *)
Same(o) == appr'[o] = appr[o] /\ decisions'[o] = decisions[o] /\ runs'[o] = runs[o]

Opens(o) ==
  /\ \/ appr[o] = "absent" /\ appr'[o] = "pending"
     \/ appr[o] = "pending" /\ appr'[o] = "timeout"
  /\ decisions'[o] = decisions[o] /\ runs'[o] = runs[o]
Decides(o) ==
  \E p \in Runners :
    /\ Target(p) = o /\ Wins(p)
    /\ decisions'[o] = decisions[o] \cup {Verdict(p)} /\ runs'[o] = runs[o]
Overwrites(o) ==
  \E p \in Runners :
    /\ At(p, "decideWrite") /\ OpOf(p) = o /\ appr'[o] = Verdict(p)
    /\ decisions'[o] = decisions[o] /\ runs'[o] = runs[o]
Executes(o) ==
  \E p \in Runners :
    /\ At(p, "engine") /\ OpOf(p) = o /\ task'[p] = Idle
    /\ appr'[o] = appr[o] /\ decisions'[o] = decisions[o] /\ runs'[o] = runs[o] + 1

Touches(o) ==
  /\ \A a \in Ops \ {o} : Same(a)
  /\ Opens(o) \/ Decides(o) \/ Overwrites(o) \/ Executes(o)

LEMMA Effects ==
  ASSUME TypeOK, BoundInv, [Next]_vars
  PROVE  (\A a \in Ops : Same(a)) \/ (\E o \in Ops : Touches(o))
  <1>1. /\ appr \in [Ops -> ApprovalStatus] /\ runs \in [Ops -> Nat]
        /\ decisions \in [Ops -> SUBSET {"approved", "rejected"}]
        /\ task \in [Runners -> Task]
    BY DEF TypeOK
  <1>2. CASE UNCHANGED <<appr, decisions, runs>>
    BY <1>2 DEF Same
  <1>3. ASSUME NEW p \in Runners, CreateApproval(p), ~UNCHANGED appr PROVE \E o \in Ops : Touches(o)
    <2>1. OpOf(p) \in Ops
      BY <1>3 DEF CreateApproval, At, BoundInv, TaskBound, OpOf, Won
    <2>2. Opens(OpOf(p)) /\ \A a \in Ops \ {OpOf(p)} : Same(a)
      BY <1>1, <1>3, <2>1 DEF CreateApproval, SetApproval, Opens, Same, history
    <2> QED
      BY <2>1, <2>2 DEF Touches
  <1>4. ASSUME NEW p \in Runners, Claim(p), ~UNCHANGED <<appr, decisions>>
        PROVE  \E o \in Ops : Touches(o)
    <2> DEFINE o == Target(p)
    <2>1. o \in Ops
      BY <1>4 DEF Claim, At, BoundInv, TaskBound, Target
    <2>2. /\ At(p, "claim") /\ appr[o] = "pending" /\ Goto(p, "resume") /\ UNCHANGED runs
          /\ WriteDecision(o, task[p].approve)
      BY <1>4 DEF Claim
    <2>3. /\ appr' = [appr EXCEPT ![o] = Verdict(p)]
          /\ decisions' = [decisions EXCEPT ![o] = @ \cup {Verdict(p)}]
      BY <2>2 DEF WriteDecision, SetApproval, Verdict
    <2>4. task'[p].pc = "resume"
      BY <1>1, <2>2 DEF Goto, Move
    <2>5. Decides(o) /\ \A a \in Ops \ {o} : Same(a)
      BY <1>1, <2>1, <2>2, <2>3, <2>4 DEF Decides, Wins, Same
    <2> QED
      BY <2>1, <2>5 DEF Touches
  <1>5. ASSUME NEW p \in Runners, DecideWrite(p) PROVE \E o \in Ops : Touches(o)
    <2>1. OpOf(p) \in Ops
      BY <1>5 DEF DecideWrite, At, BoundInv, TaskBound, OpOf, Won
    <2>2. Overwrites(OpOf(p)) /\ \A a \in Ops \ {OpOf(p)} : Same(a)
      BY <1>1, <1>5, <2>1 DEF DecideWrite, SetApproval, Overwrites, Verdict, Same, history
    <2> QED
      BY <2>1, <2>2 DEF Touches
  <1>6. ASSUME NEW p \in Runners, Engine(p) PROVE \E o \in Ops : Touches(o)
    <2>1. OpOf(p) \in Ops
      BY <1>6 DEF Engine, At, BoundInv, TaskBound, OpOf, Won
    <2>2. task'[p] = Idle
      BY <1>1, <1>6 DEF Engine, Return
    <2>3. Executes(OpOf(p)) /\ \A a \in Ops \ {OpOf(p)} : Same(a)
      BY <1>1, <1>6, <2>1, <2>2 DEF Engine, Executes, Same
    <2> QED
      BY <2>1, <2>3 DEF Touches
  <1>7. ASSUME NEW o \in Ops, Expire(o) PROVE \E a \in Ops : Touches(a)
    <2>1. Opens(o) /\ \A a \in Ops \ {o} : Same(a)
      BY <1>1, <1>7 DEF Expire, SetApproval, Opens, Same, history
    <2> QED
      BY <2>1 DEF Touches
  <1>8. ASSUME NEW p \in Runners, Step(p)
        PROVE  \/ UNCHANGED <<appr, decisions, runs>>
               \/ CreateApproval(p) /\ ~UNCHANGED appr
               \/ Claim(p) /\ ~UNCHANGED <<appr, decisions>>
               \/ DecideWrite(p) \/ Engine(p)
    BY <1>8 DEF Step, OtherIntent, CreateOperation, CreateApproval, Claim, Resume,
                DecideRead, ReadOp, ReadApproval, history
  <1>9. CASE \E p \in Runners : Step(p)
    BY <1>2, <1>3, <1>4, <1>5, <1>6, <1>8, <1>9
  <1>10. CASE \/ \E p \in Runners : Crash(p)
              \/ \E p \in Runners, o \in Ops : StartRun(p, o)
              \/ \E p \in Runners, o \in Ops, approve \in BOOLEAN : StartDecision(p, o, approve)
              \/ UNCHANGED vars
    BY <1>2, <1>10 DEF Crash, StartRun, StartDecision, vars, history
  <1> QED
    BY <1>7, <1>9, <1>10 DEF Next

LEMMA NextClaims ==
  ASSUME TypeOK, BoundInv, ClaimInv, [Next]_vars
  PROVE  ClaimInv'
  <1>1. ASSUME NEW o \in Ops, appr[o] \in Decided PROVE appr'[o] \in Decided
    BY <1>1, Effects
    DEF Touches, Same, Opens, Decides, Wins, Overwrites, Executes, Verdict, Decided
  <1>2. ASSUME NEW p \in Runners, NEW o \in Ops, Holder(p, o)' PROVE appr'[o] \in Decided
    <2>1. CASE Held(p, o)
      BY <1>1, <2>1 DEF Held, ClaimInv
    <2>2. CASE Gains(p, o)
      BY <2>2 DEF Gains, Wins, Verdict, Decided
    <2> QED
      BY <1>2, <2>1, <2>2, HolderStep
  <1>3. ASSUME NEW p \in Runners, NEW q \in Runners, NEW o \in Ops, Holder(p, o)', Holder(q, o)'
        PROVE  p = q
    <2>1. (Held(p, o) \/ Gains(p, o)) /\ (Held(q, o) \/ Gains(q, o))
      BY <1>3, HolderStep
    <2>2. ASSUME NEW r \in Runners, NEW s \in Runners, Held(r, o), Gains(s, o) PROVE FALSE
      BY <2>2 DEF Held, Gains, Wins, ClaimInv, Decided
    <2>3. CASE Held(p, o) /\ Held(q, o)
      BY <2>3 DEF Held, ClaimInv
    <2>4. CASE Gains(p, o) /\ Gains(q, o)
      BY <2>4 DEF Gains, Wins, At
    <2> QED
      BY <2>1, <2>2, <2>3, <2>4
  <1> QED
    BY <1>2, <1>3 DEF ClaimInv

-----------------------------------------------------------------------------
(* In a conversation of its own.                                           *)

(* Whoever works on the operation came there by its claim.                 *)
LEMMA AloneHolds ==
  ASSUME TypeOK, BoundInv, NEW o \in Ops, Alone(o), NEW p \in Runners, OpOf(p) = o,
         task[p].pc \in {"decideWrite", "readApproval", "engine"}
  PROVE  Holder(p, o)
  <1>1. Target(p) \in Ops /\ chatOf[o] = chatOf[Target(p)]
    BY DEF BoundInv, TaskBound, OpOf, Target
  <1>2. Target(p) = o
    BY <1>1 DEF Alone
  <1> QED
    BY <1>2 DEF Holder, Won

(* And what he works on is that operation.                                 *)
LEMMA AloneWorks ==
  ASSUME TypeOK, BoundInv, NEW o \in Ops, Alone(o), NEW p \in Runners, Holder(p, o),
         At(p, "readApproval")
  PROVE  OpOf(p) = o
  <1>1. OpOf(p) \in Ops /\ chatOf[OpOf(p)] = chatOf[o]
    BY DEF BoundInv, TaskBound, OpOf, Target, Holder, At, Won
  <1> QED
    BY <1>1 DEF Alone

(* Without a second request the four things are three: a decision is never *)
(* overwritten, and only what was approved and not yet executed is.        *)
ExecutesApproved(o) == Executes(o) /\ appr[o] = "approved" /\ runs[o] = 0

LEMMA AloneEffects ==
  ASSUME IInv, [Next]_vars, NEW o \in Ops, Alone(o)
  PROVE  Same(o) \/ Opens(o) \/ Decides(o) \/ ExecutesApproved(o)
  <1>1. TypeOK /\ BoundInv /\ WinnerInv(o)
    BY DEF IInv, AloneInv
  <1>2. CASE Overwrites(o)
    <2>1. PICK p \in Runners : /\ At(p, "decideWrite") /\ OpOf(p) = o /\ appr'[o] = Verdict(p)
                               /\ decisions'[o] = decisions[o] /\ runs'[o] = runs[o]
      BY <1>2 DEF Overwrites
    <2>2. appr[o] = Verdict(p)
      BY <1>1, <2>1, AloneHolds DEF WinnerInv, At
    <2> QED
      BY <2>1, <2>2 DEF Same
  <1>3. CASE Executes(o)
    <2>1. PICK p \in Runners : At(p, "engine") /\ OpOf(p) = o
      BY <1>3 DEF Executes
    <2>2. Holder(p, o)
      BY <1>1, <2>1, AloneHolds DEF At
    <2>3. appr[o] = "approved" /\ runs[o] = 0
      BY <1>1, <2>1, <2>2 DEF WinnerInv, At, Verdict
    <2> QED
      BY <1>3, <2>3 DEF ExecutesApproved
  <1>4. Same(o) \/ Opens(o) \/ Decides(o) \/ Overwrites(o) \/ Executes(o)
    BY <1>1, Effects DEF Touches
  <1> QED
    BY <1>2, <1>3, <1>4

LEMMA ChatsStay ==
  ASSUME [Next]_vars
  PROVE  UNCHANGED chatOf
  BY DEF Next, vars, Step, Crash, StartRun, StartDecision, Expire, OtherIntent,
         CreateOperation, CreateApproval, Claim, Resume, DecideRead, DecideWrite, ReadOp,
         ReadApproval, Engine

LEMMA NextAlone ==
  ASSUME IInv, [Next]_vars
  PROVE  AloneInv'
  <1> SUFFICES ASSUME NEW o \in Ops, Alone(o)
               PROVE  DecidedInv(o)' /\ WinnerInv(o)' /\ RunInv(o)'
    BY ChatsStay DEF AloneInv, Alone
  <1>1. /\ TypeOK /\ BoundInv /\ ClaimInv
        /\ DecidedInv(o) /\ WinnerInv(o) /\ RunInv(o)
    BY DEF IInv, AloneInv
  <1>2. runs[o] \in Nat /\ appr[o] \in ApprovalStatus
    BY <1>1 DEF TypeOK
  (* A winner from before the step.                                        *)
  <1>3. ASSUME NEW p \in Runners, Held(p, o) PROVE task'[p].pc = "engine" => task'[p].approve
    <2>1. Holder(p, o) /\ task'[p].approve = task[p].approve /\ appr[o] = Verdict(p)
      BY <1>1, <1>3 DEF Held, WinnerInv
    <2>2. CASE At(p, "readApproval") /\ appr[OpOf(p)] = "approved"
      BY <1>1, <2>1, <2>2, AloneWorks DEF Verdict
    <2>3. CASE task[p].pc = "engine"
      BY <1>1, <2>1, <2>3 DEF WinnerInv
    <2> QED
      BY <1>3, <2>2, <2>3 DEF Held
  <1>4. ASSUME NEW p \in Runners, Holder(p, o)' PROVE Held(p, o) \/ Gains(p, o)
    BY <1>1, <1>4, HolderStep
  <1>5. CASE Same(o)
    <2>1. DecidedInv(o)' /\ RunInv(o)'
      BY <1>1, <1>5 DEF Same, DecidedInv, RunInv
    <2>2. ASSUME NEW p \in Runners, Holder(p, o)'
          PROVE  /\ appr'[o] = Verdict(p)' /\ runs'[o] = 0
                 /\ task'[p].pc = "engine" => task'[p].approve
      <3>1. Held(p, o)
        BY <1>4, <1>5, <2>2 DEF Gains, Wins, Same, Verdict
      <3> QED
        BY <1>1, <1>3, <1>5, <3>1 DEF Held, WinnerInv, Same, Verdict
    <2> QED
      BY <2>1, <2>2 DEF WinnerInv
  <1>6. CASE Opens(o)
    <2>1. DecidedInv(o)' /\ RunInv(o)'
      BY <1>1, <1>6 DEF Opens, DecidedInv, RunInv
    <2>2. ASSUME NEW p \in Runners, Holder(p, o)' PROVE FALSE
      <3>1. Held(p, o)
        BY <1>4, <1>6, <2>2 DEF Gains, Wins, Opens, Verdict
      <3> QED
        BY <1>1, <1>6, <3>1 DEF Held, ClaimInv, Opens, Decided
    <2> QED
      BY <2>1, <2>2 DEF WinnerInv
  <1>7. CASE Decides(o)
    <2>1. PICK w \in Runners : /\ Target(w) = o /\ Wins(w)
                               /\ decisions'[o] = decisions[o] \cup {Verdict(w)}
                               /\ runs'[o] = runs[o]
      BY <1>7 DEF Decides
    <2>2. appr[o] = "pending" /\ appr'[o] = Verdict(w) /\ decisions[o] = {} /\ ~(runs[o] > 0)
      BY <1>1, <2>1 DEF Wins, DecidedInv, RunInv
    <2>3. DecidedInv(o)' /\ RunInv(o)' /\ runs'[o] = 0
      BY <1>2, <2>1, <2>2 DEF DecidedInv, RunInv, Verdict
    <2>4. ASSUME NEW p \in Runners, Holder(p, o)'
          PROVE  /\ appr'[o] = Verdict(p)'
                 /\ task'[p].pc = "engine" => task'[p].approve
      <3>1. Gains(p, o)
        BY <1>1, <1>4, <2>2, <2>4 DEF Held, ClaimInv, Decided
      <3> QED
        BY <3>1 DEF Gains, Wins, Verdict
    <2> QED
      BY <2>3, <2>4 DEF WinnerInv
  <1>8. CASE ExecutesApproved(o)
    <2>1. PICK x \in Runners : /\ At(x, "engine") /\ OpOf(x) = o /\ task'[x] = Idle
                               /\ appr'[o] = appr[o] /\ decisions'[o] = decisions[o]
                               /\ runs'[o] = runs[o] + 1
      BY <1>8 DEF ExecutesApproved, Executes
    <2>2. DecidedInv(o)' /\ RunInv(o)'
      BY <1>1, <1>8, <2>1 DEF ExecutesApproved, DecidedInv, RunInv
    <2>3. ASSUME NEW p \in Runners, Holder(p, o)' PROVE FALSE
      <3>1. Held(p, o)
        BY <1>4, <1>8, <2>3 DEF ExecutesApproved, Gains, Wins
      <3>2. Holder(x, o)
        BY <1>1, <2>1, AloneHolds DEF At
      <3>3. p = x
        BY <1>1, <3>1, <3>2 DEF Held, ClaimInv
      <3> QED
        BY <2>1, <2>3, <3>3 DEF Holder, Idle, Won
    <2> QED
      BY <2>2, <2>3 DEF WinnerInv
  <1> QED
    BY <1>5, <1>6, <1>7, <1>8, AloneEffects

LEMMA InvAlways == Spec => []IInv
  <1>1. IInv /\ [Next]_vars => IInv'
    BY NextTypes, NextClaims, NextAlone DEF IInv
  <1> QED
    BY <1>1, InitInv, PTL DEF Spec

-----------------------------------------------------------------------------
(* Every variable keeps its type, and a graph that waits for an approval   *)
(* or an execution is bound to an operation.                               *)
THEOREM TypeCorrect == Spec => []TypeOK
  <1>1. IInv => TypeOK
    BY DEF IInv
  <1> QED
    BY <1>1, InvAlways, PTL

(* In a conversation of its own an operation is executed at most once, and *)
(* only if staff approved it, for any number of handlers that decide, time *)
(* out and die (claim_approval_decision).                                  *)
THEOREM AloneDecided == Spec => []AloneAsDecided
  <1>1. IInv => AloneAsDecided
    <2> SUFFICES ASSUME IInv, NEW o \in Ops, Alone(o), runs[o] > 0
                 PROVE  runs[o] = 1 /\ decisions[o] = {"approved"} /\ appr[o] = "approved"
      BY DEF AloneAsDecided
    <2>1. DecidedInv(o) /\ RunInv(o)
      BY DEF IInv, AloneInv
    <2> QED
      BY <2>1 DEF DecidedInv, RunInv
  <1> QED
    BY <1>1, InvAlways, PTL

(* A decision is final as long as no second request joins the conversation,*)
(* although decide_approval writes without testing the status again.       *)
THEOREM DecisionsStand == Spec => DecisionStands
  <1>1. IInv /\ [Next]_vars =>
          [\A o \in Ops :
             Alone(o) /\ appr[o] \in {"approved", "rejected", "timeout"} =>
               appr'[o] = appr[o]]_vars
    <2> SUFFICES ASSUME IInv, [Next]_vars, NEW o \in Ops, Alone(o), appr[o] \in Decided
                 PROVE  appr'[o] = appr[o]
      BY DEF Decided
    <2>1. ~Opens(o) /\ ~Decides(o)
      BY DEF Opens, Decides, Wins, Decided
    <2> QED
      BY <2>1, AloneEffects DEF Same, ExecutesApproved, Executes
  <1> QED
    BY <1>1, InvAlways, PTL DEF Spec, DecisionStands

-----------------------------------------------------------------------------
(* The refinement.                                                         *)
PhaseIn(o) == IF Alone(o) THEN PhaseOf(o) ELSE "none"

LEMMA SamePhase ==
  ASSUME [Next]_vars, NEW o \in Ops, Same(o) \/ ~Alone(o)
  PROVE  PhaseIn(o)' = PhaseIn(o)
  <1>1. Alone(o)' <=> Alone(o)
    BY ChatsStay DEF Alone
  <1> QED
    BY <1>1 DEF PhaseIn, PhaseOf, Same

LEMMA PhaseStep ==
  ASSUME IInv, [Next]_vars, NEW o \in Ops, Alone(o)
  PROVE  \/ PhaseIn(o)' = PhaseIn(o)
         \/ PhaseIn(o) = "none" /\ PhaseIn(o)' = "waiting"
         \/ PhaseIn(o) = "waiting" /\ PhaseIn(o)' \in {"approved", "rejected", "expired"}
         \/ PhaseIn(o) = "approved" /\ PhaseIn(o)' = "done"
  <1>1. Alone(o)'
    BY ChatsStay DEF Alone
  <1>2. runs[o] \in Nat /\ RunInv(o)
    BY DEF IInv, TypeOK, AloneInv
  <1>3. CASE Same(o)
    BY <1>3, SamePhase
  <1>4. CASE Opens(o)
    BY <1>1, <1>2, <1>4 DEF Opens, RunInv, PhaseIn, PhaseOf
  <1>5. CASE Decides(o)
    BY <1>1, <1>2, <1>5 DEF Decides, Wins, Verdict, RunInv, PhaseIn, PhaseOf
  <1>6. CASE ExecutesApproved(o)
    BY <1>1, <1>6 DEF ExecutesApproved, Executes, PhaseIn, PhaseOf
  <1> QED
    BY <1>3, <1>4, <1>5, <1>6, AloneEffects

(* As long as a conversation carries one request, the endpoint, the graph  *)
(* and the time-out together make one decision of it and at most one       *)
(* execution, after an approval: every step of theirs is a step of         *)
(* ApprovalPromise or changes nothing in it.                               *)
THEOREM Implements == Spec => ImplementsPromise
  <1> DEFINE phase == [o \in Ops |-> PhaseIn(o)]
  <1>1. Init => Promise!PromiseInit
    BY DEF Init, Promise!PromiseInit, PhaseOf
  <1>2. IInv /\ [Next]_vars => [Promise!PromiseNext]_phase
    <2> SUFFICES ASSUME IInv, [Next]_vars, phase' # phase PROVE Promise!PromiseNext
      OBVIOUS
    <2>1. PICK o \in Ops : PhaseIn(o)' # PhaseIn(o)
      OBVIOUS
    <2>2. Alone(o) /\ ~Same(o)
      BY <2>1, SamePhase
    <2>3. \A a \in Ops \ {o} : PhaseIn(a)' = PhaseIn(a)
      BY <2>2, Effects, SamePhase DEF IInv, Touches
    <2>4. phase' = [phase EXCEPT ![o] = PhaseIn(o)'] /\ phase[o] = PhaseIn(o)
      BY <2>3
    <2> HIDE DEF phase
    <2>5. \/ phase[o] = "none" /\ phase' = [phase EXCEPT ![o] = "waiting"]
          \/ /\ phase[o] = "waiting"
             /\ \E d \in {"approved", "rejected", "expired"} : phase' = [phase EXCEPT ![o] = d]
          \/ phase[o] = "approved" /\ phase' = [phase EXCEPT ![o] = "done"]
      BY <2>1, <2>2, <2>4, PhaseStep
    <2> QED
      BY <2>5 DEF phase, PhaseIn, Promise!PromiseNext, Promise!Ask, Promise!Decide,
                  Promise!TimeOut, Promise!CarryOut, Promise!Become
  <1> QED
    BY <1>1, <1>2, InvAlways, PTL
    DEF Spec, ImplementsPromise, Promise!PromiseSpec, PhaseIn
=============================================================================
