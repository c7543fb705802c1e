----------------------------- MODULE ApprovalFlow -----------------------------
(***************************************************************************)
(* The single human approval of a sensitive operation: the chat run that   *)
(* asks for it (src/graph/nodes.py), the decision endpoint that claims it  *)
(* and resumes the graph (src/api/routes.py), the approval and execute     *)
(* nodes (src/graph/approval.py, nodes.py) and the time-out, over the      *)
(* PostgreSQL store.                                                       *)
(*                                                                         *)
(* A request creates one operation and one approval (both inserts are      *)
(* idempotent on the request), so the three share an identity here.  What  *)
(* a graph run knows lives in the checkpoint of its conversation: the node *)
(* to run next and the operation it is bound to.  A new chat run on the    *)
(* conversation replaces an interrupt that waits there; the decision       *)
(* endpoint resumes whatever the conversation's checkpoint holds.          *)
(***************************************************************************)
EXTENDS Naturals

CONSTANTS
  Ops,         \* requests, with their operation and approval
  Chats,       \* conversations (thread_id)
  Runners,     \* API handler slots
  NoOp,
  Expiry,      \* expire_stale_approvals is called from outside
  MaxCrashes   \* bound: handlers that die half-way

ASSUME NoOpAssumption == NoOp \notin Ops
ASSUME ExpiryAssumption == Expiry \in BOOLEAN
ASSUME CrashAssumption == MaxCrashes \in Nat

VARIABLES
  chatOf,     \* the conversation of each request; never changes
  asked,      \* requests that have a stream: no second run for them
  opStatus,   \* operations.status
  appr,       \* approvals.status
  ckpt,       \* the latest checkpoint of each conversation
  task,       \* what each handler is doing
  decisions,  \* decisions staff got accepted for an approval (history)
  runs,       \* executions handed to the engine (history)
  lost,       \* requests a handler was lost on (history)
  refused,    \* requests whose execution the model check refused (history)
  crashes

vars == <<chatOf, asked, opStatus, appr, ckpt, task, decisions, runs, lost, refused,
          crashes>>
history == <<decisions, runs>>
aside == <<lost, refused, crashes>>

OpStatus == {"absent", "pending", "executed", "failed", "rejected", "human_handoff"}
ApprovalStatus == {"absent", "pending", "approved", "rejected", "timeout"}
Node == {"none", "write", "approval", "execute"}
Checkpoint == [next: Node, req: Ops \cup {NoOp}, op: Ops \cup {NoOp}]
Pc == {"idle", "createOp", "createApproval", "claim", "resume", "decideRead",
       "decideWrite", "readOp", "readApproval", "engine"}
(* op: the operation of the run's state; target: the approval being        *)
(* decided; snap: the operation's status as the execute node read it.      *)
Task == [pc: Pc, op: Ops \cup {NoOp}, target: Ops \cup {NoOp}, approve: BOOLEAN,
         snap: OpStatus]

Idle == [pc |-> "idle", op |-> NoOp, target |-> NoOp, approve |-> FALSE,
         snap |-> "absent"]

Init ==
  /\ chatOf \in [Ops -> Chats]
  /\ asked = {}
  /\ opStatus = [o \in Ops |-> "absent"]
  /\ appr = [o \in Ops |-> "absent"]
  /\ ckpt = [c \in Chats |-> [next |-> "none", req |-> NoOp, op |-> NoOp]]
  /\ task = [p \in Runners |-> Idle]
  /\ decisions = [o \in Ops |-> {}]
  /\ runs = [o \in Ops |-> 0]
  /\ lost = {}
  /\ refused = {}
  /\ crashes = 0

-----------------------------------------------------------------------------
At(p, pc) == task[p].pc = pc
OpOf(p) == task[p].op
Target(p) == task[p].target
(* The conversation a handler's graph runs on.                             *)
ChatFor(p) == IF Target(p) = NoOp THEN chatOf[OpOf(p)] ELSE chatOf[Target(p)]

Move(p, pc, op, snap) ==
  task' = [task EXCEPT ![p] =
             [pc |-> pc, op |-> op, target |-> @.target, approve |-> @.approve,
              snap |-> snap]]
Goto(p, pc) == Move(p, pc, OpOf(p), task[p].snap)
Return(p) == task' = [task EXCEPT ![p] = Idle]

(* A superstep ends: the run's state becomes the conversation's latest.    *)
Save(c, next, req, op) ==
  ckpt' = [ckpt EXCEPT ![c] = [next |-> next, req |-> req, op |-> op]]
SetOp(o, s) == opStatus' = [opStatus EXCEPT ![o] = s]
SetApproval(o, s) == appr' = [appr EXCEPT ![o] = s]

-----------------------------------------------------------------------------
(* The chat run up to the interrupt.                                       *)

(* The input of the run is saved over whatever the conversation waits for; *)
(* the binding of the previous run stays in the state.                     *)
StartRun(p, o) ==
  LET c == chatOf[o] IN
  /\ At(p, "idle")
  /\ o \notin asked
  /\ asked' = asked \cup {o}
  /\ Save(c, "write", o, ckpt[c].op)
  /\ task' = [task EXCEPT ![p] = [Idle EXCEPT !.pc = "createOp", !.op = o]]
  /\ UNCHANGED <<chatOf, opStatus, appr, history, aside>>

(* The message asks for nothing sensitive, or its eligibility, parameters  *)
(* or model are refused: the run ends without an operation.                *)
OtherIntent(p) ==
  LET c == ChatFor(p) IN
  /\ At(p, "createOp")
  /\ Save(c, "none", OpOf(p), ckpt[c].op)
  /\ Return(p)
  /\ UNCHANGED <<chatOf, asked, opStatus, appr, history, aside>>

CreateOperation(p) ==
  /\ At(p, "createOp")
  /\ IF opStatus[OpOf(p)] = "absent" THEN SetOp(OpOf(p), "pending")
     ELSE UNCHANGED opStatus
  /\ Goto(p, "createApproval")
  /\ UNCHANGED <<chatOf, asked, appr, ckpt, history, aside>>

(* The write node binds the state to the operation and the run stops at    *)
(* the interrupt of the approval node.                                     *)
CreateApproval(p) ==
  LET o == OpOf(p) IN
  /\ At(p, "createApproval")
  /\ IF appr[o] = "absent" THEN SetApproval(o, "pending") ELSE UNCHANGED appr
  /\ Save(ChatFor(p), "approval", o, o)
  /\ Return(p)
  /\ UNCHANGED <<chatOf, asked, opStatus, history, aside>>

-----------------------------------------------------------------------------
(* decide_approval, the endpoint.                                          *)

(* A decided or expired approval is replayed; binding and confirmation     *)
(* checks may refuse too and change nothing.                               *)
StartDecision(p, o, approve) ==
  /\ At(p, "idle")
  /\ appr[o] = "pending"
  /\ task' = [task EXCEPT ![p] =
                [Idle EXCEPT !.pc = "claim", !.target = o, !.approve = approve]]
  /\ UNCHANGED <<chatOf, asked, opStatus, appr, ckpt, history, aside>>

(* What a claim writes: a refusal closes the operation in the same         *)
(* transaction, as rejected or, by its feedback, handed over.              *)
WriteDecision(o, approve) ==
  /\ SetApproval(o, IF approve THEN "approved" ELSE "rejected")
  /\ decisions' =
       [decisions EXCEPT ![o] = @ \cup {IF approve THEN "approved" ELSE "rejected"}]
  /\ IF ~approve /\ opStatus[o] # "executed"
       THEN \E s \in {"rejected", "human_handoff"} : SetOp(o, s)
       ELSE UNCHANGED opStatus

(* Mutant: the claim does not test that the approval is still pending.     *)
Claim_Unguarded(p) ==
  /\ At(p, "claim")
  /\ WriteDecision(Target(p), task[p].approve)
  /\ Goto(p, "resume")
  /\ UNCHANGED <<chatOf, asked, ckpt, runs, aside>>

(* Mutant: the loser of the race resumes the graph as well.                *)
Claim_LoserResumes(p) ==
  /\ At(p, "claim")
  /\ IF appr[Target(p)] = "pending"
       THEN WriteDecision(Target(p), task[p].approve)
       ELSE UNCHANGED <<opStatus, appr, decisions>>
  /\ Goto(p, "resume")
  /\ UNCHANGED <<chatOf, asked, ckpt, runs, aside>>

(* claim_approval_decision: compare-and-set on pending; only the winner    *)
(* goes on to resume the graph.                                            *)
Claim(p) ==
  /\ At(p, "claim")
  /\ \/ /\ appr[Target(p)] = "pending"
        /\ WriteDecision(Target(p), task[p].approve)
        /\ Goto(p, "resume")
     \/ /\ appr[Target(p)] # "pending"
        /\ Return(p)
        /\ UNCHANGED <<opStatus, appr, decisions>>
  /\ UNCHANGED <<chatOf, asked, ckpt, runs, aside>>

(* The graph goes on from the conversation's checkpoint, with the state it *)
(* finds there.  A conversation that waits for nothing runs nothing.       *)
Resume(p) ==
  LET c == ckpt[chatOf[Target(p)]] IN
  /\ At(p, "resume")
  /\ \/ c.next = "none" /\ Return(p)
     \/ c.next = "write" /\ Move(p, "createOp", c.req, "absent")
     \/ c.next = "approval" /\ Move(p, "decideRead", c.op, "absent")
     \/ c.next = "execute" /\ Move(p, "readOp", c.op, "absent")
  /\ UNCHANGED <<chatOf, asked, opStatus, appr, ckpt, history, aside>>

-----------------------------------------------------------------------------
(* The approval node after the interrupt, and the execute node.            *)


(* After the approval node: an approval runs the execute node, a refusal   *)
(* ends in handle_error.                                                   *)
LeaveApproval(p) ==
  LET c == ChatFor(p)
      o == OpOf(p)
  IN
  IF task[p].approve
    THEN Save(c, "execute", ckpt[c].req, o) /\ Goto(p, "readOp")
    ELSE Save(c, "none", ckpt[c].req, o) /\ Return(p)

(* store.decide_approval on the approval of the run's state: the status is *)
(* read first, and written only if it was pending ...                      *)
DecideRead(p) ==
  /\ At(p, "decideRead")
  /\ IF appr[OpOf(p)] = "pending"
       THEN Goto(p, "decideWrite") /\ UNCHANGED ckpt
       ELSE LeaveApproval(p)
  /\ UNCHANGED <<chatOf, asked, opStatus, appr, history, aside>>

(* ... by an update that does not test it again.                           *)
DecideWrite(p) ==
  /\ At(p, "decideWrite")
  /\ SetApproval(OpOf(p), IF task[p].approve THEN "approved" ELSE "rejected")
  /\ LeaveApproval(p)
  /\ UNCHANGED <<chatOf, asked, opStatus, history, aside>>

(* The execute node reads the operation and then its approval.             *)
ReadOp(p) ==
  /\ At(p, "readOp")
  /\ Move(p, "readApproval", OpOf(p), opStatus[OpOf(p)])
  /\ UNCHANGED <<chatOf, asked, opStatus, appr, ckpt, history, aside>>

(* It runs an approved operation that is pending or failed, replays an     *)
(* executed one and refuses the others.  The model of the run is checked   *)
(* again: if this process does not find it write-capable any more, the run *)
(* ends and the operation stays as it is.                                  *)
ReadApproval(p) ==
  LET o == OpOf(p)
      runnable == appr[o] = "approved" /\ task[p].snap \in {"pending", "failed"}
      endRun == Save(ChatFor(p), "none", ckpt[ChatFor(p)].req, o) /\ Return(p)
  IN
  /\ At(p, "readApproval")
  /\ \/ runnable /\ Goto(p, "engine") /\ UNCHANGED <<ckpt, refused>>
     \/ runnable /\ endRun /\ refused' = refused \cup {o}
     \/ ~runnable /\ endRun /\ UNCHANGED refused
  /\ UNCHANGED <<chatOf, asked, opStatus, appr, history, lost, crashes>>

(* ExecutionEngine.execute, whose steps are module ExecutionEngine's: it   *)
(* marks the operation, or replays what an earlier execution did.          *)
Engine(p) ==
  LET o == OpOf(p) IN
  /\ At(p, "engine")
  /\ runs' = [runs EXCEPT ![o] = @ + 1]
  /\ \/ \E s \in {"executed", "failed", "human_handoff"} : SetOp(o, s)
     \/ runs[o] > 0 /\ UNCHANGED opStatus
  /\ Save(ChatFor(p), "none", ckpt[ChatFor(p)].req, o)
  /\ Return(p)
  /\ UNCHANGED <<chatOf, asked, appr, decisions, aside>>

-----------------------------------------------------------------------------
(* Mutant: the time-out forgets to test the approval's status.             *)
Expire_AnyStatus(o) ==
  /\ Expiry
  /\ appr[o] \in {"pending", "approved"}
  /\ SetApproval(o, "timeout")
  /\ IF opStatus[o] # "executed" THEN SetOp(o, "human_handoff") ELSE UNCHANGED opStatus
  /\ UNCHANGED <<chatOf, asked, ckpt, task, history, aside>>

(* expire_stale_approvals: an undecided approval times out and hands its   *)
(* operation over.                                                         *)
Expire(o) ==
  /\ Expiry
  /\ appr[o] = "pending"
  /\ SetApproval(o, "timeout")
  /\ IF opStatus[o] # "executed" THEN SetOp(o, "human_handoff") ELSE UNCHANGED opStatus
  /\ UNCHANGED <<chatOf, asked, ckpt, task, history, aside>>

(* A handler dies, or the checkpoint access is refused after the claim.    *)
Crash(p) ==
  /\ ~At(p, "idle")
  /\ crashes < MaxCrashes
  /\ crashes' = crashes + 1
  /\ lost' = lost \cup ({OpOf(p), Target(p)} \ {NoOp})
  /\ Return(p)
  /\ UNCHANGED <<chatOf, asked, opStatus, appr, ckpt, history, refused>>

Step(p) ==
  \/ OtherIntent(p) \/ CreateOperation(p) \/ CreateApproval(p)
  \/ Claim(p) \/ Resume(p) \/ DecideRead(p) \/ DecideWrite(p)
  \/ ReadOp(p) \/ ReadApproval(p) \/ Engine(p)

Next ==
  \/ \E p \in Runners : Step(p) \/ Crash(p)
  \/ \E p \in Runners, o \in Ops : StartRun(p, o)
  \/ \E p \in Runners, o \in Ops, approve \in BOOLEAN : StartDecision(p, o, approve)
  \/ \E o \in Ops : Expire(o)

Spec == Init /\ [][Next]_vars

(* A handler that has begun goes on; nobody has to ask or to decide.       *)
FairSpec == Spec /\ \A p \in Runners : WF_vars(Step(p))
=============================================================================
