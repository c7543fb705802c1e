------------------------------- MODULE AgentTurn -------------------------------
(***************************************************************************)
(* The turns of one conversation through the agent graph: its nodes        *)
(* (src/graph/nodes.py), the RAG sub-graph (rag.py), the approval node     *)
(* (approval.py) and the edges between them (builder.py), with what the    *)
(* language model, the order data and the retrieval may answer, and how    *)
(* ChatRunner.run_start turns the state the graph leaves into the end of   *)
(* the stream.                                                             *)
(*                                                                         *)
(* A turn writes only some channels of AgentState; the others keep what    *)
(* earlier turns of the conversation left in its checkpoint.  Channels     *)
(* that hold data keep what the properties need of it: whether it is of    *)
(* this turn.  Channels that every turn sets before it reads them are      *)
(* cleared when a turn begins; the counters of the sub-graph are in rag.   *)
(* Runs of one conversation do not overlap here; module ApprovalFlow lets  *)
(* them.                                                                   *)
(***************************************************************************)
EXTENDS Naturals, FiniteSets, ModelEvaluation

CONSTANTS
  Actions,       \* the sensitive operations, of refund, return_request, return_address
  Orders,        \* well-formed order references
  Mine, Ours,    \* the orders of the user who chats, and of his tenant
  Staff,         \* STAFF_ROLES
  Roles,         \* roles the user may have
  Models,
  DevModels,     \* DEFAULT_DEV_WRITE_MODELS
  Answers,       \* what each model answers in its evaluation
  Deployments,   \* the configurations operators roll out
  Hits,          \* how many 2-grams of a query the best document may contain
  RagMaxRetries, HallucinationMaxRetries,
  MaxOps,        \* bound: operations of the conversation
  MaxTurns, MaxFaults, MaxDeploys   \* bounds: chat requests, runs lost, deployments

ASSUME OrdersAssumption == Mine \subseteq Ours /\ Ours \subseteq Orders
ASSUME ActionsAssumption == Actions \subseteq {"refund", "return_request", "return_address"}
ASSUME ModelsAssumption ==
  /\ DevModels \subseteq Models
  /\ Answers \in [Models -> [AllCases -> Replies]]
  /\ Deployments \subseteq
       [model: Models, base: SUBSET Models, evaluated: SUBSET Models, restricted: BOOLEAN]
ASSUME BoundsAssumption ==
  {RagMaxRetries, HallucinationMaxRetries, MaxOps, MaxTurns, MaxFaults, MaxDeploys}
    \cup Hits \subseteq Nat

VARIABLES
  st,       \* the channels of AgentState
  pc,       \* the node that runs, "emit" or "idle"
  saved,    \* the conversation's checkpoint: state and next node
  by,       \* who runs the graph: a chat request or a decision of the staff
  verdict,  \* the decision the graph is resumed with
  rag,      \* the sub-graph's own channels
  ops,      \* operations of the conversation with their approvals
  live,     \* the configuration that is deployed
  role,
  out,      \* how the latest turn ended
  turn,     \* what happened in it (history)
  spent     \* turns, faults and deployments so far

vars == <<st, pc, saved, by, verdict, rag, ops, live, role, out, turn, spent>>
unchanged_env == UNCHANGED <<live, role, spent>>

Intents == {"order", "shipping", "policy", "complaint", "other"} \cup Actions
Age == {"none", "old", "new"}
Ref == Orders \cup {"missing", "malformed"}
OpId == 0..MaxOps

(* Whose words final_response holds; earlier: what an earlier turn said or *)
(* looked up.                                                              *)
Text ==
  {"none", "handover", "policy", "refusal", "lookup", "plain", "execution", "earlier"}
State ==
  [intent: Intents \cup {"none"}, order: Ref, tools: Age,
   draft: {"none", "empty", "text"}, check: {"none", "faithful", "unfaithful"},
   falls: BOOLEAN, needs: BOOLEAN, pending: Actions \cup {"none"}, op: OpId,
   model: Models \cup {"none"}, final: Text]
Node ==
  {"classify", "route", "query", "track", "write", "escalate", "rag", "approval",
   "execute", "respond", "error"}
RagNode == {"initialize", "rewrite", "search", "grade", "generate", "check"}

EmptyRag == [hits |-> 0, attempts |-> 0, regenerations |-> 0]
EmptyState ==
  [intent |-> "none", order |-> "missing", tools |-> "none", draft |-> "none",
   check |-> "none", falls |-> FALSE, needs |-> FALSE, pending |-> "none", op |-> 0,
   model |-> "none", final |-> "none"]
NoOut == [event |-> "none", text |-> "none"]
NewTurn == [aborted |-> FALSE, vetted |-> FALSE]

Init ==
  /\ st = EmptyState
  /\ pc = "idle"
  /\ saved = [state |-> EmptyState, next |-> "end"]
  /\ by = "nobody"
  /\ verdict = FALSE
  /\ rag = EmptyRag
  /\ ops = <<>>
  /\ live \in Deployments
  /\ role \in Roles
  /\ out = NoOut
  /\ turn = NewTurn
  /\ spent = [turns |-> 0, faults |-> 0, deploys |-> 0]

-----------------------------------------------------------------------------
(* What the graph calls.                                                   *)

(* The records of the evaluated models.                                    *)
Records == [m \in Models |-> EmitReport(m, Answers[m])[m]]

(* The models whose report says write_op_pass.                             *)
PassedEval(d) == {m \in d.evaluated : Records[m]["write_op"]}

(* resolve_high_confidence_models: listed and evaluated, and nothing at    *)
(* all without a report where the environment is restricted.               *)
WriteModels(d) ==
  IF d.base = {} THEN IF d.restricted THEN {} ELSE DevModels
  ELSE IF d.restricted /\ d.evaluated = {} THEN {}
  ELSE IF PassedEval(d) = {} THEN IF d.restricted THEN {} ELSE d.base
  ELSE d.base \cap PassedEval(d)

CapabilityOk == live.model \in WriteModels(live)
IsWriteCapable(m) == m \in WriteModels(live)

(* A call of the model: an answer, or LLMUnavailableError after bounded    *)
(* retries or by the open breaker; an answer read as JSON may be none, and *)
(* an object may break its schema.                                         *)
Chat == {"answer", "unavailable"}
SafeJson(reply) == IF reply = "answer" THEN {"object", "invalid"} ELSE {reply}
Json == UNION {SafeJson(reply) : reply \in Chat}
IntentOutput == [intent: Intents, order: Ref]
CheckHallucination == {"faithful", "unfaithful", "invalid", "unavailable"}
GenerateRagAnswer == {"text", "empty", "unavailable"}

(* grade_relevance: 2.5 points for a 2-gram of the query, ten at most.     *)
Relevance(hits) == IF hits * 5 >= 20 THEN 10 ELSE (hits * 5) \div 2
RelevanceThreshold == 7

ValidRef(o) == o \in Orders
AssertOwnership(o) == o \in Mine \/ role \in Staff
OrderRow(o) == o \in Ours
GetOrder(o) == OrderRow(o) /\ AssertOwnership(o)

OrderRecord ==
  [delivered: BOOLEAN, window: {"refund", "return", "over"}, paid: BOOLEAN,
   excluded: BOOLEAN]
RefundEligible(r) == r.delivered /\ r.window = "refund" /\ r.paid /\ ~r.excluded
ReturnEligible(r) == r.delivered /\ r.window # "over" /\ ~r.excluded
AddressValid == BOOLEAN
(* The checks of the write node against the order as it is now, or of the  *)
(* address the model extracted.                                            *)
Eligible(action) ==
  IF action = "refund" THEN {RefundEligible(r) : r \in OrderRecord}
  ELSE IF action = "return_request" THEN {ReturnEligible(r) : r \in OrderRecord}
  ELSE AddressValid

-----------------------------------------------------------------------------
(* Steps of a run.                                                         *)

(* Where a run goes when the graph has nothing more to do.                 *)
Leave == IF by = "chat" THEN "emit" ELSE "idle"

Fault == spent.faults < MaxFaults /\ spent' = [spent EXCEPT !.faults = @ + 1]

(* A superstep ends: the state is checkpointed with the node that follows. *)
Superstep(s, next) ==
  /\ st' = s
  /\ saved' = [state |-> s, next |-> next]
  /\ pc' = CASE next \in {"end", "approval"} -> Leave
             [] next = "rag" -> "initialize"
             [] OTHER -> next

(* Inside the sub-graph nothing of the conversation's checkpoint changes.  *)
RagStep(s, next) == st' = s /\ pc' = next /\ UNCHANGED saved

Aged(s) ==
  [s EXCEPT !.intent = "none", !.order = "missing", !.draft = "none", !.check = "none",
            !.tools = IF @ = "none" THEN @ ELSE "old",
            !.final = IF @ = "none" THEN @ ELSE "earlier"]

(* run_start: the input sets the message, the identity and the model; the  *)
(* rest of the state is the conversation's.                                *)
StartTurn ==
  LET s == [Aged(saved.state) EXCEPT !.model = live.model] IN
  /\ pc = "idle"
  /\ by' = "chat"
  /\ Superstep(s, "classify")
  /\ ops' = [i \in DOMAIN ops |-> [ops[i] EXCEPT !.new = FALSE]]
  /\ out' = NoOut
  /\ turn' = NewTurn
  /\ verdict' = FALSE
  /\ spent.turns < MaxTurns /\ spent' = [spent EXCEPT !.turns = @ + 1]
  /\ UNCHANGED <<live, role, rag>>

(* classify_intent: an answer that cannot be used is a complaint that      *)
(* falls to a human; one of low confidence is just a complaint.            *)
Classify ==
  /\ pc = "classify"
  /\ \E reply \in Json :
       \/ /\ reply = "object"
          /\ \E r \in IntentOutput, confident \in BOOLEAN :
               Superstep([st EXCEPT !.intent = IF confident THEN r.intent ELSE "complaint",
                                    !.order = r.order], "route")
       \/ Superstep([st EXCEPT !.intent = "complaint", !.order = "missing",
                               !.falls = TRUE], "route")
  /\ unchanged_env /\ UNCHANGED <<by, verdict, rag, ops, out, turn>>

RouteCondition(intent) ==
  CASE intent = "order" -> "query"
    [] intent = "shipping" -> "track"
    [] intent \in Actions -> "write"
    [] intent = "policy" -> "rag"
    [] intent = "complaint" -> "escalate"
    [] OTHER -> "respond"

Route ==
  /\ pc = "route"
  /\ Superstep(st, RouteCondition(st.intent))
  /\ unchanged_env /\ UNCHANGED <<by, verdict, rag, ops, out, turn>>

(* Mutant: an order that is not visible leaves tool_results alone.         *)
QueryOrder_Silent ==
  /\ pc = "query"
  /\ \/ /\ ~GetOrder(st.order)
        /\ Superstep(st, "respond")
     \/ /\ GetOrder(st.order)
        /\ Superstep([st EXCEPT !.tools = "new"], "respond")
  /\ unchanged_env /\ UNCHANGED <<by, verdict, rag, ops, out, turn>>

(* query_order and track_shipping: an order that is not visible reads as   *)
(* one that does not exist; a malformed reference falls to a human.        *)
Lookup ==
  LET malformed == st.order # "missing" /\ ~ValidRef(st.order) IN
  /\ Superstep([st EXCEPT !.tools = "new", !.falls = @ \/ malformed], "respond")
  /\ unchanged_env /\ UNCHANGED <<by, verdict, rag, ops, out, turn>>
QueryOrder == pc = "query" /\ Lookup
TrackShipping == pc = "track" /\ Lookup

EscalateTicket ==
  /\ pc = "escalate"
  /\ Superstep([st EXCEPT !.tools = "new"], "respond")
  /\ unchanged_env /\ UNCHANGED <<by, verdict, rag, ops, out, turn>>

-----------------------------------------------------------------------------
(* process_refund, process_return, update_return_address.                  *)

(* Mutant: an approval_id in the state is enough.                          *)
WriteApprovalCondition_AnyApproval(s) == IF s.op # 0 THEN "approval" ELSE "error"

WriteApprovalCondition(s) == IF s.needs /\ s.op # 0 THEN "approval" ELSE "error"

(* generate_operation_key: a request creates one operation of a kind for   *)
(* an order, however often its node runs.                                  *)
Existing(action, order) ==
  {i \in DOMAIN ops : ops[i].new /\ ops[i].action = action /\ ops[i].order = order}

(* Model, order, parameters or eligibility are refused.                    *)
WriteRefused ==
  LET s == [st EXCEPT !.needs = FALSE, !.falls = TRUE] IN
  /\ pc = "write"
  /\ \/ ~CapabilityOk \/ ~ValidRef(st.order) \/ ~GetOrder(st.order)
     \/ \E reply \in Json : reply # "object"   \* extract_tool_params
     \/ FALSE \in Eligible(st.intent)
  /\ Superstep(s, WriteApprovalCondition(s))
  /\ unchanged_env /\ UNCHANGED <<by, verdict, rag, ops, out, turn>>

MayWrite ==
  /\ pc = "write" /\ CapabilityOk /\ GetOrder(st.order)
  /\ TRUE \in Eligible(st.intent)

(* create_operation and create_approval, as far as the node gets.          *)
Created(i, approval) ==
  LET old == Existing(st.intent, st.order) IN
  IF old # {}
    THEN /\ i \in old
         /\ ops' = [ops EXCEPT ![i].model = live.model,
                      ![i].appr = IF @ = "absent" THEN approval ELSE @]
    ELSE /\ i = Cardinality(DOMAIN ops) + 1 /\ i <= MaxOps
         /\ ops' = [j \in DOMAIN ops \cup {i} |->
                      IF j # i THEN ops[j]
                      ELSE [action |-> st.intent, order |-> st.order, model |-> live.model,
                            status |-> "pending", appr |-> approval, new |-> TRUE]]

WriteCreated ==
  /\ MayWrite
  /\ \E i \in OpId :
       LET s == [st EXCEPT !.needs = TRUE, !.pending = st.intent, !.op = i,
                           !.model = live.model]
       IN Created(i, "pending") /\ Superstep(s, WriteApprovalCondition(s))
  /\ unchanged_env /\ UNCHANGED <<by, verdict, rag, out, turn>>

(* The run is lost between the inserts and the checkpoint.                 *)
WriteLost ==
  /\ MayWrite
  /\ \E i \in OpId, approval \in {"absent", "pending"} : Created(i, approval)
  /\ st' = saved.state
  /\ pc' = Leave
  /\ turn' = [turn EXCEPT !.aborted = TRUE]
  /\ Fault
  /\ UNCHANGED <<saved, by, verdict, rag, out, live, role>>

-----------------------------------------------------------------------------
(* The approval node after its interrupt, and the execute nodes.           *)

ApprovalResultCondition(approved, pending) ==
  IF approved /\ pending \in Actions THEN "execute" ELSE "error"

(* decide_approval of the store, on the approval in the state.             *)
Approval ==
  LET i == st.op IN
  /\ pc = "approval"
  /\ ops' = IF ops[i].appr # "pending" THEN ops
            ELSE [ops EXCEPT ![i].appr = IF verdict THEN "approved" ELSE "rejected",
                             ![i].status = IF verdict THEN @ ELSE "rejected"]
  /\ Superstep([st EXCEPT !.needs = FALSE], ApprovalResultCondition(verdict, st.pending))
  /\ verdict' = FALSE
  /\ unchanged_env /\ UNCHANGED <<by, rag, out, turn>>

Closed(s, falls) ==
  [s EXCEPT !.final = "execution", !.needs = FALSE, !.pending = "none", !.falls = falls]

(* Mutant: without the last look at the model.                             *)
MayExecute_AnyModel(o) ==
  o.action = st.pending /\ o.appr = "approved" /\ o.status \in {"pending", "failed"}

(* The checks of the execute node.                                         *)
MayExecute(o) ==
  /\ o.action = st.pending
  /\ o.appr = "approved"
  /\ IsWriteCapable(st.model)
  /\ o.status \in {"pending", "failed"}

(* ExecutionEngine.execute is module ExecutionEngine; what it raises marks *)
(* the operation failed.                                                   *)
ExecuteOperation == {"executed", "human_handoff", "failed"}

Execute ==
  LET i == st.op IN
  /\ pc = "execute"
  /\ \/ /\ MayExecute(ops[i])
        /\ \E s \in ExecuteOperation :
             /\ ops' = [ops EXCEPT ![i].status = s]
             /\ Superstep(Closed(st, IF s = "failed" THEN st.falls ELSE s = "human_handoff"),
                          "respond")
     \/ /\ ~MayExecute(ops[i])
        /\ Superstep(Closed(st, st.falls), "respond")
        /\ UNCHANGED ops
  /\ unchanged_env /\ UNCHANGED <<by, verdict, rag, out, turn>>

-----------------------------------------------------------------------------
(* The RAG sub-graph.                                                      *)

RagOver(s) ==
  /\ Superstep(s, IF s.falls THEN "error" ELSE "respond")
  /\ rag' = EmptyRag

InitializeRag ==
  /\ pc = "initialize"
  /\ RagStep([st EXCEPT !.draft = "none", !.check = "none", !.falls = FALSE], "rewrite")
  /\ rag' = EmptyRag
  /\ unchanged_env /\ UNCHANGED <<by, verdict, ops, out, turn>>

(* A rewrite that fails does not stop the search, only what follows it.    *)
RewriteQuery ==
  /\ pc = "rewrite"
  /\ \E reply \in Chat : RagStep([st EXCEPT !.falls = @ \/ reply # "answer"], "search")
  /\ unchanged_env /\ UNCHANGED <<by, verdict, rag, ops, out, turn>>

(* Documents of the tenant, best first; or an exception of the retriever.  *)
SearchPolicy == [hits: Hits, available: BOOLEAN]
HybridSearch ==
  /\ pc = "search"
  /\ \E found \in SearchPolicy :
       /\ rag' = [rag EXCEPT !.hits = IF found.available THEN found.hits ELSE 0]
       /\ RagStep([st EXCEPT !.falls = @ \/ ~found.available], "grade")
  /\ unchanged_env /\ UNCHANGED <<by, verdict, ops, out, turn>>

(* Mutant: the retry is not counted.                                       *)
GradeRelevance_Uncounted ==
  /\ pc = "grade"
  /\ IF st.falls \/ rag.hits = 0 THEN RagOver([st EXCEPT !.falls = TRUE])
     ELSE IF Relevance(rag.hits) >= RelevanceThreshold
       THEN RagStep(st, "generate") /\ UNCHANGED rag
     ELSE RagStep(st, "rewrite") /\ UNCHANGED rag
  /\ unchanged_env /\ UNCHANGED <<by, verdict, ops, out, turn>>

GradeRelevance ==
  LET relevant == Relevance(rag.hits) >= RelevanceThreshold
      retry == ~relevant /\ rag.attempts < RagMaxRetries
  IN
  /\ pc = "grade"
  /\ \/ /\ st.falls \/ rag.hits = 0 \/ (~relevant /\ ~retry)
        /\ RagOver([st EXCEPT !.falls = TRUE])
     \/ /\ ~st.falls /\ rag.hits > 0 /\ relevant
        /\ RagStep(st, "generate")
        /\ UNCHANGED rag
     \/ /\ ~st.falls /\ rag.hits > 0 /\ retry
        /\ rag' = [rag EXCEPT !.attempts = @ + 1]
        /\ RagStep(st, "rewrite")
  /\ unchanged_env /\ UNCHANGED <<by, verdict, ops, out, turn>>

GenerateAnswer ==
  /\ pc = "generate"
  /\ \E answer \in GenerateRagAnswer :
       RagStep([st EXCEPT !.draft = IF answer = "unavailable" THEN "none" ELSE answer,
                          !.check = "none", !.falls = answer = "unavailable"], "check")
  /\ turn' = [turn EXCEPT !.vetted = FALSE]
  /\ unchanged_env /\ UNCHANGED <<by, verdict, rag, ops, out>>

(* A draft that is missing or not judged falls to a human at once, one     *)
(* that is unfaithful after its last regeneration.                         *)
CheckDraft ==
  /\ pc = "check"
  /\ \/ /\ st.draft # "text"
        /\ RagOver([st EXCEPT !.check = "unfaithful", !.falls = TRUE])
        /\ UNCHANGED turn
     \/ /\ st.draft = "text"
        /\ \E verdictOfModel \in CheckHallucination :
             \/ /\ verdictOfModel = "faithful"
                /\ RagOver([st EXCEPT !.check = "faithful", !.falls = FALSE])
                /\ turn' = [turn EXCEPT !.vetted = Relevance(rag.hits) >= RelevanceThreshold]
             \/ /\ verdictOfModel = "unfaithful"
                /\ rag.regenerations < HallucinationMaxRetries
                /\ rag' = [rag EXCEPT !.regenerations = @ + 1]
                /\ RagStep([st EXCEPT !.check = "unfaithful", !.falls = FALSE], "generate")
                /\ UNCHANGED turn
             \/ /\ verdictOfModel # "faithful"
                /\ verdictOfModel = "unfaithful" => rag.regenerations = HallucinationMaxRetries
                /\ RagOver([st EXCEPT !.check = "unfaithful", !.falls = TRUE])
                /\ UNCHANGED turn
  /\ unchanged_env /\ UNCHANGED <<by, verdict, ops, out>>

-----------------------------------------------------------------------------
(* The last two nodes.                                                     *)

HandleError ==
  /\ pc = "error"
  /\ Superstep([st EXCEPT !.final = "handover", !.needs = FALSE, !.pending = "none",
                          !.falls = TRUE], "respond")
  /\ unchanged_env /\ UNCHANGED <<by, verdict, rag, ops, out, turn>>

(* Mutant: a draft is answered with whatever the check said.               *)
FinalText_Unchecked(s) ==
  IF s.intent = "policy" /\ s.draft # "none" THEN "policy"
  ELSE IF s.op # 0 /\ s.final # "none" THEN s.final
  ELSE CASE s.tools = "new" -> "lookup" [] s.tools = "old" -> "earlier" [] OTHER -> "plain"

(* generate_response: a policy answer if it was drafted and is checked,    *)
(* the final response of an operation, what the tools said, or nothing     *)
(* much.                                                                   *)
FinalText(s) ==
  IF s.intent = "policy" /\ s.draft # "none"
    THEN IF s.check = "faithful" /\ ~s.falls THEN "policy" ELSE "refusal"
  ELSE IF s.op # 0 /\ s.final # "none" THEN s.final
  ELSE CASE s.tools = "new" -> "lookup" [] s.tools = "old" -> "earlier" [] OTHER -> "plain"

GenerateResponse ==
  /\ pc = "respond"
  /\ Superstep([st EXCEPT !.final = FinalText(st)], "end")
  /\ unchanged_env /\ UNCHANGED <<by, verdict, rag, ops, out, turn>>

(* The end of run_start, from the state the conversation is left in.       *)
Emit ==
  LET s == saved.state IN
  /\ pc = "emit"
  /\ out' =
       IF s.pending # "none" /\ s.needs
         THEN [event |-> "approval_required", text |-> "none"]
         ELSE [event |-> IF s.falls THEN "error" ELSE "done", text |-> s.final]
  /\ pc' = "idle"
  /\ by' = "nobody"
  /\ unchanged_env /\ UNCHANGED <<st, saved, verdict, rag, ops, turn>>

-----------------------------------------------------------------------------
(* An exception of the order data or of the store ends the run; a chat     *)
(* request ignores it, a decision fails.                                   *)
Abort ==
  /\ pc \in {"query", "track", "write", "approval", "execute"}
  /\ st' = saved.state
  /\ pc' = Leave
  /\ turn' = [turn EXCEPT !.aborted = TRUE]
  /\ unchanged_env /\ UNCHANGED <<saved, by, verdict, rag, ops, out>>

(* The process ends, or the client is gone and the run is cancelled.       *)
Cancel ==
  /\ pc # "idle"
  /\ st' = saved.state
  /\ pc' = "idle"
  /\ by' = "nobody"
  /\ rag' = EmptyRag
  /\ out' = NoOut
  /\ turn' = [turn EXCEPT !.aborted = TRUE]
  /\ Fault
  /\ UNCHANGED <<saved, verdict, ops, live, role>>

(* decide_approval: the staff decides an approval of the conversation and  *)
(* the graph goes on from where the checkpoint stands.                     *)
Decide(i, approved) ==
  /\ pc = "idle"
  /\ ops[i].appr = "pending"
  /\ \E status \in {"rejected", "human_handoff"} :
       ops' = [ops EXCEPT ![i].appr = IF approved THEN "approved" ELSE "rejected",
                          ![i].status = IF approved THEN @ ELSE status]
  /\ verdict' = approved
  /\ IF saved.next = "end" THEN UNCHANGED <<pc, by, out, turn>>
     ELSE /\ pc' = IF saved.next = "rag" THEN "initialize" ELSE saved.next
          /\ by' = "staff"
          /\ out' = NoOut
          /\ turn' = [NewTurn EXCEPT !.vetted = turn.vetted]
  /\ unchanged_env /\ UNCHANGED <<st, saved, rag>>

(* A deployment: another model, allow list or evaluation report.  The       *)
(* report of one evaluation replaces the one before unless it is merged.   *)
Redeploy ==
  /\ pc = "idle"
  /\ \E d \in Deployments : live' = [d EXCEPT !.restricted = live.restricted]
  /\ spent.deploys < MaxDeploys /\ spent' = [spent EXCEPT !.deploys = @ + 1]
  /\ UNCHANGED <<st, pc, saved, by, verdict, rag, ops, role, out, turn>>

NodeStep ==
  \/ Classify \/ Route \/ QueryOrder \/ TrackShipping \/ EscalateTicket
  \/ WriteRefused \/ WriteCreated \/ Approval \/ Execute
  \/ InitializeRag \/ RewriteQuery \/ HybridSearch \/ GradeRelevance
  \/ GenerateAnswer \/ CheckDraft \/ HandleError \/ GenerateResponse \/ Emit

Next ==
  \/ StartTurn \/ NodeStep \/ WriteLost \/ Abort \/ Cancel \/ Redeploy
  \/ \E i \in DOMAIN ops, approved \in BOOLEAN : Decide(i, approved)

Spec == Init /\ [][Next]_vars

(* A run that has begun goes on; nobody has to ask or to decide.           *)
FairSpec == Spec /\ WF_vars(NodeStep)

-----------------------------------------------------------------------------
(* Every variable stays in its type.                                       *)
TypeOK ==
  /\ st \in State
  /\ pc \in {"idle", "emit"} \cup (Node \ {"rag"}) \cup RagNode
  /\ saved.state \in State /\ saved.next \in Node \cup {"end"}
  /\ by \in {"nobody", "chat", "staff"}
  /\ verdict \in BOOLEAN
  /\ rag.hits \in Hits \cup {0}
  /\ rag.attempts \in 0..RagMaxRetries
  /\ rag.regenerations \in 0..HallucinationMaxRetries
  /\ \E n \in OpId : DOMAIN ops = 1..n
  /\ live.model \in Models
  /\ role \in Roles
  /\ out.text \in Text
  /\ turn \in [aborted: BOOLEAN, vetted: BOOLEAN]

(* The conversation waits for an approval only with the operation of its   *)
(* latest request, of the kind and for the order the message asked for,    *)
(* whatever approvals earlier turns left in its state.                     *)
FreshHold ==
  saved.next = "approval" =>
    LET o == ops[saved.state.op] IN
    o.new /\ o.action = saved.state.pending /\ o.order = saved.state.order

(* A policy answer the conversation gives in a turn was drafted in that    *)
(* turn from relevant documents and found faithful, after however many     *)
(* rewrites, regenerations, failures and earlier answers.                  *)
FaithfulOnly ==
  st.final = "policy" => turn.vetted

(* A question about an order is answered with what was looked up for it,   *)
(* unless the look-up broke off or an operation was bound before.          *)
AnswersThisTurn ==
  out.event = "done" /\ st.intent \in {"order", "shipping"} /\ ~turn.aborted /\ st.op = 0 =>
    out.text = "lookup"

(* Where the environment is restricted, no operation reaches the engine    *)
(* that was drafted by a model that is not in the deployed report now or   *)
(* broke the schema of a write in its evaluation, although there was a     *)
(* deployment while the approval waited.                                   *)
EvaluatedOnly ==
  [][\A i \in DOMAIN ops :
       pc = "execute" /\ ops'[i].status # ops[i].status /\ live.restricted =>
         /\ ops[i].model \in live.base \cap live.evaluated
         /\ \A c \in WriteOpCases : StrictValidate(Answers[ops[i].model][c])]_vars

(* Every run comes to its end: retries of the sub-graph are bounded and no *)
(* state makes the graph stop half-way.                                    *)
TurnEnds == pc # "idle" ~> pc = "idle"
=============================================================================
