----------------------------- MODULE AgentProofs -----------------------------
(***************************************************************************)
(* Theorems of AgentTurn, for any models, orders, roles, evaluations,      *)
(* configurations and bounds, and of CircuitBreaker, through which its     *)
(* calls of a model go: for any callers, threshold and cooldown.           *)
(***************************************************************************)
EXTENDS AgentTurn, CircuitBreaker, FiniteSetTheorems, TLAPS

-----------------------------------------------------------------------------
(* AgentTurn: the inductive invariant.                                     *)

RagChannels ==
  [hits: Hits \cup {0}, attempts: 0..RagMaxRetries,
   regenerations: 0..HallucinationMaxRetries]
Operation ==
  [action: Actions, order: Orders, model: Models, new: BOOLEAN,
   status: {"pending", "rejected", "executed", "human_handoff", "failed"},
   appr: {"absent", "pending", "approved", "rejected"}]
Configuration ==
  [model: Models, base: SUBSET Models, evaluated: SUBSET Models, restricted: BOOLEAN]
Output == [event: {"none", "approval_required", "error", "done"}, text: Text]
OpsOK(o) == \E n \in OpId : DOMAIN o = 1..n /\ \A i \in 1..n : o[i] \in Operation

Types ==
  /\ by \in {"nobody", "chat", "staff"}
  /\ verdict \in BOOLEAN
  /\ rag \in RagChannels
  /\ OpsOK(ops)
  /\ live \in Configuration
  /\ role \in Roles
  /\ out \in Output
  /\ turn \in [aborted: BOOLEAN, vetted: BOOLEAN]

(* The nodes that come before a turn has something to say.                 *)
Early == {"classify", "route", "query", "track", "write", "escalate", "rag", "approval"}
OfEarlier(s) == s.final \in {"none", "earlier"} /\ s.check = "none"
Sound(s, t) == (s.check = "faithful" => t.vetted) /\ (s.final = "policy" => t.vetted)
(* Where the turns that ask about an order come by.                        *)
Asks(s) == s.intent \in {"order", "shipping"}
LookedUp(s, next) ==
  Asks(s) =>
    /\ next \in {"route", "query", "track", "respond", "end"}
    /\ next = "respond" => s.tools = "new"
    /\ next = "end" /\ s.op = 0 => s.final = "lookup"
(* The operation a turn waits for or executes.                             *)
Bound(s, next, o) ==
  /\ next = "write" => s.intent \in Actions
  /\ next \in {"approval", "execute"} => s.op \in DOMAIN o /\ o[s.op].model = s.model
  /\ next = "approval" =>
       o[s.op].new /\ o[s.op].action = s.pending /\ o[s.op].order = s.order

Kept(s, next, o, t) ==
  /\ s \in State /\ next \in Node \cup {"end"}
  /\ next \in Early => OfEarlier(s)
  /\ Sound(s, t)
  /\ LookedUp(s, next)
  /\ Bound(s, next, o)

InRag ==
  /\ saved.next = "rag"
  /\ st \in State
  /\ st.final \in {"none", "earlier"} /\ st.check # "faithful" /\ ~Asks(st)
  /\ pc \in {"generate", "check"} => Relevance(rag.hits) >= RelevanceThreshold

Placed ==
  /\ pc \in {"idle", "emit"} \cup (Node \ {"rag"}) \cup RagNode
  /\ IF pc \in RagNode THEN InRag ELSE st = saved.state
  /\ pc \notin RagNode \cup {"idle", "emit"} => saved.next = pc
  /\ pc = "emit" /\ ~turn.aborted => saved.next \in {"end", "approval"}
  /\ pc # "idle" => out = NoOut

IInv ==
  /\ Types
  /\ DOMAIN saved = {"state", "next"} /\ Kept(saved.state, saved.next, ops, turn)
  /\ Placed
  /\ AnswersThisTurn
USE DEF Node, RagNode, OpId, Text, Ref, Age, Intents

-----------------------------------------------------------------------------
LEMMA InitKept == Init => IInv
  <1> SUFFICES ASSUME Init PROVE IInv
    OBVIOUS
  <1>1. EmptyState \in State
    BY BoundsAssumption DEF EmptyState, State
  <1>2. OpsOK(ops)
    <2>1. 0 \in OpId /\ DOMAIN ops = 1..0
      BY BoundsAssumption DEF Init
    <2> QED
      BY <2>1 DEF OpsOK
  <1>3. rag \in RagChannels /\ out \in Output /\ turn \in [aborted: BOOLEAN, vetted: BOOLEAN]
    BY BoundsAssumption DEF Init, EmptyRag, RagChannels, NoOut, Output, NewTurn
  <1>4. live \in Configuration
    BY ModelsAssumption DEF Init, Configuration
  <1>5. Types
    BY <1>2, <1>3, <1>4 DEF Init, Types
  <1>6. DOMAIN saved = {"state", "next"} /\ saved.state = EmptyState /\ saved.next = "end"
    BY DEF Init
  <1>7. Kept(EmptyState, "end", ops, turn)
    BY <1>1 DEF Kept, EmptyState, Early, Sound, LookedUp, Asks, Bound
  <1>8. Placed
    BY <1>6 DEF Init, Placed
  <1>9. AnswersThisTurn
    BY DEF Init, AnswersThisTurn, NoOut
  <1> QED
    BY <1>5, <1>6, <1>7, <1>8, <1>9 DEF IInv

(* What a node of the main graph starts from.                              *)
LEMMA AtNode ==
  ASSUME IInv, pc \in Node \ {"rag"}
  PROVE  /\ st = saved.state /\ saved.next = pc /\ out = NoOut
         /\ Kept(st, pc, ops, turn) /\ st \in State
  BY DEF IInv, Placed, Kept

LEMMA SuperstepKept ==
  ASSUME NEW s, NEW next, Superstep(s, next), Kept(s, next, ops', turn'),
         out' = NoOut, Types'
  PROVE  IInv'
  <1>1. saved' = [state |-> s, next |-> next] /\ st' = s
    BY DEF Superstep
  <1>2. /\ DOMAIN saved' = {"state", "next"} /\ saved.state' = s /\ saved.next' = next
    BY <1>1
  <1>3. s \in State /\ next \in Node \cup {"end"}
    BY DEF Kept
  <1>4. CASE next \in {"end", "approval"}
    <2>1. pc' \in {"emit", "idle"}
      BY <1>4 DEF Superstep, Leave
    <2>2. Placed'
      BY <1>1, <1>2, <1>4, <2>1 DEF Placed
    <2> QED
      BY <1>2, <2>2 DEF IInv, AnswersThisTurn, NoOut
  <1>5. CASE next = "rag"
    <2>1. pc' = "initialize"
      BY <1>5 DEF Superstep
    <2>2. s.final \in {"none", "earlier"} /\ s.check = "none" /\ ~Asks(s)
      BY <1>5 DEF Kept, Early, OfEarlier, LookedUp
    <2>3. InRag'
      BY <1>1, <1>2, <1>3, <1>5, <2>1, <2>2 DEF InRag, Asks
    <2>4. Placed'
      BY <2>1, <2>3 DEF Placed
    <2> QED
      BY <1>2, <2>4 DEF IInv, AnswersThisTurn, NoOut
  <1>6. CASE next \notin {"end", "approval", "rag"}
    <2>1. pc' = next /\ next \in Node \ {"rag", "approval"}
      BY <1>3, <1>6 DEF Superstep
    <2>2. Placed'
      BY <1>1, <1>2, <2>1 DEF Placed
    <2> QED
      BY <1>2, <2>2 DEF IInv, AnswersThisTurn, NoOut
  <1> QED
    BY <1>4, <1>5, <1>6
(* Of the other variables most nodes change none.                          *)
LEMMA NodeKept ==
  ASSUME IInv, pc \in Node \ {"rag"}, NEW s, NEW next, Superstep(s, next),
         UNCHANGED <<live, role, by, verdict, rag, ops, out, turn>>,
         Kept(s, next, ops, turn)
  PROVE  IInv'
  <1>1. out' = NoOut
    BY AtNode
  <1>2. Types'
    BY DEF IInv, Types
  <1>3. Kept(s, next, ops', turn')
    OBVIOUS
  <1> QED
    BY <1>1, <1>2, <1>3, SuperstepKept

(* What the next turn finds in the channels it does not set.               *)
LEMMA AgedType ==
  ASSUME NEW s \in State
  PROVE  /\ Aged(s) \in State
         /\ Aged(s).intent = "none" /\ Aged(s).check = "none"
         /\ Aged(s).final \in {"none", "earlier"}
  <1>1. /\ DOMAIN Aged(s) = {"intent", "order", "tools", "draft", "check", "falls", "needs",
                             "pending", "op", "model", "final"}
        /\ Aged(s) = [f \in DOMAIN Aged(s) |-> Aged(s)[f]]
    BY DEF Aged, State
  <1>2. /\ Aged(s).intent = "none" /\ Aged(s).order = "missing"
        /\ Aged(s).draft = "none" /\ Aged(s).check = "none"
        /\ Aged(s).falls = s.falls /\ Aged(s).needs = s.needs
        /\ Aged(s).pending = s.pending /\ Aged(s).op = s.op /\ Aged(s).model = s.model
        /\ Aged(s).tools = IF s.tools = "none" THEN "none" ELSE "old"
        /\ Aged(s).final = IF s.final = "none" THEN "none" ELSE "earlier"
    BY DEF Aged, State
  <1>3. PICK d : d = Aged(s)
    OBVIOUS
  <1>4. d.final \in Text /\ d.tools \in Age
    BY <1>2, <1>3
  <1>5. /\ d.intent \in Intents \cup {"none"} /\ d.order \in Ref
        /\ d.draft \in {"none", "empty", "text"}
        /\ d.check \in {"none", "faithful", "unfaithful"}
        /\ d.falls \in BOOLEAN /\ d.needs \in BOOLEAN /\ d.pending \in Actions \cup {"none"}
        /\ d.op \in OpId /\ d.model \in Models \cup {"none"}
    BY <1>2, <1>3 DEF State
  <1>6. d \in State
    BY <1>1, <1>3, <1>4, <1>5 DEF State
  <1> QED
    BY <1>2, <1>3, <1>6

LEMMA StartTurnInv ==
  ASSUME IInv, StartTurn
  PROVE  IInv'
  <1> DEFINE s == [Aged(saved.state) EXCEPT !.model = live.model]
  <1>1. saved.state \in State /\ live.model \in Models
    BY DEF IInv, Kept, Types, Configuration
  <1>2. s \in State
    <2>1. Aged(saved.state) \in State
      BY <1>1, AgedType
    <2> QED
      BY <1>1, <2>1 DEF State
  <1>3. s.intent = "none" /\ s.check = "none" /\ s.final \in {"none", "earlier"}
    <2>1. DOMAIN Aged(saved.state) = DOMAIN s
      OBVIOUS
    <2> QED
      BY <1>1, AgedType
  <1>4. Superstep(s, "classify") /\ out' = NoOut
    BY DEF StartTurn
  <1> HIDE DEF s
  <1>5. Kept(s, "classify", ops', turn')
    BY <1>2, <1>3 DEF Kept, Early, OfEarlier, Sound, LookedUp, Asks, Bound
  <1>6. OpsOK(ops')
    <2>1. PICK n \in OpId : DOMAIN ops = 1..n /\ \A i \in 1..n : ops[i] \in Operation
      BY DEF IInv, Types, OpsOK
    <2>2. ops' = [i \in DOMAIN ops |-> [ops[i] EXCEPT !.new = FALSE]]
      BY DEF StartTurn
    <2>3. DOMAIN ops' = 1..n /\ \A i \in 1..n : ops'[i] = [ops[i] EXCEPT !.new = FALSE]
      BY <2>1, <2>2
    <2>4. \A i \in 1..n : ops'[i] \in Operation
      BY <2>1, <2>3 DEF Operation
    <2> QED
      BY <2>3, <2>4 DEF OpsOK
  <1>7. Types'
    BY <1>6 DEF StartTurn, IInv, Types, NewTurn, NoOut, Output
  <1> QED
    BY <1>4, <1>5, <1>7, SuperstepKept

LEMMA ClassifyInv ==
  ASSUME IInv, Classify
  PROVE  IInv'
  <1>1. /\ pc = "classify" /\ UNCHANGED <<live, role, by, verdict, rag, ops, out, turn>>
        /\ st \in State /\ Kept(st, "classify", ops, turn)
    BY AtNode DEF Classify, unchanged_env
  <1>2. PICK i \in Intents, o \in Ref, f \in BOOLEAN :
          Superstep([st EXCEPT !.intent = i, !.order = o, !.falls = f], "route")
    <2>1. st = [st EXCEPT !.falls = st.falls] /\ st.falls \in BOOLEAN
      BY <1>1 DEF State
    <2>2. CASE \E r \in IntentOutput, confident \in BOOLEAN :
                 Superstep([st EXCEPT !.intent = IF confident THEN r.intent ELSE "complaint",
                                      !.order = r.order], "route")
      <3>1. PICK r \in IntentOutput, confident \in BOOLEAN :
                 Superstep([st EXCEPT !.intent = IF confident THEN r.intent ELSE "complaint",
                                      !.order = r.order], "route")
        BY <2>2
      <3>2. PICK i \in Intents : i = IF confident THEN r.intent ELSE "complaint"
        BY DEF IntentOutput
      <3>3. r.order \in Ref
        BY DEF IntentOutput
      <3>4. [st EXCEPT !.intent = i, !.order = r.order]
              = [st EXCEPT !.intent = i, !.order = r.order, !.falls = st.falls]
        BY <1>1 DEF State
      <3>5. Superstep([st EXCEPT !.intent = i, !.order = r.order], "route")
        BY <3>1, <3>2
      <3> QED
        BY <2>1, <3>3, <3>4, <3>5
    <2>3. CASE Superstep([st EXCEPT !.intent = "complaint", !.order = "missing",
                                    !.falls = TRUE], "route")
      BY <2>3
    <2> QED
      BY <2>2, <2>3 DEF Classify
  <1> DEFINE s == [st EXCEPT !.intent = i, !.order = o, !.falls = f]
  <1>3. s \in State
    BY <1>1 DEF State
  <1>4. s.check = st.check /\ s.final = st.final
    BY <1>1 DEF State
  <1>5. Superstep(s, "route")
    BY <1>2
  <1> HIDE DEF s
  <1>6. Kept(s, "route", ops, turn)
    BY <1>1, <1>3, <1>4 DEF Kept, Early, OfEarlier, Sound, LookedUp, Bound
  <1> QED
    BY <1>1, <1>5, <1>6, NodeKept

LEMMA RouteInv ==
  ASSUME IInv, Route
  PROVE  IInv'
  <1>1. /\ pc = "route" /\ UNCHANGED <<live, role, by, verdict, rag, ops, out, turn>>
        /\ st \in State /\ Kept(st, "route", ops, turn)
        /\ Superstep(st, RouteCondition(st.intent))
    BY AtNode DEF Route, unchanged_env
  <1>2. /\ RouteCondition(st.intent) \in {"query", "track", "write", "rag", "escalate", "respond"}
        /\ Asks(st) => RouteCondition(st.intent) \in {"query", "track"}
        /\ RouteCondition(st.intent) = "write" => st.intent \in Actions
    BY ActionsAssumption DEF RouteCondition, Asks
  <1> DEFINE next == RouteCondition(st.intent)
  <1>3. next \in {"query", "track", "write", "rag", "escalate", "respond"}
        /\ (Asks(st) => next \in {"query", "track"})
        /\ (next = "write" => st.intent \in Actions)
    BY <1>2
  <1> HIDE DEF next
  <1>4. Kept(st, next, ops, turn)
    BY <1>1, <1>3 DEF Kept, Early, LookedUp, Bound
  <1> QED
    BY <1>1, <1>4, NodeKept DEF next

(* query_order, track_shipping and escalate_ticket.                        *)
LEMMA LookupInv ==
  ASSUME IInv, QueryOrder \/ TrackShipping \/ EscalateTicket
  PROVE  IInv'
  <1>1. /\ pc \in {"query", "track", "escalate"}
        /\ UNCHANGED <<live, role, by, verdict, rag, ops, out, turn>>
        /\ st \in State /\ Kept(st, pc, ops, turn)
    BY AtNode DEF QueryOrder, TrackShipping, EscalateTicket, Lookup, unchanged_env
  <1>2. PICK f \in BOOLEAN : Superstep([st EXCEPT !.tools = "new", !.falls = f], "respond")
    <2>1. CASE EscalateTicket
      <3>1. st.falls \in BOOLEAN
            /\ [st EXCEPT !.tools = "new"] = [st EXCEPT !.tools = "new", !.falls = st.falls]
        BY <1>1 DEF State
      <3>2. Superstep([st EXCEPT !.tools = "new"], "respond")
        BY <2>1 DEF EscalateTicket
      <3> QED
        BY <3>1, <3>2
    <2>2. CASE QueryOrder \/ TrackShipping
      <3> DEFINE malformed == st.order # "missing" /\ ~ValidRef(st.order)
      <3>1. Superstep([st EXCEPT !.tools = "new", !.falls = @ \/ malformed], "respond")
        BY <2>2 DEF QueryOrder, TrackShipping, Lookup
      <3>2. PICK f \in BOOLEAN : f = (st.falls \/ malformed)
        OBVIOUS
      <3>3. [st EXCEPT !.tools = "new", !.falls = @ \/ malformed]
              = [st EXCEPT !.tools = "new", !.falls = f]
        BY <1>1, <3>2 DEF State
      <3> QED
        BY <3>1, <3>3
    <2> QED
      BY <2>1, <2>2
  <1> DEFINE s == [st EXCEPT !.tools = "new", !.falls = f]
  <1>3. /\ s \in State /\ s.check = st.check /\ s.final = st.final /\ s.tools = "new"
        /\ s.intent = st.intent
    BY <1>1 DEF State
  <1>4. Superstep(s, "respond")
    BY <1>2
  <1> HIDE DEF s
  <1>5. Kept(s, "respond", ops, turn)
    BY <1>1, <1>3 DEF Kept, Early, OfEarlier, Sound, LookedUp, Asks, Bound
  <1> QED
    BY <1>1, <1>4, <1>5, NodeKept
-----------------------------------------------------------------------------
(* The write nodes.                                                        *)

LEMMA WriteRefusedInv ==
  ASSUME IInv, WriteRefused
  PROVE  IInv'
  <1> DEFINE s == [st EXCEPT !.needs = FALSE, !.falls = TRUE]
  <1>1. /\ pc = "write" /\ UNCHANGED <<live, role, by, verdict, rag, ops, out, turn>>
        /\ st \in State /\ Kept(st, "write", ops, turn)
        /\ Superstep(s, WriteApprovalCondition(s))
    BY AtNode DEF WriteRefused, unchanged_env
  <1>2. /\ s \in State /\ ~s.needs /\ s.check = st.check /\ s.final = st.final
        /\ s.intent = st.intent
    BY <1>1 DEF State
  <1> HIDE DEF s
  <1>3. Superstep(s, "error")
    BY <1>1, <1>2 DEF WriteApprovalCondition
  <1>4. Kept(s, "error", ops, turn)
    BY <1>1, <1>2 DEF Kept, Early, Sound, LookedUp, Asks, Bound
  <1> QED
    BY <1>1, <1>3, <1>4, NodeKept

LEMMA OpsType ==
  ASSUME NEW o, NEW n \in OpId, DOMAIN o = 1..n, \A i \in 1..n : o[i] \in Operation
  PROVE  OpsOK(o)
  BY DEF OpsOK

(* One operation of the conversation changes.                              *)
LEMMA OpChanged ==
  ASSUME NEW o, NEW p, OpsOK(o), NEW i \in DOMAIN o, DOMAIN p = DOMAIN o,
         p[i] \in Operation, \A j \in DOMAIN o \ {i} : p[j] = o[j]
  PROVE  OpsOK(p)
  <1>1. PICK n \in OpId : DOMAIN o = 1..n /\ \A j \in 1..n : o[j] \in Operation
    BY DEF OpsOK
  <1>2. \A j \in 1..n : p[j] \in Operation
    BY <1>1
  <1> QED
    BY <1>1, <1>2, OpsType

(* The operation a request has created is the one it asks for, however     *)
(* often its node ran.                                                     *)
LEMMA CreatedOp ==
  ASSUME IInv, MayWrite, NEW i \in OpId, NEW approval \in {"absent", "pending"},
         Created(i, approval)
  PROVE  /\ OpsOK(ops') /\ i \in DOMAIN ops' /\ i # 0
         /\ ops'[i].new /\ ops'[i].action = st.intent /\ ops'[i].order = st.order
         /\ ops'[i].model = live.model
  <1>1. PICK n \in OpId : DOMAIN ops = 1..n /\ \A j \in 1..n : ops[j] \in Operation
    BY DEF IInv, Types, OpsOK
  <1>2. st.intent \in Actions /\ st.order \in Orders /\ live.model \in Models
    BY AtNode, OrdersAssumption
    DEF MayWrite, Kept, Bound, GetOrder, OrderRow, IInv, Types, Configuration
  <1>3. n \in Nat /\ MaxOps \in Nat
    BY BoundsAssumption
  <1> DEFINE old == Existing(st.intent, st.order)
  <1>4. CASE old # {}
    <2>1. /\ i \in DOMAIN ops /\ ops[i].new /\ ops[i].action = st.intent
          /\ ops[i].order = st.order
      BY <1>4 DEF Created, Existing
    <2>2. ops' = [ops EXCEPT ![i].model = live.model,
                             ![i].appr = IF @ = "absent" THEN approval ELSE @]
      BY <1>4 DEF Created
    <2>3. ops[i] \in Operation
      BY <1>1, <2>1
    <2>4. PICK a \in {"absent", "pending", "approved", "rejected"} :
            a = IF ops[i].appr = "absent" THEN approval ELSE ops[i].appr
      BY <2>3 DEF Operation
    <2>5. /\ DOMAIN ops' = DOMAIN ops
          /\ \A j \in DOMAIN ops \ {i} : ops'[j] = ops[j]
          /\ ops'[i] = [ops[i] EXCEPT !.model = live.model, !.appr = a]
      BY <2>1, <2>2, <2>3, <2>4 DEF Operation
    <2>6. /\ ops'[i] \in Operation /\ ops'[i].new = ops[i].new
          /\ ops'[i].action = ops[i].action /\ ops'[i].order = ops[i].order
          /\ ops'[i].model = live.model
      BY <1>2, <2>3, <2>5 DEF Operation
    <2>7. OpsOK(ops')
      BY <2>1, <2>5, <2>6, OpChanged DEF IInv, Types
    <2> QED
      BY <1>1, <1>3, <2>1, <2>5, <2>6, <2>7
  <1>5. CASE old = {}
    <2> DEFINE op == [action |-> st.intent, order |-> st.order, model |-> live.model,
                      status |-> "pending", appr |-> approval, new |-> TRUE]
    <2>1. Cardinality(DOMAIN ops) = n
      BY <1>1, <1>3, FS_Interval
    <2>2. i = n + 1 /\ i <= MaxOps
      BY <1>5, <2>1 DEF Created
    <2>3. ops' = [j \in DOMAIN ops \cup {i} |-> IF j # i THEN ops[j] ELSE op]
      BY <1>5 DEF Created
    <2>4. op \in Operation
      BY <1>2 DEF Operation
    <2>5. /\ op.new /\ op.action = st.intent /\ op.order = st.order /\ op.model = live.model
      OBVIOUS
    <2> HIDE DEF op
    <2>6. DOMAIN ops' = 1..i /\ ops'[i] = op /\ \A j \in 1..n : ops'[j] = ops[j]
      BY <1>1, <1>3, <2>2, <2>3
    <2>7. \A j \in 1..i : ops'[j] \in Operation
      <3> SUFFICES ASSUME NEW j \in 1..i PROVE ops'[j] \in Operation
        OBVIOUS
      <3>1. j \in 1..n \/ j = i
        BY <1>3, <2>2
      <3> QED
        BY <1>1, <2>4, <2>6, <3>1
    <2>8. OpsOK(ops')
      BY <2>6, <2>7, OpsType
    <2> QED
      BY <1>3, <2>2, <2>5, <2>6, <2>8
  <1> QED
    BY <1>4, <1>5

LEMMA WriteCreatedInv ==
  ASSUME IInv, WriteCreated
  PROVE  IInv'
  <1>1. PICK i \in OpId :
          LET s == [st EXCEPT !.needs = TRUE, !.pending = st.intent, !.op = i,
                              !.model = live.model]
          IN Created(i, "pending") /\ Superstep(s, WriteApprovalCondition(s))
    BY DEF WriteCreated
  <1> DEFINE s == [st EXCEPT !.needs = TRUE, !.pending = st.intent, !.op = i,
                             !.model = live.model]
  <1>2. /\ pc = "write" /\ MayWrite /\ st \in State /\ Kept(st, "write", ops, turn)
        /\ UNCHANGED <<live, role, by, verdict, rag, out, turn>> /\ out = NoOut
    BY AtNode DEF WriteCreated, MayWrite, unchanged_env
  <1>3. /\ OpsOK(ops') /\ i \in DOMAIN ops' /\ i # 0
        /\ ops'[i].new /\ ops'[i].action = st.intent /\ ops'[i].order = st.order
        /\ ops'[i].model = live.model
    BY <1>1, <1>2, CreatedOp
  <1>4. live.model \in Models /\ st.intent \in Actions
    BY <1>2 DEF IInv, Types, Configuration, Kept, Bound
  <1>5. /\ s \in State /\ s.needs /\ s.check = st.check /\ s.final = st.final
        /\ s.intent = st.intent /\ s.op = i /\ s.pending = st.intent /\ s.order = st.order
        /\ s.model = live.model
    BY <1>2, <1>4 DEF State
  <1>6. Created(i, "pending") /\ Superstep(s, WriteApprovalCondition(s))
    BY <1>1
  <1> HIDE DEF s
  <1>7. Superstep(s, "approval")
    BY <1>3, <1>5, <1>6 DEF WriteApprovalCondition
  <1>8. Kept(s, "approval", ops', turn')
    BY <1>2, <1>3, <1>5 DEF Kept, Early, OfEarlier, Sound, LookedUp, Asks, Bound
  <1>9. Types'
    BY <1>2, <1>3 DEF IInv, Types
  <1> QED
    BY <1>2, <1>7, <1>8, <1>9, SuperstepKept

(* A run breaks off, and goes back to its checkpoint.                      *)
LEMMA BrokenOff ==
  ASSUME IInv, st' = saved.state, pc' \in {"idle", "emit"}, UNCHANGED saved, Types',
         turn' = [turn EXCEPT !.aborted = TRUE], out' = NoOut,
         Bound(saved.state, saved.next, ops')
  PROVE  IInv'
  <1>1. turn'.aborted /\ turn'.vetted = turn.vetted
    BY DEF IInv, Types
  <1>2. Kept(saved.state, saved.next, ops', turn')
    BY <1>1 DEF IInv, Kept, Sound
  <1>3. Placed'
    BY <1>1 DEF Placed, RagNode
  <1> QED
    BY <1>2, <1>3 DEF IInv, AnswersThisTurn, NoOut

LEMMA WriteLostInv ==
  ASSUME IInv, WriteLost
  PROVE  IInv'
  <1>1. PICK i \in OpId, approval \in {"absent", "pending"} : Created(i, approval)
    BY DEF WriteLost
  <1>2. /\ pc = "write" /\ MayWrite /\ st = saved.state /\ saved.next = "write" /\ out = NoOut
        /\ UNCHANGED <<saved, by, verdict, rag, out, live, role>>
        /\ st' = saved.state /\ turn' = [turn EXCEPT !.aborted = TRUE] /\ pc' \in {"idle", "emit"}
    BY AtNode DEF WriteLost, MayWrite, Leave
  <1>3. OpsOK(ops')
    BY <1>1, <1>2, CreatedOp
  <1>4. Types'
    BY <1>2, <1>3 DEF IInv, Types
  <1>5. Bound(saved.state, saved.next, ops')
    BY <1>2 DEF IInv, Kept, Bound
  <1> QED
    BY <1>2, <1>4, <1>5, BrokenOff

LEMMA AbortInv ==
  ASSUME IInv, Abort \/ Cancel
  PROVE  IInv'
  <1>1. /\ pc # "idle" /\ pc' \in {"idle", "emit"} /\ st' = saved.state
        /\ turn' = [turn EXCEPT !.aborted = TRUE]
        /\ UNCHANGED <<saved, verdict, ops, live, role>>
        /\ by' \in {by, "nobody"} /\ rag' \in {rag, EmptyRag} /\ out' \in {out, NoOut}
    BY DEF Abort, Cancel, Leave, unchanged_env
  <1>2. out' = NoOut
    BY <1>1 DEF IInv, Placed
  <1>3. EmptyRag \in RagChannels /\ NoOut \in Output
    BY BoundsAssumption DEF EmptyRag, RagChannels, NoOut, Output
  <1>4. turn' \in [aborted: BOOLEAN, vetted: BOOLEAN]
    BY <1>1 DEF IInv, Types
  <1>5. Types'
    BY <1>1, <1>2, <1>3, <1>4 DEF IInv, Types
  <1>6. Bound(saved.state, saved.next, ops')
    BY <1>1 DEF IInv, Kept
  <1> QED
    BY <1>1, <1>2, <1>5, <1>6, BrokenOff
-----------------------------------------------------------------------------
(* The approval node, the execute nodes and the last two.                  *)

LEMMA ApprovalInv ==
  ASSUME IInv, Approval
  PROVE  IInv'
  <1> DEFINE s == [st EXCEPT !.needs = FALSE]
             next == ApprovalResultCondition(verdict, st.pending)
  <1>1. /\ pc = "approval" /\ UNCHANGED <<live, role, by, rag, out, turn>> /\ out = NoOut
        /\ st \in State /\ Kept(st, "approval", ops, turn)
        /\ Superstep(s, next) /\ verdict' = FALSE
    BY AtNode DEF Approval, unchanged_env
  <1>2. next \in {"execute", "error"}
    BY DEF ApprovalResultCondition
  <1>3. /\ s \in State /\ s.check = st.check /\ s.final = st.final /\ s.op = st.op
        /\ s.intent = st.intent /\ s.model = st.model
    BY <1>1 DEF State
  <1> DEFINE i == st.op
  <1>4. i \in DOMAIN ops /\ ops[i].model = st.model /\ ops[i] \in Operation
    BY <1>1 DEF Kept, Bound, IInv, Types, OpsOK
  <1>5. DOMAIN ops' = DOMAIN ops /\ ops'[i].model = ops[i].model /\ OpsOK(ops')
    <2>1. CASE ops[i].appr # "pending"
      BY <2>1 DEF Approval, IInv, Types
    <2>2. CASE ops[i].appr = "pending"
      <3>1. PICK a \in {"approved", "rejected"}, t \in {ops[i].status, "rejected"} :
              ops' = [ops EXCEPT ![i].appr = a, ![i].status = t]
        <4>1. ops' = [ops EXCEPT ![i].appr = IF verdict THEN "approved" ELSE "rejected",
                                 ![i].status = IF verdict THEN @ ELSE "rejected"]
          BY <2>2 DEF Approval
        <4>2. CASE verdict
          <5>1. ops' = [ops EXCEPT ![i].appr = "approved", ![i].status = ops[i].status]
            BY <1>4, <4>1, <4>2 DEF Operation
          <5> QED
            BY <5>1
        <4>3. CASE ~verdict
          <5>1. ops' = [ops EXCEPT ![i].appr = "rejected", ![i].status = "rejected"]
            BY <1>4, <4>1, <4>3 DEF Operation
          <5> QED
            BY <5>1
        <4> QED
          BY <4>2, <4>3
      <3>2. /\ DOMAIN ops' = DOMAIN ops
            /\ \A j \in DOMAIN ops \ {i} : ops'[j] = ops[j]
            /\ ops'[i] = [ops[i] EXCEPT !.appr = a, !.status = t]
        BY <1>4, <3>1 DEF Operation
      <3>3. ops'[i] \in Operation /\ ops'[i].model = ops[i].model
        BY <1>4, <3>2 DEF Operation
      <3> QED
        BY <1>4, <3>2, <3>3, OpChanged DEF IInv, Types
    <2> QED
      BY <2>1, <2>2
  <1>6. Types'
    BY <1>1, <1>5 DEF IInv, Types
  <1> HIDE DEF s, next
  <1>7. Kept(s, next, ops', turn')
    BY <1>1, <1>2, <1>3, <1>4, <1>5 DEF Kept, Early, Sound, LookedUp, Asks, Bound
  <1> QED
    BY <1>1, <1>6, <1>7, SuperstepKept

Ended(s, x, p, f) == [s EXCEPT !.final = x, !.needs = FALSE, !.pending = p, !.falls = f]
LEMMA EndedState ==
  ASSUME NEW s \in State, NEW x \in Text, NEW p \in Actions \cup {"none"}, NEW f \in BOOLEAN,
         NEW e, e = Ended(s, x, p, f)
  PROVE  e \in State /\ e.check = s.check /\ e.final = x /\ e.intent = s.intent
  <1>1. PICK c : c = [s EXCEPT !.final = x, !.needs = FALSE]
    OBVIOUS
  <1>2. c \in State
    BY <1>1 DEF State
  <1>3. PICK d : d = [c EXCEPT !.pending = p]
    OBVIOUS
  <1>4. d \in State
    BY <1>2, <1>3 DEF State
  <1>5. e = [d EXCEPT !.falls = f]
    BY <1>1, <1>3 DEF Ended
  <1>6. e \in State
    BY <1>4, <1>5 DEF State
  <1>7. e.check = s.check /\ e.final = x /\ e.intent = s.intent
    BY DEF State, Ended
  <1> QED
    BY <1>6, <1>7

LEMMA ExecuteInv ==
  ASSUME IInv, Execute
  PROVE  IInv'
  <1> DEFINE i == st.op
  <1>1. /\ pc = "execute" /\ UNCHANGED <<live, role, by, verdict, rag, out, turn>> /\ out = NoOut
        /\ st \in State /\ Kept(st, "execute", ops, turn)
    BY AtNode DEF Execute, unchanged_env
  <1>2. i \in DOMAIN ops /\ ops[i] \in Operation
    BY <1>1 DEF Kept, Bound, IInv, Types, OpsOK
  <1>3. PICK f \in BOOLEAN : Superstep(Closed(st, f), "respond")
    <2>1. st.falls \in BOOLEAN
      BY <1>1 DEF State
    <2>2. \A t : (IF t = "failed" THEN st.falls ELSE t = "human_handoff") \in BOOLEAN
      BY <2>1
    <2> QED
      BY <2>2 DEF Execute
  <1>4. OpsOK(ops')
    <2>1. CASE UNCHANGED ops
      BY <2>1 DEF IInv, Types
    <2>2. CASE \E t \in ExecuteOperation : ops' = [ops EXCEPT ![i].status = t]
      <3>1. PICK t \in ExecuteOperation : ops' = [ops EXCEPT ![i].status = t]
        BY <2>2
      <3>2. DOMAIN ops' = DOMAIN ops /\ \A j \in DOMAIN ops \ {i} : ops'[j] = ops[j]
        BY <3>1
      <3>3. ops'[i] \in Operation
        BY <1>2, <3>1 DEF ExecuteOperation, Operation
      <3> QED
        BY <1>2, <3>2, <3>3, OpChanged DEF IInv, Types
    <2> QED
      BY <2>1, <2>2 DEF Execute
  <1> DEFINE s == Closed(st, f)
  <1>5. /\ s \in State /\ s.check = st.check /\ s.final = "execution" /\ s.intent = st.intent
    <2>1. PICK x \in Text, p \in Actions \cup {"none"} : x = "execution" /\ p = "none"
      OBVIOUS
    <2>2. s = Ended(st, x, p, f)
      BY <2>1 DEF Closed, Ended
    <2> HIDE DEF s, Text
    <2>3. st \in State
      BY <1>1
    <2>4. s \in State /\ s.check = st.check /\ s.final = x /\ s.intent = st.intent
      BY <2>2, <2>3, EndedState
    <2> QED
      BY <2>1, <2>4
  <1>6. Superstep(s, "respond")
    BY <1>3
  <1> HIDE DEF s
  <1>7. Kept(s, "respond", ops', turn')
    BY <1>1, <1>5 DEF Kept, Early, Sound, LookedUp, Asks, Bound
  <1>8. Types'
    BY <1>1, <1>4 DEF IInv, Types
  <1> QED
    BY <1>1, <1>6, <1>7, <1>8, SuperstepKept

LEMMA HandleErrorInv ==
  ASSUME IInv, HandleError
  PROVE  IInv'
  <1> DEFINE s == [st EXCEPT !.final = "handover", !.needs = FALSE, !.pending = "none",
                             !.falls = TRUE]
  <1>1. /\ pc = "error" /\ UNCHANGED <<live, role, by, verdict, rag, ops, out, turn>>
        /\ st \in State /\ Kept(st, "error", ops, turn) /\ Superstep(s, "respond")
    BY AtNode DEF HandleError, unchanged_env
  <1>2. s \in State /\ s.check = st.check /\ s.final = "handover" /\ s.intent = st.intent
    <2>1. PICK x \in Text, p \in Actions \cup {"none"}, f \in BOOLEAN :
            x = "handover" /\ p = "none" /\ f = TRUE
      OBVIOUS
    <2>2. s = Ended(st, x, p, f)
      BY <2>1 DEF Ended
    <2> HIDE DEF s, Text
    <2>3. st \in State
      BY <1>1
    <2>4. s \in State /\ s.check = st.check /\ s.final = x /\ s.intent = st.intent
      BY <2>2, <2>3, EndedState
    <2> QED
      BY <2>1, <2>4
  <1> HIDE DEF s
  <1>3. Kept(s, "respond", ops, turn)
    BY <1>1, <1>2 DEF Kept, Early, Sound, LookedUp, Asks, Bound
  <1> QED
    BY <1>1, <1>3, NodeKept

(* What generate_response says is checked where it is about policy, and    *)
(* looked up where the turn asks about an order.                           *)
LEMMA FinalTextIs ==
  ASSUME NEW s \in State, NEW t, Sound(s, t), LookedUp(s, "respond")
  PROVE  /\ FinalText(s) \in Text
         /\ FinalText(s) = "policy" => t.vetted
         /\ Asks(s) /\ s.op = 0 => FinalText(s) = "lookup"
  <1>1. CASE s.intent = "policy" /\ s.draft # "none"
    <2>1. /\ FinalText(s) \in {"policy", "refusal"}
          /\ FinalText(s) = "policy" => s.check = "faithful"
      BY <1>1 DEF FinalText
    <2> QED
      BY <1>1, <2>1 DEF Sound, Asks
  <1>2. CASE ~(s.intent = "policy" /\ s.draft # "none") /\ s.op # 0 /\ s.final # "none"
    <2>1. FinalText(s) = s.final
      BY <1>2 DEF FinalText
    <2> QED
      BY <1>2, <2>1 DEF Sound, State
  <1>3. CASE ~(s.intent = "policy" /\ s.draft # "none") /\ ~(s.op # 0 /\ s.final # "none")
    <2>1. FinalText(s) = CASE s.tools = "new" -> "lookup" [] s.tools = "old" -> "earlier"
                           [] OTHER -> "plain"
      BY <1>3 DEF FinalText
    <2>2. /\ FinalText(s) \in {"lookup", "earlier", "plain"}
          /\ s.tools = "new" => FinalText(s) = "lookup"
      BY <2>1
    <2> QED
      BY <2>2 DEF LookedUp
  <1> QED
    BY <1>1, <1>2, <1>3

LEMMA GenerateResponseInv ==
  ASSUME IInv, GenerateResponse
  PROVE  IInv'
  <1> DEFINE s == [st EXCEPT !.final = FinalText(st)]
  <1>1. /\ pc = "respond" /\ UNCHANGED <<live, role, by, verdict, rag, ops, out, turn>>
        /\ st \in State /\ Kept(st, "respond", ops, turn) /\ Superstep(s, "end")
    BY AtNode DEF GenerateResponse, unchanged_env
  <1>2. /\ FinalText(st) \in Text
        /\ FinalText(st) = "policy" => turn.vetted
        /\ Asks(st) /\ st.op = 0 => FinalText(st) = "lookup"
    BY <1>1, FinalTextIs DEF Kept
  <1>3. /\ s \in State /\ s.check = st.check /\ s.final = FinalText(st) /\ s.intent = st.intent
        /\ s.op = st.op
    BY <1>1, <1>2 DEF State
  <1> HIDE DEF s
  <1>4. Kept(s, "end", ops, turn)
    BY <1>1, <1>2, <1>3 DEF Kept, Early, Sound, LookedUp, Asks, Bound
  <1> QED
    BY <1>1, <1>4, NodeKept
-----------------------------------------------------------------------------
(* The RAG sub-graph.                                                      *)

(* What its nodes start from.                                              *)
LEMMA AtRagNode ==
  ASSUME IInv, pc \in RagNode
  PROVE  /\ saved.next = "rag" /\ st \in State /\ out = NoOut
         /\ st.final \in {"none", "earlier"} /\ st.check # "faithful" /\ ~Asks(st)
         /\ Kept(saved.state, "rag", ops, turn) /\ rag \in RagChannels
         /\ turn \in [aborted: BOOLEAN, vetted: BOOLEAN]
  BY DEF IInv, Placed, InRag, Types

(* A step within it; what it has vetted counts only from its check on.     *)
LEMMA RagStepKept ==
  ASSUME IInv, pc \in RagNode, NEW s \in State, NEW next \in RagNode, RagStep(s, next),
         s.final \in {"none", "earlier"}, s.check # "faithful", ~Asks(s),
         UNCHANGED <<live, role, by, verdict, ops, out>>,
         rag' \in RagChannels, turn' \in [aborted: BOOLEAN, vetted: BOOLEAN],
         next \in {"generate", "check"} => Relevance(rag'.hits) >= RelevanceThreshold
  PROVE  IInv'
  <1>1. Types'
    BY DEF IInv, Types
  <1>2. UNCHANGED saved /\ st' = s /\ pc' = next
    BY DEF RagStep
  <1>3. saved.next = "rag" /\ out' = NoOut /\ Kept(saved.state, "rag", ops, turn)
    BY AtRagNode
  <1>4. Kept(saved.state, "rag", ops', turn')
    BY <1>3 DEF Kept, Early, OfEarlier, Sound
  <1>5. Relevance(rag.hits)' = Relevance(rag'.hits) /\ RelevanceThreshold' = RelevanceThreshold
    BY DEF Relevance, RelevanceThreshold
  <1>6. InRag'
    BY <1>2, <1>3, <1>5 DEF InRag, Asks
  <1>7. Placed'
    BY <1>2, <1>3, <1>6 DEF Placed
  <1> QED
    BY <1>1, <1>2, <1>3, <1>4, <1>7 DEF IInv, AnswersThisTurn, NoOut

LEMMA RagOverKept ==
  ASSUME IInv, pc \in RagNode, NEW s \in State, RagOver(s),
         s.final \in {"none", "earlier"}, s.check = "faithful" => turn'.vetted, ~Asks(s),
         UNCHANGED <<live, role, by, verdict, ops, out>>,
         turn' \in [aborted: BOOLEAN, vetted: BOOLEAN]
  PROVE  IInv'
  <1>1. PICK next \in {"error", "respond"} : Superstep(s, next)
    BY DEF RagOver
  <1>2. Types'
    BY BoundsAssumption DEF RagOver, EmptyRag, RagChannels, IInv, Types
  <1>3. out' = NoOut
    BY AtRagNode
  <1>4. Kept(s, next, ops', turn')
    BY <1>1 DEF Kept, Early, Sound, LookedUp, Bound
  <1> QED
    BY <1>1, <1>2, <1>3, <1>4, SuperstepKept

Draft == {"none", "empty", "text"}
Drafted(s, x, f) == [s EXCEPT !.draft = x, !.check = "none", !.falls = f]
LEMMA DraftedState ==
  ASSUME NEW s \in State, NEW x \in Draft, NEW f \in BOOLEAN,
         NEW e, e = Drafted(s, x, f)
  PROVE  e \in State /\ e.final = s.final /\ e.check = "none" /\ e.intent = s.intent
  <1>1. PICK d : d = [s EXCEPT !.draft = x, !.check = "none"]
    OBVIOUS
  <1>2. d \in State
    BY <1>1 DEF State, Draft
  <1>3. e = [d EXCEPT !.falls = f]
    BY <1>1 DEF Drafted
  <1>4. e \in State
    BY <1>2, <1>3 DEF State
  <1>5. e.final = s.final /\ e.check = "none" /\ e.intent = s.intent
    BY DEF State, Drafted
  <1> QED
    BY <1>4, <1>5

LEMMA SearchInv ==
  ASSUME IInv, InitializeRag \/ RewriteQuery \/ HybridSearch
  PROVE  IInv'
  <1>1. /\ pc \in RagNode /\ UNCHANGED <<live, role, by, verdict, ops, out, turn>>
        /\ st \in State /\ st.final \in {"none", "earlier"} /\ st.check # "faithful" /\ ~Asks(st)
        /\ rag \in RagChannels /\ turn' \in [aborted: BOOLEAN, vetted: BOOLEAN]
    BY AtRagNode DEF InitializeRag, RewriteQuery, HybridSearch, unchanged_env
  <1>2. CASE InitializeRag
    <2> DEFINE s == [st EXCEPT !.draft = "none", !.check = "none", !.falls = FALSE]
    <2>1. /\ s \in State /\ s.final = st.final /\ s.check = "none" /\ s.intent = st.intent
      <3>1. PICK x \in Draft, f \in BOOLEAN : s = Drafted(st, x, f)
        BY DEF Drafted, Draft
      <3> HIDE DEF s
      <3> QED
        BY <1>1, <3>1, DraftedState
    <2>2. RagStep(s, "rewrite") /\ rag' \in RagChannels
      BY <1>2, BoundsAssumption DEF InitializeRag, EmptyRag, RagChannels
    <2> HIDE DEF s
    <2> QED
      BY <1>1, <2>1, <2>2, RagStepKept DEF Asks
  <1>3. ASSUME NEW f \in BOOLEAN, NEW next \in {"search", "grade"},
               RagStep([st EXCEPT !.falls = f], next), rag' \in RagChannels
        PROVE  IInv'
    <2> DEFINE s == [st EXCEPT !.falls = f]
    <2>1. s \in State /\ s.final = st.final /\ s.check = st.check /\ s.intent = st.intent
      BY <1>1 DEF State
    <2>2. RagStep(s, next)
      BY <1>3
    <2> HIDE DEF s
    <2> QED
      BY <1>1, <1>3, <2>1, <2>2, RagStepKept DEF Asks
  <1>4. st.falls \in BOOLEAN
    BY <1>1 DEF State
  <1>5. CASE RewriteQuery
    <2>1. PICK reply \in Chat : RagStep([st EXCEPT !.falls = @ \/ reply # "answer"], "search")
      BY <1>5 DEF RewriteQuery
    <2>2. PICK f \in BOOLEAN : f = (st.falls \/ reply # "answer")
      OBVIOUS
    <2>3. RagStep([st EXCEPT !.falls = f], "search") /\ UNCHANGED rag
      BY <1>1, <1>5, <2>1, <2>2 DEF State, RewriteQuery
    <2> QED
      BY <1>1, <1>3, <2>3
  <1>6. CASE HybridSearch
    <2>1. PICK found \in SearchPolicy :
            /\ rag' = [rag EXCEPT !.hits = IF found.available THEN found.hits ELSE 0]
            /\ RagStep([st EXCEPT !.falls = @ \/ ~found.available], "grade")
      BY <1>6 DEF HybridSearch
    <2>2. PICK f \in BOOLEAN : f = (st.falls \/ ~found.available)
      OBVIOUS
    <2>3. RagStep([st EXCEPT !.falls = f], "grade")
      BY <1>1, <2>1, <2>2 DEF State
    <2>4. PICK h \in Hits \cup {0} : h = IF found.available THEN found.hits ELSE 0
      BY DEF SearchPolicy
    <2>5. rag' = [rag EXCEPT !.hits = h]
      BY <2>1, <2>4
    <2>6. rag' \in RagChannels
      BY <1>1, <2>5 DEF RagChannels
    <2> QED
      BY <1>3, <2>3, <2>6
  <1> QED
    BY <1>2, <1>5, <1>6

(* A document that is not relevant enough is searched for again, a bounded *)
(* number of times.                                                        *)
LEMMA GradeInv ==
  ASSUME IInv, GradeRelevance
  PROVE  IInv'
  <1> DEFINE relevant == Relevance(rag.hits) >= RelevanceThreshold
  <1>1. /\ pc \in RagNode /\ UNCHANGED <<live, role, by, verdict, ops, out, turn>>
        /\ st \in State /\ st.final \in {"none", "earlier"} /\ st.check # "faithful" /\ ~Asks(st)
        /\ rag \in RagChannels /\ turn' \in [aborted: BOOLEAN, vetted: BOOLEAN]
    BY AtRagNode DEF GradeRelevance, unchanged_env
  <1>2. CASE RagOver([st EXCEPT !.falls = TRUE])
    <2> DEFINE s == [st EXCEPT !.falls = TRUE]
    <2>1. s \in State /\ s.final = st.final /\ s.check = st.check /\ s.intent = st.intent
      BY <1>1 DEF State
    <2>2. RagOver(s)
      BY <1>2
    <2> HIDE DEF s
    <2> QED
      BY <1>1, <2>1, <2>2, RagOverKept DEF Asks
  <1>3. CASE RagStep(st, "generate") /\ UNCHANGED rag /\ relevant
    BY <1>1, <1>3, RagStepKept
  <1>4. CASE /\ RagStep(st, "rewrite") /\ rag.attempts < RagMaxRetries
             /\ rag' = [rag EXCEPT !.attempts = @ + 1]
    <2>1. rag' \in RagChannels
      BY <1>1, <1>4, BoundsAssumption DEF RagChannels
    <2> QED
      BY <1>1, <1>4, <2>1, RagStepKept
  <1> QED
    BY <1>2, <1>3, <1>4 DEF GradeRelevance

LEMMA GenerateAnswerInv ==
  ASSUME IInv, GenerateAnswer
  PROVE  IInv'
  <1>1. /\ pc = "generate" /\ UNCHANGED <<live, role, by, verdict, rag, ops, out>>
        /\ st \in State /\ st.final \in {"none", "earlier"} /\ ~Asks(st) /\ rag \in RagChannels
        /\ turn' = [turn EXCEPT !.vetted = FALSE]
        /\ turn' \in [aborted: BOOLEAN, vetted: BOOLEAN]
    BY AtRagNode DEF GenerateAnswer, unchanged_env
  <1>2. Relevance(rag.hits) >= RelevanceThreshold
    BY <1>1 DEF IInv, Placed, InRag
  <1>3. PICK x \in Draft, f \in BOOLEAN :
          RagStep([st EXCEPT !.draft = x, !.check = "none", !.falls = f], "check")
    <2>1. PICK answer \in GenerateRagAnswer :
            RagStep([st EXCEPT !.draft = IF answer = "unavailable" THEN "none" ELSE answer,
                               !.check = "none", !.falls = answer = "unavailable"], "check")
      BY DEF GenerateAnswer
    <2>2. PICK x \in Draft, f \in BOOLEAN :
            x = (IF answer = "unavailable" THEN "none" ELSE answer) /\ f = (answer = "unavailable")
      BY DEF GenerateRagAnswer, Draft
    <2> QED
      BY <2>1, <2>2
  <1> DEFINE s == [st EXCEPT !.draft = x, !.check = "none", !.falls = f]
  <1>4. s \in State /\ s.final = st.final /\ s.check = "none" /\ s.intent = st.intent
    <2>1. s = Drafted(st, x, f)
      BY DEF Drafted
    <2> HIDE DEF s
    <2> QED
      BY <1>1, <2>1, DraftedState
  <1>5. RagStep(s, "check")
    BY <1>3
  <1> HIDE DEF s
  <1> QED
    BY <1>1, <1>2, <1>4, <1>5, RagStepKept DEF Asks

(* Only here does a draft become one that may be answered.                 *)
LEMMA CheckDraftInv ==
  ASSUME IInv, CheckDraft
  PROVE  IInv'
  <1>1. /\ pc = "check" /\ UNCHANGED <<live, role, by, verdict, ops, out>>
        /\ st \in State /\ st.final \in {"none", "earlier"} /\ ~Asks(st) /\ rag \in RagChannels
        /\ turn \in [aborted: BOOLEAN, vetted: BOOLEAN]
    BY AtRagNode DEF CheckDraft, unchanged_env
  <1>2. Relevance(rag.hits) >= RelevanceThreshold
    BY <1>1 DEF IInv, Placed, InRag
  <1>3. ASSUME NEW x \in {"faithful", "unfaithful"}, NEW f \in BOOLEAN
        PROVE  LET s == [st EXCEPT !.check = x, !.falls = f] IN
               s \in State /\ s.final = st.final /\ s.check = x /\ s.intent = st.intent
    BY <1>1 DEF State
  <1>4. CASE RagOver([st EXCEPT !.check = "unfaithful", !.falls = TRUE]) /\ UNCHANGED turn
    <2> DEFINE s == [st EXCEPT !.check = "unfaithful", !.falls = TRUE]
    <2>1. s \in State /\ s.final = st.final /\ s.check = "unfaithful" /\ s.intent = st.intent
      BY <1>3
    <2>2. RagOver(s)
      BY <1>4
    <2> HIDE DEF s
    <2> QED
      BY <1>1, <1>4, <2>1, <2>2, RagOverKept DEF Asks
  <1>5. CASE /\ RagOver([st EXCEPT !.check = "faithful", !.falls = FALSE])
             /\ turn' = [turn EXCEPT !.vetted = Relevance(rag.hits) >= RelevanceThreshold]
    <2> DEFINE s == [st EXCEPT !.check = "faithful", !.falls = FALSE]
    <2>1. s \in State /\ s.final = st.final /\ s.intent = st.intent
      BY <1>3
    <2>2. RagOver(s)
      BY <1>5
    <2>3. turn' = [turn EXCEPT !.vetted = TRUE]
      BY <1>2, <1>5
    <2>4. turn' \in [aborted: BOOLEAN, vetted: BOOLEAN] /\ turn'.vetted
      BY <1>1, <2>3
    <2> HIDE DEF s
    <2> QED
      BY <1>1, <2>1, <2>2, <2>4, RagOverKept DEF Asks
  <1>6. CASE /\ rag.regenerations < HallucinationMaxRetries
             /\ rag' = [rag EXCEPT !.regenerations = @ + 1]
             /\ RagStep([st EXCEPT !.check = "unfaithful", !.falls = FALSE], "generate")
             /\ UNCHANGED turn
    <2> DEFINE s == [st EXCEPT !.check = "unfaithful", !.falls = FALSE]
    <2>1. s \in State /\ s.final = st.final /\ s.check = "unfaithful" /\ s.intent = st.intent
      BY <1>3
    <2>2. RagStep(s, "generate")
      BY <1>6
    <2>3. rag' \in RagChannels /\ rag'.hits = rag.hits
      BY <1>1, <1>6, BoundsAssumption DEF RagChannels
    <2> HIDE DEF s
    <2> QED
      BY <1>1, <1>2, <1>6, <2>1, <2>2, <2>3, RagStepKept DEF Asks
  <1> QED
    BY <1>4, <1>5, <1>6 DEF CheckDraft
-----------------------------------------------------------------------------
(* Between the runs.                                                       *)

LEMMA EmitInv ==
  ASSUME IInv, Emit
  PROVE  IInv'
  <1> DEFINE s == saved.state
  <1>1. /\ pc = "emit" /\ pc' = "idle" /\ by' = "nobody"
        /\ UNCHANGED <<st, saved, verdict, rag, ops, turn, live, role>>
    BY DEF Emit, unchanged_env
  <1>2. /\ s \in State /\ st = s /\ LookedUp(s, saved.next) /\ Bound(s, saved.next, ops)
        /\ ~turn.aborted => saved.next \in {"end", "approval"}
    BY <1>1 DEF IInv, Placed, Kept, RagNode
  <1>3. out' \in Output /\ (out'.event = "done" => out'.text = s.final)
    <2>1. CASE s.pending # "none" /\ s.needs
      <3>1. out' = [event |-> "approval_required", text |-> "none"]
        BY <2>1 DEF Emit
      <3> QED
        BY <3>1 DEF Output
    <2>2. CASE ~(s.pending # "none" /\ s.needs)
      <3>1. PICK e \in {"error", "done"} : e = IF s.falls THEN "error" ELSE "done"
        OBVIOUS
      <3>2. out' = [event |-> e, text |-> s.final]
        BY <2>2, <3>1 DEF Emit
      <3>3. s.final \in Text
        BY <1>2 DEF State
      <3> QED
        BY <3>2, <3>3 DEF Output
    <2> QED
      BY <2>1, <2>2
  <1>4. Types'
    BY <1>1, <1>3 DEF IInv, Types
  <1>5. Kept(saved.state, saved.next, ops, turn)'
    BY <1>1 DEF IInv
  <1>6. Placed'
    BY <1>1, <1>2 DEF Placed, RagNode
  <1>7. AnswersThisTurn'
    <2> SUFFICES ASSUME out'.event = "done", Asks(s), ~turn.aborted, s.op = 0
                 PROVE  out'.text = "lookup"
      BY <1>1, <1>2 DEF AnswersThisTurn, Asks
    <2>1. saved.next = "end"
      BY <1>2 DEF LookedUp
    <2> QED
      BY <1>2, <1>3, <2>1 DEF LookedUp
  <1> QED
    BY <1>1, <1>4, <1>5, <1>6, <1>7 DEF IInv

LEMMA DecideInv ==
  ASSUME IInv, NEW i \in DOMAIN ops, NEW approved \in BOOLEAN, Decide(i, approved)
  PROVE  IInv'
  <1>1. pc = "idle" /\ UNCHANGED <<st, saved, rag, live, role>> /\ verdict' = approved
    BY DEF Decide, unchanged_env
  <1>2. /\ st = saved.state /\ DOMAIN saved = {"state", "next"}
        /\ Kept(saved.state, saved.next, ops, turn) /\ ops[i] \in Operation
        /\ turn \in [aborted: BOOLEAN, vetted: BOOLEAN]
    BY <1>1 DEF IInv, Placed, RagNode, Types, OpsOK
  <1>3. PICK a \in {"approved", "rejected"},
             t \in {ops[i].status, "rejected", "human_handoff"} :
          ops' = [ops EXCEPT ![i].appr = a, ![i].status = t]
    <2>1. PICK status \in {"rejected", "human_handoff"} :
            ops' = [ops EXCEPT ![i].appr = IF approved THEN "approved" ELSE "rejected",
                               ![i].status = IF approved THEN @ ELSE status]
      BY DEF Decide
    <2>2. CASE approved
      <3>1. ops' = [ops EXCEPT ![i].appr = "approved", ![i].status = ops[i].status]
        BY <1>2, <2>1, <2>2 DEF Operation
      <3> QED
        BY <3>1
    <2>3. CASE ~approved
      <3>1. ops' = [ops EXCEPT ![i].appr = "rejected", ![i].status = status]
        BY <1>2, <2>1, <2>3 DEF Operation
      <3> QED
        BY <3>1
    <2> QED
      BY <2>2, <2>3
  <1>4. /\ DOMAIN ops' = DOMAIN ops
        /\ \A j \in DOMAIN ops \ {i} : ops'[j] = ops[j]
        /\ ops'[i] = [ops[i] EXCEPT !.appr = a, !.status = t]
    BY <1>2, <1>3 DEF Operation
  <1>5. /\ ops'[i] \in Operation /\ ops'[i].new = ops[i].new /\ ops'[i].model = ops[i].model
        /\ ops'[i].action = ops[i].action /\ ops'[i].order = ops[i].order
    BY <1>2, <1>4 DEF Operation
  <1>6. OpsOK(ops')
    BY <1>4, <1>5, OpChanged DEF IInv, Types
  <1>7. /\ \A j \in DOMAIN ops : /\ ops'[j].new = ops[j].new /\ ops'[j].model = ops[j].model
                                 /\ ops'[j].action = ops[j].action /\ ops'[j].order = ops[j].order
    BY <1>4, <1>5
  <1>8. Bound(saved.state, saved.next, ops')
    BY <1>2, <1>4, <1>7 DEF Kept, Bound
  <1>9. CASE saved.next = "end"
    <2>1. UNCHANGED <<pc, by, out, turn>>
      BY <1>9 DEF Decide
    <2>2. Types'
      BY <1>1, <1>6, <2>1 DEF IInv, Types
    <2>3. Kept(saved.state, saved.next, ops', turn')
      BY <1>2, <1>8, <2>1 DEF Kept
    <2>4. Placed'
      BY <1>1, <1>2, <2>1 DEF Placed, RagNode
    <2>5. AnswersThisTurn'
      BY <1>1, <2>1 DEF IInv, AnswersThisTurn
    <2> QED
      BY <1>1, <1>2, <2>2, <2>3, <2>4, <2>5 DEF IInv
  <1>10. CASE saved.next # "end"
    <2>1. /\ pc' = IF saved.next = "rag" THEN "initialize" ELSE saved.next
          /\ by' = "staff" /\ out' = NoOut /\ turn' = [NewTurn EXCEPT !.vetted = turn.vetted]
      BY <1>10 DEF Decide
    <2>2. turn' \in [aborted: BOOLEAN, vetted: BOOLEAN] /\ turn'.vetted = turn.vetted
      BY <1>2, <2>1 DEF NewTurn
    <2>3. Types'
      BY <1>1, <1>6, <2>1, <2>2 DEF IInv, Types, NoOut, Output
    <2>4. Kept(saved.state, saved.next, ops', turn')
      BY <1>2, <1>8, <2>2 DEF Kept, Sound
    <2>5. CASE saved.next = "rag"
      <3>1. pc' = "initialize"
        BY <2>1, <2>5
      <3>2. InRag'
        BY <1>1, <1>2, <2>5, <3>1 DEF InRag, Kept, Early, OfEarlier, LookedUp, Asks
      <3>3. Placed'
        BY <1>1, <2>1, <3>1, <3>2 DEF Placed
      <3> QED
        BY <1>1, <1>2, <2>1, <2>3, <2>4, <3>3 DEF IInv, AnswersThisTurn, NoOut
    <2>6. CASE saved.next # "rag"
      <3>1. pc' = saved.next /\ saved.next \in Node \ {"rag"}
        BY <1>2, <1>10, <2>1, <2>6 DEF Kept
      <3>2. Placed'
        BY <1>1, <1>2, <2>1, <3>1 DEF Placed
      <3> QED
        BY <1>1, <1>2, <2>1, <2>3, <2>4, <3>2 DEF IInv, AnswersThisTurn, NoOut
    <2> QED
      BY <2>5, <2>6
  <1> QED
    BY <1>9, <1>10

LEMMA RedeployInv ==
  ASSUME IInv, Redeploy
  PROVE  IInv'
  <1>1. live' \in Configuration
    <2>1. PICK d \in Deployments : live' = [d EXCEPT !.restricted = live.restricted]
      BY DEF Redeploy
    <2>2. d \in Configuration /\ live.restricted \in BOOLEAN
      BY ModelsAssumption DEF Configuration, IInv, Types
    <2> QED
      BY <2>1, <2>2 DEF Configuration
  <1>2. UNCHANGED <<st, pc, saved, by, verdict, rag, ops, role, out, turn>>
    BY DEF Redeploy
  <1>3. Types'
    BY <1>1, <1>2 DEF IInv, Types
  <1>4. Kept(saved.state, saved.next, ops, turn)' /\ DOMAIN saved' = {"state", "next"}
    BY <1>2 DEF IInv
  <1>5. Placed' /\ AnswersThisTurn'
    BY <1>2 DEF IInv, Placed, InRag, AnswersThisTurn, Relevance, RelevanceThreshold
  <1> QED
    BY <1>3, <1>4, <1>5 DEF IInv

LEMMA NextKept == IInv /\ [Next]_vars => IInv'
  <1> SUFFICES ASSUME IInv, [Next]_vars PROVE IInv'
    OBVIOUS
  <1>1. CASE NodeStep
    BY <1>1, ClassifyInv, RouteInv, LookupInv, WriteRefusedInv, WriteCreatedInv, ApprovalInv,
       ExecuteInv, SearchInv, GradeInv, GenerateAnswerInv, CheckDraftInv, HandleErrorInv,
       GenerateResponseInv, EmitInv
    DEF NodeStep
  <1>2. CASE UNCHANGED vars
    <2>1. UNCHANGED <<st, pc, saved, by, verdict, rag, ops, live, role, out, turn>>
      BY <1>2 DEF vars
    <2>2. Types'
      BY <2>1 DEF IInv, Types
    <2>3. Kept(saved.state, saved.next, ops, turn)' /\ DOMAIN saved' = {"state", "next"}
      BY <2>1 DEF IInv
    <2>4. Placed' /\ AnswersThisTurn'
      BY <2>1 DEF IInv, Placed, InRag, AnswersThisTurn, Relevance, RelevanceThreshold
    <2> QED
      BY <2>2, <2>3, <2>4 DEF IInv
  <1> QED
    BY <1>1, <1>2, StartTurnInv, WriteLostInv, AbortInv, DecideInv, RedeployInv DEF Next

LEMMA Inductive == Spec => []IInv
  BY InitKept, NextKept, PTL DEF Spec

-----------------------------------------------------------------------------
(* The theorems.                                                           *)

(* Whatever the model, the order data and the retrieval answer and in      *)
(* whatever order turns, decisions, failures and deployments come, the     *)
(* state a conversation is left in is one the next turn can read.          *)
THEOREM ConversationTypes == Spec => []TypeOK
  <1>1. IInv => TypeOK
    <2> SUFFICES ASSUME IInv PROVE TypeOK
      OBVIOUS
    <2>1. saved.state \in State /\ saved.next \in Node \cup {"end"}
      BY DEF IInv, Kept
    <2>2. st \in State /\ pc \in {"idle", "emit"} \cup (Node \ {"rag"}) \cup RagNode
      BY <2>1 DEF IInv, Placed, InRag
    <2>3. /\ by \in {"nobody", "chat", "staff"} /\ verdict \in BOOLEAN /\ role \in Roles
          /\ rag.hits \in Hits \cup {0} /\ rag.attempts \in 0..RagMaxRetries
          /\ rag.regenerations \in 0..HallucinationMaxRetries
          /\ \E n \in OpId : DOMAIN ops = 1..n
          /\ live.model \in Models /\ out.text \in Text
          /\ turn \in [aborted: BOOLEAN, vetted: BOOLEAN]
      BY DEF IInv, Types, RagChannels, OpsOK, Configuration, Output
    <2> QED
      BY <2>1, <2>2, <2>3 DEF TypeOK
  <1> QED
    BY <1>1, Inductive, PTL

(* Approvals that earlier turns left in the state never make a             *)
(* conversation wait: it waits with the operation its latest request       *)
(* created, of the kind and for the order that was asked for.              *)
THEOREM HoldIsFresh == Spec => []FreshHold
  <1>1. IInv => FreshHold
    BY DEF IInv, Kept, Bound, FreshHold
  <1> QED
    BY <1>1, Inductive, PTL

(* However often a query is rewritten, a draft regenerated, a run lost and *)
(* resumed: a policy answer that is given was drafted in this turn from    *)
(* relevant documents and found faithful.                                  *)
THEOREM OnlyFaithful == Spec => []FaithfulOnly
  <1>1. IInv => FaithfulOnly
    <2> SUFFICES ASSUME IInv, st.final = "policy" PROVE turn.vetted
      BY DEF FaithfulOnly
    <2>1. st = saved.state
      BY DEF IInv, Placed, InRag
    <2> QED
      BY <2>1 DEF IInv, Kept, Sound
  <1> QED
    BY <1>1, Inductive, PTL

(* A question about an order is never answered with what an earlier turn   *)
(* looked up or said.                                                      *)
THEOREM AnswersAreOfThisTurn == Spec => []AnswersThisTurn
  <1>1. IInv => AnswersThisTurn
    BY DEF IInv
  <1> QED
    BY <1>1, Inductive, PTL

(* A model whose record has the flag of the write cases kept to the schema *)
(* in each of them.                                                        *)
LEMMA PassedWrites ==
  ASSUME NEW m \in Models, Records[m]["write_op"], NEW c \in WriteOpCases
  PROVE  StrictValidate(Answers[m][c])
  <1>1. c \in AllCases /\ c.kind = "write_op"
    BY DEF AllCases, WriteOpCases, EvalCase
  <1>2. Records[m] = Evaluate(Answers[m])
    BY DEF Records, EmitReport
  <1>3. "write_op" \in {k.kind : k \in AllCases}
    BY <1>1
  <1>4. RunCase(c, Answers[m][c])
    <2>1. Evaluate(Answers[m])["write_op"]
            = \A k \in AllCases : k.kind = "write_op" => RunCase(k, Answers[m][k])
      BY <1>3 DEF Evaluate
    <2> QED
      BY <1>1, <1>2, <2>1
  <1> QED
    BY <1>1, <1>4 DEF RunCase

(* No deployment while an approval waits lets a model write that is not    *)
(* listed and evaluated where the environment is restricted: the engine is *)
(* reached only with the model that drafted the operation, and only if its *)
(* evaluation broke no schema of a write.                                  *)
THEOREM OnlyEvaluated == Spec => EvaluatedOnly
  <1>1. ASSUME IInv, [Next]_vars, NEW i \in DOMAIN ops, pc = "execute",
               ops'[i].status # ops[i].status, live.restricted
        PROVE  /\ ops[i].model \in live.base \cap live.evaluated
               /\ \A c \in WriteOpCases : StrictValidate(Answers[ops[i].model][c])
    <2>1. Execute
      <3>1. ops' # ops
        BY <1>1
      <3> QED
        BY <1>1, <3>1 DEF Next, NodeStep, StartTurn, Classify, Route, QueryOrder, TrackShipping,
           EscalateTicket, WriteRefused, WriteCreated, MayWrite, Approval, InitializeRag,
           RewriteQuery, HybridSearch, GradeRelevance, GenerateAnswer, CheckDraft, HandleError,
           GenerateResponse, Emit, WriteLost, Abort, Cancel, Redeploy, Decide, vars
    <2>2. /\ MayExecute(ops[st.op])
          /\ \E s \in ExecuteOperation : ops' = [ops EXCEPT ![st.op].status = s]
      <3>1. ops' # ops
        BY <1>1
      <3> QED
        BY <2>1, <3>1 DEF Execute
    <2>3. i = st.op
      BY <1>1, <2>2
    <2>4. ops[i].model = st.model
      BY <1>1, <2>3, AtNode DEF Kept, Bound
    <2>5. ops[i].model \in WriteModels(live)
      BY <2>2, <2>4 DEF MayExecute, IsWriteCapable
    <2>6. WriteModels(live) \subseteq live.base \cap PassedEval(live)
      BY <1>1 DEF WriteModels
    <2>7. live.evaluated \subseteq Models
      BY <1>1 DEF IInv, Types, Configuration
    <2>8. /\ ops[i].model \in live.base \cap live.evaluated /\ ops[i].model \in Models
          /\ Records[ops[i].model]["write_op"]
      BY <2>5, <2>6, <2>7 DEF PassedEval
    <2> QED
      BY <2>8, PassedWrites
  <1>2. IInv /\ [Next]_vars =>
          [\A i \in DOMAIN ops :
             pc = "execute" /\ ops'[i].status # ops[i].status /\ live.restricted =>
               /\ ops[i].model \in live.base \cap live.evaluated
               /\ \A c \in WriteOpCases : StrictValidate(Answers[ops[i].model][c])]_vars
    BY <1>1
  <1> QED
    BY <1>2, Inductive, PTL DEF Spec, EvaluatedOnly

-----------------------------------------------------------------------------
(* CircuitBreaker.                                                         *)

USE DEF CircuitState, Endpoint, Call, NoCall

(* Counting up to a bound stays below it and never falls.                  *)
LEMMA UptoBounded ==
  ASSUME NEW bound \in Nat, NEW n \in 0..bound
  PROVE  /\ Upto(n + 1, bound) \in 0..bound
         /\ Upto(n + 1, bound) >= n
         /\ n < bound => Upto(n + 1, bound) = n + 1
  BY DEF Upto

-----------------------------------------------------------------------------
(* The inductive invariant: the fields agree, and an open circuit was      *)
(* opened no earlier than the last call was let through.                   *)
OpenedSinceAdmit == state = "open" => elapsed <= sinceAdmit
BreakerInv == BreakerTypeOK /\ OpenedSinceAdmit

LEMMA BreakerInitInv == BreakerInit => BreakerInv
  <1> SUFFICES ASSUME BreakerInit PROVE BreakerInv
    OBVIOUS
  <1>1. state \in CircuitState /\ endpoint \in Endpoint /\ OpenedSinceAdmit
    BY DEF BreakerInit, OpenedSinceAdmit
  <1>2. /\ failures \in 0..Threshold /\ elapsed \in Int /\ elapsed <= Cooldown
        /\ sinceAdmit \in 0..Cooldown /\ setBacks \in 0..MaxSetBacks
    BY ThresholdAssumption, CooldownAssumption, SetBackAssumption DEF BreakerInit
  <1>3. probing \in BOOLEAN /\ (probing <=> state = "half_open")
    BY DEF BreakerInit
  <1>4. call \in [Callers -> Call]
    BY DEF BreakerInit
  <1>5. state = "closed" <=> failures < Threshold
    BY ThresholdAssumption DEF BreakerInit
  <1> QED
    BY <1>1, <1>2, <1>3, <1>4, <1>5 DEF BreakerInv, BreakerTypeOK

(* allow() in closed and in open.                                          *)
LEMMA AllowInv ==
  ASSUME BreakerInv, NEW c \in Callers, Allow(c)
  PROVE  BreakerInv'
  <1>1. call' \in [Callers -> Call]
    <2>1. (endpoint = "down") \in BOOLEAN
      OBVIOUS
    <2>2. PICK probe \in BOOLEAN : Send(c, probe)
      BY DEF Allow, AllowClosed, AllowOpen
    <2>3. [flying |-> TRUE, probe |-> probe, doomed |-> endpoint = "down"] \in Call
      BY <2>1 DEF Call
    <2> QED
      BY <2>2, <2>3 DEF Send, BreakerInv, BreakerTypeOK
  <1>2. /\ sinceAdmit' \in 0..Cooldown /\ sinceAdmit' = 0
        /\ UNCHANGED <<endpoint, failures, elapsed, setBacks>>
    BY CooldownAssumption DEF Allow, AllowClosed, AllowOpen, Send, breaker
  <1>3. state' \in {"closed", "half_open"} /\ (state' = "closed" <=> state = "closed")
    BY DEF Allow, AllowClosed, AllowOpen, breaker
  <1>4. probing' \in BOOLEAN /\ (probing' <=> state' = "half_open")
    <2>1. \/ state = "closed" /\ state' = state /\ probing' = probing
          \/ state' = "half_open" /\ probing' = TRUE
      BY DEF Allow, AllowClosed, AllowOpen, breaker
    <2>2. CASE state' = "half_open" /\ probing' = TRUE
      BY <2>2
    <2>3. CASE state = "closed" /\ state' = state /\ probing' = probing
      BY <2>3 DEF BreakerInv, BreakerTypeOK
    <2> QED
      BY <2>1, <2>2, <2>3
  <1>5. OpenedSinceAdmit'
    BY <1>3 DEF OpenedSinceAdmit
  <1>6. state' = "closed" <=> failures' < Threshold
    BY <1>2, <1>3 DEF BreakerInv, BreakerTypeOK
  <1>7. /\ state' \in CircuitState /\ failures' \in 0..Threshold
        /\ elapsed' \in Int /\ elapsed' <= Cooldown /\ endpoint' \in Endpoint
        /\ setBacks' \in 0..MaxSetBacks
    BY <1>2, <1>3 DEF BreakerInv, BreakerTypeOK
  <1> QED
    BY <1>1, <1>2, <1>4, <1>5, <1>6, <1>7 DEF BreakerInv, BreakerTypeOK

(* on_success, on_failure and the answer that reports neither.             *)
LEMMA ReturnInv ==
  ASSUME BreakerInv, NEW c \in Callers, Return(c)
  PROVE  BreakerInv'
  <1>1. CASE Succeed(c)
    <2>1. call' \in [Callers -> Call]
      BY <1>1 DEF Succeed, Land, BreakerInv, BreakerTypeOK
    <2>2. /\ state' = "closed" /\ failures' = 0
          /\ UNCHANGED <<elapsed, endpoint, sinceAdmit, setBacks>>
      BY <1>1 DEF Succeed, OnSuccess, Land
    <2>3. probing' = FALSE
      BY <1>1 DEF Succeed, OnSuccess
    <2>4. probing' \in BOOLEAN /\ (probing' <=> state' = "half_open")
      BY <2>2, <2>3
    <2>5. failures' \in 0..Threshold /\ failures' < Threshold
      BY <2>2, ThresholdAssumption
    <2> QED
      BY <2>1, <2>2, <2>4, <2>5 DEF BreakerInv, BreakerTypeOK, OpenedSinceAdmit
  <1>2. CASE Fail(c)
    <2> DEFINE n == Upto(failures + 1, Threshold)
    <2>1. /\ n \in 0..Threshold /\ n >= failures
          /\ failures < Threshold => n = failures + 1
      BY UptoBounded, ThresholdAssumption DEF BreakerInv, BreakerTypeOK
    <2>2. call' \in [Callers -> Call]
      BY <1>2 DEF Fail, Land, BreakerInv, BreakerTypeOK
    <2>3. UNCHANGED <<endpoint, sinceAdmit, setBacks>> /\ failures' = n
      BY <1>2 DEF Fail, Land, OnFailure
    <2> HIDE DEF n
    <2>4. CASE state = "half_open"
      <3>1. state' = "open" /\ elapsed' = 0 /\ probing' = FALSE
        BY <1>2, <2>4 DEF Fail, OnFailure
      <3>2. ~(failures' < Threshold)
        BY <2>1, <2>3, <2>4, ThresholdAssumption DEF BreakerInv, BreakerTypeOK
      <3>3. probing' \in BOOLEAN /\ (probing' <=> state' = "half_open")
        BY <3>1
      <3> QED
        BY <3>1, <3>2, <3>3, <2>1, <2>2, <2>3, CooldownAssumption
        DEF BreakerInv, BreakerTypeOK, OpenedSinceAdmit
    <2>5. CASE state # "half_open" /\ n >= Threshold
      <3>1. state' = "open" /\ elapsed' = 0 /\ UNCHANGED probing
        BY <1>2, <2>5 DEF Fail, OnFailure, n
      <3> QED
        BY <3>1, <2>1, <2>2, <2>3, <2>5, ThresholdAssumption, CooldownAssumption
        DEF BreakerInv, BreakerTypeOK, OpenedSinceAdmit
    <2>6. CASE state # "half_open" /\ ~(n >= Threshold)
      <3>1. UNCHANGED <<state, elapsed, probing>>
        BY <1>2, <2>6 DEF Fail, OnFailure, n
      <3>2. state = "closed"
        BY <2>1, <2>6, ThresholdAssumption DEF BreakerInv, BreakerTypeOK
      <3> QED
        BY <3>1, <3>2, <2>1, <2>2, <2>3, <2>6, ThresholdAssumption
        DEF BreakerInv, BreakerTypeOK, OpenedSinceAdmit
    <2> QED
      BY <2>4, <2>5, <2>6
  <1>3. CASE OutputError(c)
    BY <1>3 DEF OutputError, Land, breaker, BreakerInv, BreakerTypeOK, OpenedSinceAdmit
  <1> QED
    BY <1>1, <1>2, <1>3 DEF Return

(* Time passes for both clocks alike.                                      *)
LEMMA TickInv ==
  ASSUME BreakerInv, Tick
  PROVE  BreakerInv'
  <1>1. Cooldown \in Nat /\ elapsed \in Int /\ elapsed <= Cooldown /\ sinceAdmit \in 0..Cooldown
    BY CooldownAssumption DEF BreakerInv, BreakerTypeOK
  <1>2. elapsed' \in Int /\ elapsed' <= Cooldown /\ sinceAdmit' \in 0..Cooldown
    BY <1>1 DEF Tick, Upto
  <1>3. elapsed <= sinceAdmit => elapsed' <= sinceAdmit'
    BY <1>1 DEF Tick, Upto
  <1> QED
    BY <1>2, <1>3 DEF Tick, BreakerInv, BreakerTypeOK, OpenedSinceAdmit

(* A clock set back makes the circuit look opened later, never earlier.    *)
LEMMA SetBackInv ==
  ASSUME BreakerInv, SetBack
  PROVE  BreakerInv'
  <1>1. PICK back \in 1..2 * Cooldown : elapsed' = elapsed - back
    BY DEF SetBack
  <1>2. elapsed' \in Int /\ elapsed' < elapsed
    BY <1>1, CooldownAssumption DEF BreakerInv, BreakerTypeOK
  <1>3. setBacks' \in 0..MaxSetBacks
    BY SetBackAssumption DEF SetBack, BreakerInv, BreakerTypeOK
  <1> QED
    BY <1>2, <1>3, CooldownAssumption DEF SetBack, BreakerInv, BreakerTypeOK, OpenedSinceAdmit

LEMMA BreakerNextInv == BreakerInv /\ [BreakerNext]_breakerVars => BreakerInv'
  <1> SUFFICES ASSUME BreakerInv, [BreakerNext]_breakerVars PROVE BreakerInv'
    OBVIOUS
  <1>1. CASE \E c \in Callers : Allow(c) \/ Return(c)
    BY <1>1, AllowInv, ReturnInv
  <1>2. CASE Tick \/ SetBack
    BY <1>2, TickInv, SetBackInv
  <1>3. ASSUME NEW e \in Endpoint, TurnsInto(e) PROVE BreakerInv'
    <2>1. call' \in [Callers -> Call]
      BY <1>3 DEF TurnsInto, BreakerInv, BreakerTypeOK
    <2> QED
      BY <1>3, <2>1 DEF TurnsInto, breaker, BreakerInv, BreakerTypeOK, OpenedSinceAdmit
  <1>4. CASE UNCHANGED breakerVars
    BY <1>4 DEF breakerVars, breaker, BreakerInv, BreakerTypeOK, OpenedSinceAdmit
  <1> QED
    BY <1>1, <1>2, <1>3, <1>4 DEF BreakerNext

LEMMA BreakerInvAlways == BreakerSpec => []BreakerInv
  BY BreakerInitInv, BreakerNextInv, PTL DEF BreakerSpec

(* Whatever answers arrive in whatever order, the fields of the breaker    *)
(* agree: half open exactly with a probe in flight, closed exactly below   *)
(* the threshold.                                                          *)
THEOREM FieldsAgree == BreakerSpec => []BreakerTypeOK
  <1>1. BreakerInv => BreakerTypeOK
    BY DEF BreakerInv
  <1> QED
    BY <1>1, BreakerInvAlways, PTL

-----------------------------------------------------------------------------
(* A call is only ever let through by allow().                             *)
LEMMA AdmitsByAllow ==
  ASSUME BreakerInv, [BreakerNext]_breakerVars, NEW c \in Callers, Admits(c)
  PROVE  \E d \in Callers : AllowClosed(d) \/ AllowOpen(d)
  <1>1. CASE \E d \in Callers : Return(d)
    <2>1. PICK d \in Callers : Return(d)
      BY <1>1
    <2>2. call' = [call EXCEPT ![d] = NoCall]
      BY <2>1 DEF Return, Succeed, Fail, OutputError, Land
    <2>3. ~call'[c].flying
      BY <2>2 DEF Admits, BreakerInv, BreakerTypeOK
    <2> QED
      BY <2>3 DEF Admits
  <1>2. ASSUME NEW e \in Endpoint, TurnsInto(e) PROVE FALSE
    BY <1>2 DEF TurnsInto, Admits, BreakerInv, BreakerTypeOK
  <1>3. CASE Tick \/ SetBack \/ UNCHANGED breakerVars
    BY <1>3 DEF Tick, SetBack, breakerVars, Admits
  <1> QED
    BY <1>1, <1>2, <1>3 DEF BreakerNext, Allow

(* Between two calls that reach the endpoint while the breaker is not      *)
(* closed lies a whole cooldown: no storm of probes, for any number of     *)
(* callers and late answers.                                               *)
THEOREM NoProbeStorm == BreakerSpec => ProbeSpacing
  <1>1. BreakerInv /\ [BreakerNext]_breakerVars =>
          [\A c \in Callers : Admits(c) /\ state # "closed" => sinceAdmit = Cooldown]_breakerVars
    <2> SUFFICES ASSUME BreakerInv, [BreakerNext]_breakerVars, NEW c \in Callers, Admits(c),
                        state # "closed"
                 PROVE  sinceAdmit = Cooldown
      OBVIOUS
    <2>1. PICK d \in Callers : AllowClosed(d) \/ AllowOpen(d)
      BY AdmitsByAllow
    <2>2. AllowOpen(d)
      BY <2>1 DEF AllowClosed
    <2> QED
      BY <2>2, CooldownAssumption DEF AllowOpen, BreakerInv, BreakerTypeOK, OpenedSinceAdmit
  <1> QED
    BY <1>1, BreakerInvAlways, PTL DEF BreakerSpec, ProbeSpacing
=============================================================================
