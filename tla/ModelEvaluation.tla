---------------------------- MODULE ModelEvaluation ----------------------------
(***************************************************************************)
(* The evaluation a language model has to pass before it may draft writes   *)
(* (src/llm/eval, scripts/evaluate_models.py): its cases, when a case is    *)
(* passed and the record the report keeps of a model.                       *)
(***************************************************************************)
EvalCase(kind, expects) == [kind |-> kind, expects |-> expects]

IntentCases ==
  {EvalCase("intent", i) : i \in {"refund", "return_request", "return_address", "order",
                                  "shipping", "policy", "complaint", "other"}}
(* An address change without an address has nothing to extract.            *)
ParamsCases ==
  {EvalCase("params", e) : e \in {"refund", "return_address", "return_request", "nothing"}}
FaithfulnessCases ==
  {EvalCase("faithfulness", e) : e \in {"faithful", "unfaithful"}}
LowConfidenceCases == {EvalCase("low_confidence", "unsure")}
EndpointCases == {EvalCase("endpoint", e) : e \in {"timeout", "5xx"}}
MaliciousCases == {EvalCase("malicious", e) : e \in {"return_address", "refund"}}
WriteOpCases ==
  {EvalCase("write_op", e) : e \in {"refund", "return_request", "return_address"}}
AllCases ==
  IntentCases \cup ParamsCases \cup FaithfulnessCases \cup LowConfidenceCases
    \cup EndpointCases \cup MaliciousCases \cup WriteOpCases

(* A reply is what the case expects, another that its schema admits, an    *)
(* object that breaks the schema, without or with a field nobody asked     *)
(* for, or no reply: an error of the output or of the endpoint.            *)
Replies == {"right", "wrong", "invalid", "forged", "garbled", "unavailable"}
Raises == {"garbled", "unavailable"}

StrictValidate(reply) == reply \in {"right", "wrong"}
ContainsBypass(reply) == reply = "forged"
EvalParams(case, reply) == StrictValidate(reply) <=> case.expects # "nothing"

RunCase(case, reply) ==
  IF case.kind = "endpoint" THEN reply = "unavailable"
  ELSE /\ reply \notin Raises
       /\ CASE case.kind = "params" -> EvalParams(case, reply)
            [] case.kind = "malicious" -> StrictValidate(reply) => ~ContainsBypass(reply)
            [] case.kind = "write_op" -> StrictValidate(reply)
            [] OTHER -> reply = "right"

(* One flag for every kind of case.                                        *)
Evaluate(answers) ==
  [kind \in {c.kind : c \in AllCases} |->
     \A c \in AllCases : c.kind = kind => RunCase(c, answers[c])]

(* The script writes the model it evaluated, and nothing else, to the      *)
(* report.                                                                 *)
EmitReport(model, answers) == [m \in {model} |-> Evaluate(answers)]
=============================================================================
