------------------------------ MODULE MCAgentTurn ------------------------------
(* Model values for the run of AgentTurn: an order of the user, one of     *)
(* another member and one of no or another tenant, and deployments of    *)
(* another model and of one that failed, each with a report of its own.    *)
EXTENDS AgentTurn

CONSTANTS mine, other, foreign, m1, m2, m3

MCOrders == {mine, other, foreign}
MCOurs == {mine, other}
MCMine == {mine}
MCModels == {m1, m2, m3}

Good ==
  [c \in AllCases |->
     IF c.kind = "endpoint" THEN "unavailable"
     ELSE IF c.expects = "nothing" THEN "invalid" ELSE "right"]
Sloppy == [Good EXCEPT ![EvalCase("write_op", "return_address")] = "invalid"]
MCAnswers == [m \in MCModels |-> IF m = m3 THEN Sloppy ELSE Good]

Plain == [model |-> m1, base |-> {m1}, evaluated |-> {m1}, restricted |-> TRUE]
MCDeployments ==
  {Plain,
   [Plain EXCEPT !.model = m2, !.base = {m1, m2}, !.evaluated = {m2}],
   [Plain EXCEPT !.model = m3, !.base = {m1, m3}, !.evaluated = {m3}]}
=============================================================================
