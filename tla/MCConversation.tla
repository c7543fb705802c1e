----------------------------- MODULE MCConversation -----------------------------
(* Model values for the run of ChatStream and CircuitBreaker: the stream a *)
(* conversation is read from and the breaker before the model that answers *)
(* in it.  A behaviour is about one of the two.                            *)
EXTENDS ChatStream, CircuitBreaker

CONSTANTS r1, r2, c1, c2, c3

VARIABLE side  \* rigid: which of the two modules moves

TwoReaders == {r1, r2}
ThreeCallers == {c1, c2, c3}

ConversationInit ==
  /\ Init /\ BreakerInit
  /\ side \in {"stream", "breaker"}

ConversationNext ==
  \/ side = "stream" /\ Next /\ UNCHANGED <<breakerVars, side>>
  \/ side = "breaker" /\ BreakerNext /\ UNCHANGED <<vars, side>>

(* Fairness and BreakerFairness, each while its side moves.                *)
ConversationFairness ==
  /\ WF_vars(side = "stream" /\ RunStep)
  /\ \A r \in Readers :
       /\ WF_vars(side = "stream" /\ ServeStep(r))
       /\ WF_vars(side = "stream" /\ ReadStep(r))
  /\ \A c \in Callers : WF_breakerVars(side = "breaker" /\ Return(c))
  /\ WF_breakerVars(side = "breaker" /\ Tick)
  /\ WF_breakerVars(side = "breaker" /\ \E c \in Callers : Allow(c))

ConversationSpec ==
  ConversationInit /\ [][ConversationNext]_<<vars, breakerVars, side>> /\ ConversationFairness
=============================================================================
