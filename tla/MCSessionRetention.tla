-------------------------- MODULE MCSessionRetention --------------------------
(* The run that asks whether a failed clean-up is taken up again.          *)
EXTENDS SessionRetention

(* Somebody calls the clean-up again and again, and a call that has begun  *)
(* goes on.  Nothing in the code promises as much.                         *)
CalledAgain ==
  /\ RetentionSpec
  /\ \A k \in Cleaners : WF_retentionVars(CleanerStep(k))
  /\ WF_retentionVars(\E k \in Cleaners : Claim(k))
=============================================================================
