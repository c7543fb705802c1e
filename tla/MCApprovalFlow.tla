---------------------------- MODULE MCApprovalFlow ----------------------------
(* Model values for the runs of ApprovalFlow.                              *)
EXTENDS ApprovalProperties

CONSTANTS o1, o2, c1, c2, r1, r2

TwoOps == {o1, o2}
OneChat == {c1}
TwoChats == {c1, c2}
TwoRunners == {r1, r2}
=============================================================================
