---------------------------- MODULE MCSandboxGateway ----------------------------
(* Model values for the run of SandboxGateway.                             *)
EXTENDS SandboxGateway, TLC

CONSTANTS c1, c2, t1, t2, k1

TwoCallers == {c1, c2}
TwoTenants == {t1, t2}
OneKey == {k1}
Plain == [faults |-> {}, authorized |-> TRUE]
MCSetups == {Plain, [Plain EXCEPT !.faults = {"http_503"}], [Plain EXCEPT !.authorized = FALSE]}
Symmetry == Permutations(TwoCallers) \cup Permutations(TwoTenants)
=============================================================================
