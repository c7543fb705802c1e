--------------------------------- MODULE MCStores --------------------------------
(* Model values for the run of the two modules about the stores: what is   *)
(* done on one of them by threads that race, and what all three do with    *)
(* the same calls.  A behaviour is about one of the two.                   *)
EXTENDS ExecutionStores, StoreBackends, TLC

CONSTANTS n1, n2, t1, t2

VARIABLE side  \* rigid: which of the two modules moves

TwoNonces == {n1, n2}
MCWritten == {"submitted", "failed_uncertain"}
TwoTenants == {t1, t2}
Symmetry == Permutations(TwoTenants)

(* The other side stays at one of its initial states.                      *)
StoresInit ==
  /\ Init /\ BackendInit
  /\ \/ side = "races" /\ area = "cases"
     \/ side = "calls" /\ backend = "memory" /\ ~seeded

StoresNext ==
  \/ side = "races" /\ Next /\ UNCHANGED <<backendVars, side>>
  \/ side = "calls" /\ BackendNext /\ UNCHANGED <<vars, side>>

StoresSpec == StoresInit /\ [][StoresNext]_<<vars, backendVars, side>>
=============================================================================
