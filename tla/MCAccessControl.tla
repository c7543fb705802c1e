---------------------------- MODULE MCAccessControl ----------------------------
(* Model values for the runs of AccessControl and of LoginLimit, which the *)
(* same login route asks: two members of one tenant and one of another,    *)
(* two processes.  A behaviour is about one of the two modules.            *)
EXTENDS AccessControl, LoginLimit, TLC

CONSTANTS ta, tb, a1, a2, b1, s1, r1, r2, u1, u2, i1

VARIABLE side  \* rigid: which of the two modules moves

MCTenants == {ta, tb}
MCAccounts == {a1, a2, b1}
MCHome == (a1 :> ta) @@ (a2 :> ta) @@ (b1 :> tb)
MCThreads == {s1}
MCOwner == s1 :> a1
MCReplicas == {r1, r2}
TwoUsers == {u1, u2}
OneAddress == {i1}

Real == [backend |-> "real", restricted |-> TRUE, kid |-> "derived", launch |-> {},
         hash |-> "argon2id", credentials |-> [a \in MCAccounts |-> "argon2id"]]
MCConfigurations ==
  {Real,
   [Real EXCEPT !.credentials = (a1 :> "sha256") @@ (a2 :> "argon2id") @@ (b1 :> "bcrypt")],
   [Real EXCEPT !.backend = "mock", !.restricted = FALSE, !.launch = {ta}]}
(* The key of the tokens has a name.                                       *)
NamedKeys == {[Real EXCEPT !.kid = kid] : kid \in {"renamed", "kept"}}
MCMemberships ==
  {(a1 :> "customer") @@ (a2 :> role) @@ (b1 :> "admin") : role \in {"customer", "admin"}}
Symmetry == Permutations(MCReplicas) \cup Permutations(TwoUsers)

(* The other side stays at one of its initial states.                      *)
AccessInit ==
  /\ Init /\ LoginInit
  /\ \/ side = "requests" /\ ~shared
     \/ side = "logins" /\ settings = Real /\ member[a2] = "admin"

AccessNext ==
  \/ side = "requests" /\ Next /\ UNCHANGED <<loginVars, side>>
  \/ side = "logins" /\ LoginNext /\ UNCHANGED <<vars, side>>

AccessSpec == AccessInit /\ [][AccessNext]_<<vars, loginVars, side>>

RequestsInit == AccessInit /\ side = "requests"
RequestsSpec == RequestsInit /\ [][AccessNext]_<<vars, loginVars, side>>
=============================================================================
