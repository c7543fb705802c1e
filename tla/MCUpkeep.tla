------------------------------- MODULE MCUpkeep -------------------------------
(* Model values for the run of Deployment and SessionRetention: a database *)
(* that is migrated and what is kept in it that is cleaned up.  A behaviour *)
(* is about one of the two.  The configurations are those of the compose   *)
(* files, and each of them with one mistake.                               *)
EXTENDS Deployment, SessionRetention, TLC

CONSTANTS acme, demo, ann, dan, r1, r2, o1, o2, c1, c2, k1, k2

VARIABLE side  \* rigid: which of the two modules moves

MCReal == <<acme>>
MCDemo == <<demo>>
MCMembers ==
  [t \in {acme, demo} |->
     <<IF t = acme THEN [user |-> ann, role |-> "admin"] ELSE [user |-> dan, role |-> "customer"]>>]

Production ==
  [env |-> "production", seed |-> FALSE, auth |-> "real", secret |-> TRUE, strict |-> TRUE,
   allowed |-> TRUE, posture |-> {"approval", "audit", "review"}, execution |-> "shadow",
   provider |-> "mock", gateway |-> FALSE, storage |-> "postgres", data |-> "postgres",
   url |-> "app_runtime", migrator |-> "owner", on_startup |-> FALSE, passwords |-> TRUE]
Development ==
  [Production EXCEPT !.env = "development", !.seed = TRUE, !.auth = "mock", !.secret = FALSE,
     !.strict = FALSE, !.allowed = FALSE, !.data = "mock", !.url = "owner",
     !.migrator = "none", !.on_startup = TRUE, !.passwords = FALSE]
MCConfigs ==
  {Production, Development,
   [Production EXCEPT !.seed = TRUE],
   [Production EXCEPT !.auth = "mock"],
   [Production EXCEPT !.allowed = FALSE],
   [Production EXCEPT !.execution = "live"],
   [Production EXCEPT !.storage = "memory"],
   [Production EXCEPT !.data = "mock"],
   [Production EXCEPT !.on_startup = TRUE],
   [Development EXCEPT !.on_startup = FALSE, !.seed = FALSE]}

TwoReplicas == {r1, r2}
TwoOperators == {o1, o2}
TwoChats == {c1, c2}
TwoCleaners == {k1, k2}
Symmetry ==
  Permutations(TwoReplicas) \cup Permutations(TwoOperators) \cup
  Permutations(TwoChats) \cup Permutations(TwoCleaners)

UpkeepInit ==
  /\ Init /\ RetentionInit
  /\ \/ side = "deployment" /\ ~saver /\ ~sees
     \/ side = "retention" /\ env = "production" /\ db = Empty

UpkeepNext ==
  \/ side = "deployment" /\ Next /\ UNCHANGED <<retentionVars, side>>
  \/ side = "retention" /\ RetentionNext /\ UNCHANGED <<vars, side>>

UpkeepSpec == UpkeepInit /\ [][UpkeepNext]_<<vars, retentionVars, side>>
=============================================================================
