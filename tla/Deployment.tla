------------------------------- MODULE Deployment -------------------------------
(***************************************************************************)
(* How the system comes up on one database: the one-shot migration         *)
(* (infrastructure/migrate_cli.py, migrations.py), the API processes that   *)
(* start with whatever configuration an operator gave them (config.py,      *)
(* core/launch_gate.py, main.py create_app), the demo seed of main.py and   *)
(* the script that creates the first tenants                                *)
(* (scripts/create_bootstrapped_tenants.py).                                *)
(*                                                                         *)
(* Every transaction is a step.  Nobody waits for anybody: processes start *)
(* in any order, several at once, and end anywhere.                        *)
(***************************************************************************)
EXTENDS Naturals, Sequences, SequencesExt

CONSTANTS
  Replicas,      \* API processes
  Operators,     \* who may run the bootstrap script
  Configs,       \* configurations the processes are started with
  Members,       \* members of the tenants below, with the role they are given
  Real, Demo,    \* sequences of tenants: of the operators, of seed_default
  Later,         \* tables an earlier version of the schema did not have
  MaxFaults      \* bound: processes and transactions that fail

VARIABLES
  env,      \* the environment the database belongs to
  db,       \* its tables, row level security, roles and grants
  rows,     \* the tenants and members in it
  cli,      \* the migration
  api,      \* the API processes
  script,   \* the runs of the bootstrap script
  faults

vars == <<env, db, rows, cli, api, script, faults>>

-----------------------------------------------------------------------------
(* The schema.                                                             *)

Business ==
  {"tenants", "memberships", "sessions", "operations", "approvals", "executions"}
Journal == {"streams", "stream_events", "audit"}
Data == {"orders", "shipping_events", "policy_documents", "checkpoint_thread_scopes"}
Checkpoint == {"checkpoint_migrations", "checkpoints", "checkpoint_blobs", "checkpoint_writes"}
Tables == Business \cup Journal \cup Data \cup Checkpoint
Scoped == (Business \cup Journal \cup Data) \ {"tenants"}
ScopedCheckpoint == Checkpoint \ {"checkpoint_migrations"}

Roles == {"app_runtime", "backup_role"}

(* Mutant: without ALTER DEFAULT PRIVILEGES.                               *)
WithTables_NoDefaults(d, new) == [d EXCEPT !.tables = @ \cup new]

(* CREATE TABLE IF NOT EXISTS; what the backup role may read of a table    *)
(* that comes later is settled by its default privileges.                  *)
WithTables(d, new) ==
  [d EXCEPT !.tables = @ \cup new,
            !.granted["backup_role"] = IF d.defaults THEN @ \cup new ELSE @]

(* Policies are dropped and created anew within one transaction.           *)
ForceRls(d, tables) == [d EXCEPT !.forced = @ \cup tables]

BusinessSchema(d) == ForceRls(WithTables(d, Business \cup Journal \cup Data), Scoped)
CheckpointSchema(d) == WithTables(d, Checkpoint)
CheckpointRls(d) == ForceRls(d, ScopedCheckpoint)

(* CREATE ROLE unless it exists, a password if one is given, and grants on *)
(* the tables there are.                                                   *)
Role(d, role, password) ==
  [d EXCEPT !.roles = @ \cup {role},
            !.login = IF password THEN @ \cup {role} ELSE @,
            !.granted[role] = @ \cup d.tables]
RuntimeRole(d, password) == Role(d, "app_runtime", password)
BackupRole(d, password) == [Role(d, "backup_role", password) EXCEPT !.defaults = TRUE]

(* Mutant: the runtime role before the policies of the checkpoint tables.  *)
Steps_RolesFirst == <<"business", "checkpoint", "runtime", "backup", "checkpoint_rls">>

InitializeAll == <<"business", "checkpoint", "checkpoint_rls">>
Steps == InitializeAll \o <<"runtime", "backup">>

Apply(d, step, password) ==
  CASE step = "business" -> BusinessSchema(d)
    [] step = "checkpoint" -> CheckpointSchema(d)
    [] step = "checkpoint_rls" -> CheckpointRls(d)
    [] step = "runtime" -> RuntimeRole(d, password)
    [] step = "backup" -> BackupRole(d, password)

(* Mutant: CREATE ROLE without asking whether it exists.                   *)
Applicable_NewRole(d, step) ==
  step \in {"runtime", "backup"} =>
    (IF step = "runtime" THEN "app_runtime" ELSE "backup_role") \notin d.roles

(* Every statement may be run again.                                       *)
Applicable(d, step) == step = "checkpoint_rls" => Checkpoint \subseteq d.tables

Empty ==
  [tables |-> {}, forced |-> {}, roles |-> {}, login |-> {},
   granted |-> [r \in Roles |-> {}], defaults |-> FALSE]

(* A database of an earlier version, migrated to its end, with or without  *)
(* the backup role.                                                        *)
Earlier(backup) ==
  LET old == Tables \ Later
      present == IF backup THEN Roles ELSE {"app_runtime"}
  IN [tables |-> old, forced |-> (Scoped \cup ScopedCheckpoint) \ Later,
      roles |-> present, login |-> present,
      granted |-> [r \in Roles |-> IF r \in present THEN old ELSE {}],
      defaults |-> backup]

SchemaComplete(d) == d.tables = Tables /\ Scoped \cup ScopedCheckpoint \subseteq d.forced
Complete(d) ==
  /\ SchemaComplete(d)
  /\ d.roles = Roles
  /\ \A r \in Roles : d.granted[r] = Tables

-----------------------------------------------------------------------------
(* Settings and the gates that read them.                                  *)

Environments == {"development", "test", "preview", "production"}
Restricted(e) == e \in {"preview", "production"}
AuthBackends == {"mock", "real"}
Posture == {"approval", "audit", "review"}
StorageBackends == {"memory", "postgres"}
Urls == {"none", "owner", "app_runtime"}
DataBackends == {"mock", "postgres"}
ExecutionModes == {"shadow", "live"}
Providers == {"mock", "sandbox_http"}
Settings ==
  [env: Environments, seed: BOOLEAN, auth: AuthBackends, secret: BOOLEAN,
   strict: BOOLEAN, allowed: BOOLEAN, posture: SUBSET Posture,
   storage: StorageBackends, url: Urls, migrator: Urls \ {"app_runtime"},
   on_startup: BOOLEAN, passwords: BOOLEAN, data: DataBackends,
   execution: ExecutionModes, provider: Providers, gateway: BOOLEAN]

(* The processes of a restricted environment connect as app_runtime.       *)
ASSUME ConfigsAssumption ==
  /\ Configs \subseteq Settings
  /\ \A s \in Configs : Restricted(s.env) => s.url # "owner"
ASSUME TablesAssumption == Later \subseteq Data \cup {"executions"}
(* Every tenant comes with the list of its members.                        *)
ASSUME ListsAssumption ==
  /\ Real \in Seq(ToSet(Real)) /\ Demo \in Seq(ToSet(Demo))
  /\ \A t \in ToSet(Real) \cup ToSet(Demo) : Members[t] \in Seq(ToSet(Members[t]))
ASSUME BoundsAssumption == MaxFaults \in Nat

DemoSeedGate(s) ==
  IF Restricted(s.env) THEN IF s.seed THEN "refuse" ELSE "skip"
  ELSE IF s.seed /\ s.env \in {"development", "test"} THEN "seed" ELSE "skip"

FailClosedAuth(s) == Restricted(s.env) => s.auth = "real" /\ s.secret

(* Mutant: the store is not looked at.                                     *)
VerifyLaunchGate_AnyStorage(s) ==
  /\ Restricted(s.env) => s.allowed /\ s.data = "postgres"
  /\ s.execution = "live" => s.provider = "sandbox_http" /\ s.gateway
  /\ s.posture = Posture

VerifyLaunchGate(s) ==
  /\ Restricted(s.env) => s.allowed /\ s.data = "postgres"
  /\ s.execution = "live" => s.provider = "sandbox_http" /\ s.gateway
  /\ s.posture = Posture
  /\ s.storage = "postgres"
EnforceStrict(s) == s.strict => VerifyLaunchGate(s)

BuildProvider(s) == s.provider = "sandbox_http" => s.gateway
BuildDataSource(s) == s.data = "postgres" => s.url # "none"
BuildAdapter(s) == BuildDataSource(s) /\ (s.execution = "live" => BuildProvider(s))

(* What create_app asks before it connects to anything.                    *)
MayStart(s) ==
  FailClosedAuth(s) /\ DemoSeedGate(s) # "refuse" /\ EnforceStrict(s) /\ BuildAdapter(s)

CanLogin(url) == url = "owner" \/ (url = "app_runtime" /\ url \in db.login)
(* A statement on a table, as the owner or with a grant.                   *)
CanUse(url, table) ==
  /\ CanLogin(url) /\ table \in db.tables
  /\ url = "owner" \/ table \in db.granted[url]

-----------------------------------------------------------------------------
Unset == [env |-> "none"]
Idle == [at |-> "idle", passwords |-> FALSE, left |-> <<>>]
Down == [at |-> "down", s |-> Unset, left |-> <<>>]
NoRun == [at |-> "idle", url |-> "none", left |-> <<>>, spec |-> <<>>]

Tenant(t) == [tenant |-> t, member |-> "none", role |-> "none"]
MemberOf(t, m) == [tenant |-> t, member |-> m.user, role |-> m.role]
ItemsOf(tenants) ==
  FlattenSeq([i \in 1..Len(tenants) |->
    <<Tenant(tenants[i])>> \o
    [j \in 1..Len(Members[tenants[i]]) |-> MemberOf(tenants[i], Members[tenants[i]][j])]])
(* seed_default: the tenants first, then all members.                      *)
SeedItems ==
  SelectSeq(ItemsOf(Demo), LAMBDA i : i.member = "none") \o
  SelectSeq(ItemsOf(Demo), LAMBDA i : i.member # "none")
IsDemo(item) ==
  \E d \in ToSet(ItemsOf(Demo)) :
    item.tenant = d.tenant \/ (item.member # "none" /\ item.member = d.member)

Exists(item) == \E r \in rows : r.tenant = item.tenant /\ r.member = item.member

(* INSERT, for a member ON CONFLICT DO UPDATE.                             *)
Put(item) ==
  {r \in rows : r.tenant # item.tenant \/ r.member # item.member} \cup {item}

Init ==
  /\ env \in {s.env : s \in Configs}
  /\ db \in {Empty, Earlier(TRUE), Earlier(FALSE)}
  /\ rows = {}
  /\ cli = Idle
  /\ api = [r \in Replicas |-> Down]
  /\ script = [o \in Operators |-> NoRun]
  /\ faults = 0

Fault == faults < MaxFaults /\ faults' = faults + 1

-----------------------------------------------------------------------------
(* migrate_cli.                                                            *)

MigrateUrl(s) == IF s.migrator # "none" THEN s.migrator ELSE s.url

MigrateStart ==
  /\ cli.at \in {"idle", "done", "failed"}
  /\ \E s \in Configs :
       /\ s.env = env
       /\ MigrateUrl(s) # "none"
       /\ ~(Restricted(env) /\ MigrateUrl(s) = s.url)
       /\ MigrateUrl(s) = "owner"
       /\ cli' = [at |-> "running", passwords |-> s.passwords, left |-> Steps]
  /\ UNCHANGED <<env, db, rows, api, script, faults>>

MigrateStep ==
  /\ cli.at = "running"
  /\ Applicable(db, Head(cli.left))
  /\ db' = Apply(db, Head(cli.left), cli.passwords)
  /\ cli' = [cli EXCEPT !.at = IF Len(cli.left) = 1 THEN "done" ELSE @, !.left = Tail(@)]
  /\ UNCHANGED <<env, rows, api, script, faults>>

(* Mutant: roles that could not be made ready are skipped everywhere.      *)
ExitCode_Lenient(step) ==
  IF step \in ToSet(InitializeAll) THEN "failed" ELSE "done"

(* Only where the environment is not restricted may the roles be missing.  *)
ExitCode(step) ==
  IF step \in ToSet(InitializeAll) \/ Restricted(env) THEN "failed" ELSE "done"

(* A transaction of the migration is rolled back: it failed, was killed or *)
(* lost a race with another one.                                           *)
MigrateFail ==
  /\ cli.at = "running"
  /\ cli' = [cli EXCEPT !.at = ExitCode(Head(cli.left)), !.left = <<>>]
  /\ IF Applicable(db, Head(cli.left)) THEN Fault ELSE UNCHANGED faults
  /\ UNCHANGED <<env, db, rows, api, script>>

-----------------------------------------------------------------------------
(* create_app and its lifespan.                                            *)

Start(r) ==
  /\ api[r].at = "down"
  /\ \E s \in Configs :
       /\ s.env = env /\ MayStart(s)
       /\ api' = [api EXCEPT ![r] =
            [at |-> IF s.storage # "postgres" THEN "serving"
                    ELSE IF s.on_startup THEN "migrate" ELSE "ready",
             s |-> s, left |-> InitializeAll]]
  /\ UNCHANGED <<env, db, rows, cli, script, faults>>

(* initialize_postgres, which only the owner of the tables may run.        *)
StartupMigration(r) ==
  LET a == api[r] IN
  /\ a.at = "migrate"
  /\ IF a.s.url = "owner"
       THEN /\ db' = Apply(db, Head(a.left), FALSE)
            /\ api' = [api EXCEPT ![r].at = IF Len(a.left) = 1 THEN "ready" ELSE @,
                                  ![r].left = Tail(@)]
       ELSE api' = [api EXCEPT ![r] = Down] /\ UNCHANGED db
  /\ UNCHANGED <<env, rows, cli, script, faults>>

RlsReady(url) == CanLogin(url) /\ "sessions" \in db.forced

RequirePostgresReady(r) ==
  LET a == api[r] IN
  /\ a.at = "ready"
  /\ api' = [api EXCEPT ![r] =
       IF ~RlsReady(a.s.url) THEN Down
       ELSE IF DemoSeedGate(a.s) = "seed" THEN [a EXCEPT !.at = "seed", !.left = SeedItems]
       ELSE [a EXCEPT !.at = "serving", !.left = <<>>]]
  /\ UNCHANGED <<env, db, rows, cli, script, faults>>

(* A tenant that is there ends the seed; members are written over.         *)
Seed(r) ==
  LET a == api[r]
      item == Head(a.left)
      over == item.member = "none" /\ Exists(item)
  IN
  /\ a.at = "seed"
  /\ rows' = IF over THEN rows ELSE Put(item)
  /\ api' = [api EXCEPT ![r] =
       IF over \/ Len(a.left) = 1 THEN [a EXCEPT !.at = "serving", !.left = <<>>]
       ELSE [a EXCEPT !.left = Tail(@)]]
  /\ UNCHANGED <<env, db, cli, script, faults>>

Crash(r) ==
  /\ api[r].at # "down"
  /\ api' = [api EXCEPT ![r] = Down]
  /\ Fault
  /\ UNCHANGED <<env, db, rows, cli, script>>

-----------------------------------------------------------------------------
(* create_bootstrapped_tenants.                                            *)

ValidateTenants(items) == \A i \in ToSet(items) : ~IsDemo(i)

Bootstrap(o) ==
  /\ script[o].at \in {"idle", "failed"}
  /\ \E s \in Configs, tenants \in {Real, Demo \o Real} :
       /\ s.env = env /\ s.storage = "postgres" /\ s.url # "none"
       /\ ValidateTenants(ItemsOf(tenants))
       /\ script' = [script EXCEPT ![o] =
            [at |-> "check", url |-> s.url, left |-> ItemsOf(tenants), spec |-> ItemsOf(tenants)]]
  /\ UNCHANGED <<env, db, rows, cli, api, faults>>

(* Mutant: the members of a tenant that exists are taken for granted.      *)
Skipped_WithMembers(left) == SelectSeq(left, LAMBDA i : i.tenant # Head(left).tenant)

Skipped(left) == Tail(left)

Failed(run) == [run EXCEPT !.at = "failed", !.url = "none", !.left = <<>>]

TableOf(item) == IF item.member = "none" THEN "tenants" ELSE "memberships"
Goes(run, left) ==
  [run EXCEPT !.at = IF left = <<>> THEN "done" ELSE "check", !.left = left]

(* _tenant_exists, _membership_exists.                                     *)
CheckItem(o) ==
  LET x == script[o]
      item == Head(x.left)
  IN
  /\ x.at = "check"
  /\ script' = [script EXCEPT ![o] =
       IF ~CanUse(x.url, TableOf(item)) THEN Failed(x)
       ELSE IF Exists(item) THEN Goes(x, Skipped(x.left))
       ELSE [x EXCEPT !.at = "create"]]
  /\ UNCHANGED <<env, db, rows, cli, api, faults>>

(* create_tenant fails for a tenant somebody else created meanwhile,       *)
(* add_membership writes over.                                             *)
CreateItem(o) ==
  LET x == script[o]
      item == Head(x.left)
      refused == item.member = "none" /\ Exists(item)
  IN
  /\ x.at = "create"
  /\ rows' = IF refused THEN rows ELSE Put(item)
  /\ script' = [script EXCEPT ![o] =
       IF refused THEN Failed(x) ELSE Goes(x, Tail(x.left))]
  /\ UNCHANGED <<env, db, cli, api, faults>>

ScriptFail(o) ==
  /\ script[o].at \in {"check", "create"}
  /\ script' = [script EXCEPT ![o] = Failed(@)]
  /\ Fault
  /\ UNCHANGED <<env, db, rows, cli, api>>

-----------------------------------------------------------------------------
Next ==
  \/ MigrateStart \/ MigrateStep \/ MigrateFail
  \/ \E r \in Replicas :
       Start(r) \/ StartupMigration(r) \/ RequirePostgresReady(r) \/ Seed(r) \/ Crash(r)
  \/ \E o \in Operators : Bootstrap(o) \/ CheckItem(o) \/ CreateItem(o) \/ ScriptFail(o)

Spec == Init /\ [][Next]_vars

-----------------------------------------------------------------------------
(* Every variable stays in its type.                                       *)
TypeOK ==
  /\ env \in Environments
  /\ db.tables \subseteq Tables /\ db.forced \subseteq db.tables
  /\ db.login \subseteq db.roles /\ db.roles \subseteq Roles
  /\ cli.at \in {"idle", "running", "done", "failed"}
  /\ \A r \in Replicas :
       api[r].at \in {"down", "migrate", "ready", "seed", "serving"}
  /\ \A o \in Operators : script[o].at \in {"idle", "check", "create", "done", "failed"}
  /\ faults \in 0..MaxFaults

(* The role the API runs as is never given a table of tenant data before   *)
(* its policy is in force: not in a first migration, an upgrade, a         *)
(* repetition after a failure or while processes migrate on their own.     *)
RuntimeUnderRls ==
  db.granted["app_runtime"] \cap (Scoped \cup ScopedCheckpoint) \subseteq db.forced

(* Once the backup role exists a dump reads every table, also between two  *)
(* steps of a migration that brings new ones.                              *)
DumpComplete ==
  "backup_role" \in db.roles => db.tables \subseteq db.granted["backup_role"]

(* A process that serves in a restricted environment under the strict gate *)
(* has its tenant data, business data included, in Postgres behind         *)
(* policies.                                                               *)
ServedUnderRls ==
  \A r \in Replicas :
    LET s == api[r].s IN
    api[r].at = "serving" /\ Restricted(env) /\ s.strict =>
      /\ s.storage = "postgres" /\ s.data = "postgres"
      /\ CanUse(s.url, "sessions") /\ "sessions" \in db.forced
      /\ db.granted[s.url] \cap (Scoped \cup ScopedCheckpoint) \subseteq db.forced

(* Behind policies, before a process serves and while it does: what the    *)
(* migration gives the runtime role and what the gates let a process serve *)
(* from.                                                                   *)
UnderRls == RuntimeUnderRls /\ ServedUnderRls

(* A run of the bootstrap script that ends well leaves every tenant and    *)
(* member of its list, whatever earlier runs left half-way and others do.  *)
BootstrapDone ==
  \A o \in Operators :
    script[o].at = "done" => \A i \in ToSet(script[o].spec) : Exists(i)

(* A migration that is run again finds nothing, left by an earlier version *)
(* or attempt or done by a process meanwhile, on which a transaction of    *)
(* its own could not be applied; and one that reports success has brought  *)
(* all tables and policies and, where the environment is restricted, both  *)
(* roles with all their rights.                                            *)
MigrationSound ==
  /\ cli.at = "running" => Applicable(db, Head(cli.left))
  /\ cli.at = "done" => SchemaComplete(db) /\ (Restricted(env) => Complete(db))
=============================================================================
