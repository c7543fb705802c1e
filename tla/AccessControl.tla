----------------------------- MODULE AccessControl -----------------------------
(***************************************************************************)
(* Who may see and do what: tokens (src/auth/security.py), tenants,        *)
(* members and sessions in the store, and the routes of src/api/routes.py. *)
(* Several API processes share one PostgreSQL, so tenants and members may  *)
(* change between any two reads of a request, each a transaction of its    *)
(* own.  On MemoryStore and SqliteStore there is one process, whose        *)
(* handlers do not await between these reads: fewer interleavings, no      *)
(* other steps.                                                            *)
(*                                                                         *)
(* A thread stands for its session and for what belongs to it: an approval *)
(* with its operation, an execution, audit entries.  An answer is the set  *)
(* of threads it tells of.                                                 *)
(***************************************************************************)
EXTENDS Naturals, FiniteSets

CONSTANTS
  Tenants, Accounts,
  Home,          \* [Accounts -> Tenants]
  Roles,         \* the roles in use
  Threads, Owner,  \* [Threads -> Accounts]
  Replicas,      \* API processes
  Callers,       \* requests at a time
  Nobody,
  Configurations,  \* the settings in use
  Memberships,   \* the members at the start
  MaxTokens,     \* bound: tokens that have not expired
  MaxChanges,    \* bound: changes to tenants and members
  MaxAge,        \* bound: steps of session retention
  MaxKeys        \* bound: key rotations

ASSUME HomeAssumption == Home \in [Accounts -> Tenants]
ASSUME OwnerAssumption == Owner \in [Threads -> Accounts]
ASSUME RolesAssumption ==
  Roles # {} /\ Roles \subseteq {"customer", "agent", "approver", "admin"}
ASSUME BoundsAssumption ==
  MaxTokens \in Nat /\ MaxChanges \in Nat /\ MaxAge \in Nat /\ MaxKeys \in Nat

VARIABLES
  settings,  \* rigid: auth_backend, is_restricted_env, the kid, the white list,
             \* the login credentials
  tenant,    \* tenants.status
  member,    \* memberships: a role, or "revoked"
  session,   \* sessions.status
  streamer,  \* who started the stream of a thread
  newest,    \* the generation of AUTH_JWT_SECRET
  key,       \* the generation each replica was started with
  tokens,    \* tokens that have been issued and have not expired
  request,   \* what each caller waits for
  changes, ages

store == <<tenant, member, session, streamer>>
vars == <<settings, store, newest, key, tokens, request, changes, ages>>

Staff == {"agent", "admin", "approver"}
Asks == {"login", "route", "chat", "history", "resume"}
(* What the credentials hold of an account: a hash, an old unsalted one, a *)
(* text that is no hash at all, or nothing.                                *)
Weak == {"sha256", "md5"}
Stored == {"argon2id", "bcrypt", "text", "none"} \cup Weak
Settings == [backend: {"mock", "real"}, restricted: BOOLEAN,
             kid: {"derived", "renamed", "kept"}, launch: SUBSET Tenants,
             hash: {"argon2id", "bcrypt", "other"}, credentials: [Accounts -> Stored]]
Token == [account: Accounts, role: Roles, key: 0..MaxKeys]
Idle == [at |-> "idle"]

ASSUME ConfigurationsAssumption ==
  Configurations \subseteq Settings /\ Memberships \subseteq [Accounts -> Roles]

Init ==
  /\ settings \in Configurations
  /\ tenant = [t \in Tenants |-> "active"]
  /\ member \in Memberships
  /\ session = [th \in Threads |-> "none"]
  /\ streamer = [th \in Threads |-> Nobody]
  /\ newest = 0 /\ key = [r \in Replicas |-> 0]
  /\ tokens = {}
  /\ request = [c \in Callers |-> Idle]
  /\ changes = 0 /\ ages = 0

-----------------------------------------------------------------------------
(* Tokens.                                                                 *)

(* The kid in the header of a token: a digest of the secret or, where      *)
(* AUTH_JWT_KID is configured, that name, which the operator changes with  *)
(* the secret ("renamed") or leaves ("kept").                              *)
Kid(g) == CASE settings.kid = "derived" -> <<"digest", g>>
            [] settings.kid = "renamed" -> <<"name", g>>
            [] settings.kid = "kept" -> <<"name", 0>>

(* Mutant: the secrets of the rotated list are not taken into the pool.    *)
Pool_OwnOnly(g) == {<<Kid(g), g>>}

(* The pool of a process: its own secret and, under its digest whatever    *)
(* the kid its tokens carry, the one before it (AUTH_JWT_ROTATED_SECRETS). *)
Pool(g) == {<<Kid(g), g>>} \cup (IF g = 0 THEN {} ELSE {<<<<"digest", g - 1>>, g - 1>>})

(* authenticate: the kid selects the secret, which must have signed.       *)
Authentic(r, t) ==
  \/ settings.backend = "mock"
  \/ \E entry \in Pool(key[r]) : entry[1] = Kid(t.key) /\ entry[2] = t.key

(* Anybody can write a mock token.                                         *)
Presentable ==
  IF settings.backend = "mock" THEN [account: Accounts, role: Roles, key: {0}] ELSE tokens

Served == settings.backend = "real" \/ ~settings.restricted

(* tenant_allowed_for_launch.                                              *)
Launched(t) == settings.launch = {} \/ t \in settings.launch

-----------------------------------------------------------------------------
(* A request carries what was true of its account at some time since it    *)
(* came; how requests end is of no interest unless they are granted.  The  *)
(* route and the thread it names are chosen where they come into play.     *)
IsMember(account, role, ask, ms) ==
  IF ask = "login" THEN ms[account] \in Roles ELSE ms[account] = role

Witness(q, ts, ms) ==
  IF q.at = "idle" THEN q
  ELSE [q EXCEPT !.tenantOk = @ \/ ts[Home[q.account]] = "active",
                 !.memberOk = @ \/ IsMember(q.account, q.role, q.ask, ms)]

Rest == UNCHANGED <<settings, newest, key, changes, ages>>
Move(c, at) == request' = [request EXCEPT ![c].at = at]
Refuse(c) == request' = [request EXCEPT ![c] = Idle]
Grant(c, threads) == request' = [request EXCEPT ![c].at = "granted", ![c].threads = threads]
Continue(c, at, ask, th) ==
  request' = [request EXCEPT ![c].at = at, ![c].ask = ask, ![c].threads = {th}]

Come(c, account, role, ask) ==
  request' = [request EXCEPT ![c] =
    [at |-> "tenant", account |-> account, role |-> role, ask |-> ask, threads |-> {},
     tenantOk |-> tenant[Home[account]] = "active",
     memberOk |-> IsMember(account, role, ask, member)]]

(* resolve_tenant_context up to the store.                                 *)
Arrive(c, r, t) ==
  /\ request[c] = Idle
  /\ Served
  /\ t \in Presentable /\ Authentic(r, t)
  /\ Come(c, t.account, t.role, "route")
  /\ UNCHANGED <<store, tokens>> /\ Rest

(* parse_login_credentials: none at all unless it can be read.             *)
LoginCredentials == {a \in Accounts : settings.credentials[a] # "none"}

(* issue_login_token up to the store.                                      *)
ArriveLogin(c, a) ==
  /\ request[c] = Idle
  /\ settings.backend = "real" /\ LoginCredentials # {}
  /\ Come(c, a, CHOOSE role \in Roles : TRUE, "login")
  /\ UNCHANGED <<store, tokens>> /\ Rest

(* require_active_tenant.                                                  *)
CheckTenant(c) ==
  /\ request[c].at = "tenant"
  /\ IF tenant[Home[request[c].account]] = "active" THEN Move(c, "member") ELSE Refuse(c)
  /\ UNCHANGED <<store, tokens>> /\ Rest

(* Mutant: the role is taken from the token.                               *)
Admitted_ByToken(q) == Launched(Home[q.account])

(* get_membership, its role against the token's, and the white list.       *)
Admitted(q) == member[q.account] = q.role /\ Launched(Home[q.account])

CheckMember(c) ==
  /\ request[c].at = "member" /\ request[c].ask # "login"
  /\ IF Admitted(request[c]) THEN Move(c, "route") ELSE Refuse(c)
  /\ UNCHANGED <<store, tokens>> /\ Rest

(* Mutant: what is stored is compared whatever it is.                      *)
VerifyCredential_AnyHash(stored, right) == right

(* Only a hash of the configured kind is compared with what was presented. *)
VerifyCredential(stored, right) ==
  /\ stored \notin Weak
  /\ settings.hash \in {"argon2id", "bcrypt"} /\ stored = settings.hash
  /\ right

(* The membership of somebody who logs in, the credential, the token.      *)
IssueToken(c, r, right) ==
  LET q == request[c] IN
  /\ q.at = "member" /\ q.ask = "login"
  /\ Cardinality(tokens) < MaxTokens
  /\ IF /\ member[q.account] \in Roles
        /\ q.account \in LoginCredentials
        /\ VerifyCredential(settings.credentials[q.account], right)
     THEN /\ request' = [request EXCEPT ![c].at = "granted", ![c].role = member[q.account]]
          /\ tokens' = tokens \cup
               {[account |-> q.account, role |-> member[q.account], key |-> key[r]]}
     ELSE Refuse(c) /\ UNCHANGED tokens
  /\ UNCHANGED store /\ Rest

-----------------------------------------------------------------------------
(* The routes, after get_tenant_context.                                   *)
Routed(c) == request[c].at = "route"

InTenant(q) ==
  {th \in Threads : session[th] \notin {"none", "gone"} /\ Home[Owner[th]] = Home[q.account]}

(* list_sessions for a customer, _visible_thread_ids, _check_visible.      *)
Visible(q) ==
  IF q.role \in Staff THEN InTenant(q) ELSE {th \in InTenant(q) : Owner[th] = q.account}

(* Mutant: the owner of the session is not compared.                       *)
Usable_ByTenant(q, th) == th \in InTenant(q) /\ session[th] = "active"

(* validate_session_owner.                                                 *)
Usable(q, th) == th \in Visible(q) /\ session[th] = "active"

(* create_session looks at tenant and membership again, then inserts the   *)
(* session of a new thread.                                                *)
NewSession(c, th) ==
  LET q == request[c] IN
  /\ Routed(c)
  /\ session[th] = "none" /\ Owner[th] = q.account
  /\ IF tenant[Home[q.account]] = "active" /\ member[q.account] \in Roles
     THEN /\ session' = [session EXCEPT ![th] = "active"]
          /\ Grant(c, {th})
     ELSE Refuse(c) /\ UNCHANGED session
  /\ UNCHANGED <<tenant, member, streamer, tokens>> /\ Rest

(* validate_session_owner first, what was asked for in a later step.       *)
CheckSession(c, th, ask) ==
  /\ Routed(c)
  /\ IF Usable(request[c], th) THEN Continue(c, "owner", ask, th) ELSE Refuse(c)
  /\ UNCHANGED <<store, tokens>> /\ Rest

(* run_start renews the session and books the stream for whoever asks,     *)
(* staff included.                                                         *)
StartChat(c) ==
  LET q == request[c] IN
  /\ q.at = "owner" /\ q.ask = "chat"
  /\ Grant(c, q.threads)
  /\ \E th \in q.threads :
       /\ streamer' = [streamer EXCEPT ![th] = IF @ = Nobody THEN q.account ELSE @]
       /\ session' = [session EXCEPT ![th] = IF @ = "expired" THEN "active" ELSE @]
  /\ UNCHANGED <<tenant, member, tokens>> /\ Rest

(* get_session, or authorize_checkpoint_access and the messages.           *)
ReadSession(c) ==
  LET q == request[c] IN
  /\ q.at = "owner" /\ q.ask = "history"
  /\ IF q.threads \subseteq InTenant(q) THEN Grant(c, q.threads) ELSE Refuse(c)
  /\ UNCHANGED <<store, tokens>> /\ Rest

(* validate_stream_owner: the stream's user, then the session.             *)
Resume(c, th) ==
  LET q == request[c] IN
  /\ Routed(c)
  /\ IF /\ streamer[th] # Nobody
        /\ Home[streamer[th]] = Home[q.account]
        /\ \/ q.role \in Staff
           \/ streamer[th] = q.account
     THEN Continue(c, "stream", "resume", th) ELSE Refuse(c)
  /\ UNCHANGED <<store, tokens>> /\ Rest

ResumeSession(c) ==
  LET q == request[c] IN
  /\ q.at = "stream"
  /\ IF \A th \in q.threads : Usable(q, th) THEN Grant(c, q.threads) ELSE Refuse(c)
  /\ UNCHANGED <<store, tokens>> /\ Rest

ListSessions(c) ==
  /\ Routed(c)
  /\ Grant(c, Visible(request[c]))
  /\ UNCHANGED <<store, tokens>> /\ Rest

(* The approvals of the tenant; of them, for a customer, those in threads  *)
(* that are visible then.                                                  *)
ListApprovals(c) ==
  /\ Routed(c)
  /\ Grant(c, Visible(request[c]))
  /\ UNCHANGED <<store, tokens>> /\ Rest

(* Entries outlive what they are about: for the staff all of the tenant's, *)
(* for a customer those about his sessions.                                *)
AuditOf(q) ==
  IF q.role \in Staff
    THEN {th \in Threads : session[th] # "none" /\ Home[Owner[th]] = Home[q.account]}
    ELSE Visible(q)

(* filter_audit keeps the entries of the thread, target or action that was *)
(* asked for.                                                              *)
FilterAudit(threads, asked) == threads \cap asked

SearchAudit(c) ==
  /\ Routed(c)
  /\ \E asked \in SUBSET Threads :
       Grant(c, FilterAudit(AuditOf(request[c]), asked))
  /\ UNCHANGED <<store, tokens>> /\ Rest

(* get_order: the order a thread is about, found in the tenant, of the     *)
(* user unless he is staff; orders do not go with sessions.                *)
GetOrder(c, th) ==
  LET q == request[c] IN
  /\ Routed(c)
  /\ IF /\ Home[Owner[th]] = Home[q.account]
        /\ q.role \in Staff \/ Owner[th] = q.account
     THEN Grant(c, {th}) ELSE Refuse(c)
  /\ UNCHANGED <<store, tokens>> /\ Rest

(* One approval, operation or execution: by tenant (a case goes with its   *)
(* session), then _check_visible.                                          *)
GetCase(c, th) ==
  /\ Routed(c)
  /\ IF th \in Visible(request[c]) THEN Grant(c, {th}) ELSE Refuse(c)
  /\ UNCHANGED <<store, tokens>> /\ Rest

(* The checks of a decision; ApprovalFlow models the rest.                 *)
Decide(c, th) ==
  LET q == request[c] IN
  /\ Routed(c)
  /\ IF q.role \in {"admin", "approver"} /\ Usable(q, th) THEN Grant(c, {th}) ELSE Refuse(c)
  /\ UNCHANGED <<store, tokens>> /\ Rest

(* list_members tells of no thread.                                        *)
ListMembers(c) ==
  /\ Routed(c)
  /\ IF request[c].role = "admin" THEN Grant(c, {}) ELSE Refuse(c)
  /\ UNCHANGED <<store, tokens>> /\ Rest

Leave(c) ==
  /\ request[c].at = "granted"
  /\ Refuse(c)
  /\ UNCHANGED <<store, tokens>> /\ Rest

-----------------------------------------------------------------------------
(* Tenants and members change, from other processes.                       *)
Change ==
  /\ changes < MaxChanges
  /\ changes' = changes + 1
  /\ request' = [c \in Callers |-> Witness(request[c], tenant', member')]
  /\ UNCHANGED <<settings, session, streamer, newest, key, tokens, ages>>

SetTenantStatus(t, s) ==
  /\ tenant' = [tenant EXCEPT ![t] = s]
  /\ UNCHANGED member
  /\ Change

RevokeMembership(a) ==
  /\ member' = [member EXCEPT ![a] = "revoked"]
  /\ UNCHANGED tenant
  /\ Change

(* add_membership inserts or updates.  Its check that the tenant is active *)
(* is a transaction before this one: the tenant was active, once.          *)
AddMembership(a, role) ==
  /\ member' = [member EXCEPT ![a] = role]
  /\ UNCHANGED tenant
  /\ Change

(* Sessions expire, are marked and go (SessionRetention has the steps).    *)
Later == [active |-> {"expired", "deleting", "gone"}, expired |-> {"deleting", "gone"},
          deleting |-> {"gone"}, gone |-> {}, none |-> {}]

Age(th) ==
  /\ ages < MaxAge /\ ages' = ages + 1
  /\ \E s \in Later[session[th]] : session' = [session EXCEPT ![th] = s]
  /\ UNCHANGED <<settings, tenant, member, streamer, newest, key, tokens, request, changes>>

-----------------------------------------------------------------------------
(* Keys.                                                                   *)
TokenExpires(t) ==
  /\ tokens' = tokens \ {t}
  /\ UNCHANGED store /\ UNCHANGED request /\ Rest

(* A new secret, the last one moved to the rotated list: when every        *)
(* process runs with the last one and the tokens of the one before that    *)
(* have expired.                                                           *)
Rotate ==
  /\ newest < MaxKeys
  /\ \A r \in Replicas : key[r] = newest
  /\ \A t \in tokens : t.key = newest
  /\ newest' = newest + 1
  /\ UNCHANGED <<settings, store, key, tokens, request, changes, ages>>

(* The processes are restarted one after the other.                        *)
Restart(r) ==
  /\ key[r] # newest
  /\ key' = [key EXCEPT ![r] = newest]
  /\ UNCHANGED <<settings, store, newest, tokens, request, changes, ages>>

Route(c) ==
  \/ \E th \in Threads :
       \/ NewSession(c, th) \/ GetCase(c, th) \/ GetOrder(c, th) \/ Decide(c, th) \/ Resume(c, th)
       \/ \E ask \in {"chat", "history"} : CheckSession(c, th, ask)
  \/ StartChat(c) \/ ReadSession(c) \/ ResumeSession(c)
  \/ ListSessions(c) \/ ListApprovals(c) \/ SearchAudit(c) \/ ListMembers(c)

Next ==
  \/ \E c \in Callers :
       \/ \E a \in Accounts : ArriveLogin(c, a)
       \/ \E r \in Replicas, t \in Presentable : Arrive(c, r, t)
       \/ CheckTenant(c) \/ CheckMember(c)
       \/ \E r \in Replicas, right \in BOOLEAN : IssueToken(c, r, right)
       \/ Route(c)
       \/ Leave(c)
  \/ \E t \in Tenants, s \in {"active", "suspended"} : SetTenantStatus(t, s)
  \/ \E a \in Accounts : RevokeMembership(a) \/ \E role \in Roles : AddMembership(a, role)
  \/ \E th \in Threads : Age(th)
  \/ \E t \in tokens : TokenExpires(t)
  \/ Rotate
  \/ \E r \in Replicas : Restart(r)

Spec == Init /\ [][Next]_vars

-----------------------------------------------------------------------------
Request ==
  {Idle} \cup
  [at: {"tenant", "member", "route", "owner", "stream", "granted"}, account: Accounts,
   role: Roles, ask: Asks, threads: SUBSET Threads, tenantOk: BOOLEAN,
   memberOk: BOOLEAN]

(* Every variable stays in its type.                                       *)
TypeOK ==
  /\ settings \in Settings
  /\ tenant \in [Tenants -> {"active", "suspended"}]
  /\ member \in [Accounts -> Roles \cup {"revoked"}]
  /\ session \in [Threads -> {"none", "active", "expired", "deleting", "gone"}]
  /\ streamer \in [Threads -> Accounts \cup {Nobody}]
  /\ newest \in 0..MaxKeys /\ key \in [Replicas -> 0..newest]
  /\ tokens \subseteq Token
  /\ request \in [Callers -> Request]
  /\ changes \in 0..MaxChanges /\ ages \in 0..MaxAge

(* Nobody is served who, from the moment the request came, was never a     *)
(* member with the role he is served under, or whose tenant was never      *)
(* active or is not on the white list: a suspension, a revocation or a     *)
(* change of role holds from the next request on, whatever token comes.    *)
(* No token is had for a credential that is missing or weakly hashed.      *)
EntitledOnly ==
  \A c \in Callers :
    LET q == request[c] IN
    q.at = "granted" =>
      /\ q.tenantOk /\ q.memberOk
      /\ IF q.ask = "login"
           THEN settings.credentials[q.account] \in {"argon2id", "bcrypt"}
           ELSE Launched(Home[q.account])

(* No answer tells of a thread of another tenant, and none tells a         *)
(* customer of a thread that is not his, although sessions, members and    *)
(* roles change between the steps of a request.                            *)
OwnOnly ==
  \A c \in Callers :
    LET q == request[c] IN
    q.at = "granted" =>
      \A th \in q.threads :
        /\ Home[Owner[th]] = Home[q.account]
        /\ q.role \in Staff \/ Owner[th] = q.account

(* "容忍窗口内旧令牌仍可验证" (config.py, auth_jwt_rotated_secrets): a process that *)
(* runs with the secret of a token or a later one accepts it until it      *)
(* expires.  The code does not do this where AUTH_JWT_KID is configured.   *)
OldTokensValid ==
  \A t \in tokens, r \in Replicas : key[r] >= t.key => Authentic(r, t)

(* What remains of it: tokens outlive a rotation of their secret, process  *)
(* by process, where the kid is left to be the digest of the secret.       *)
DerivedKidRotation == settings.kid = "derived" => OldTokensValid
=============================================================================
