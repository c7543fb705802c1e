------------------------------ MODULE AccessProofs ------------------------------
(***************************************************************************)
(* Proofs about AccessControl for any sets of tenants, accounts, threads,  *)
(* replicas and callers, any configuration and any bounds, and about       *)
(* LoginLimit for any accounts, addresses, processes, window and limits.   *)
(***************************************************************************)
EXTENDS AccessControl, LoginLimit, FiniteSetTheorems, TLAPS

(* What a request carries once it has come.                                *)
Carried ==
  [at: {"tenant", "member", "route", "owner", "stream", "granted"}, account: Accounts,
   role: Roles, ask: Asks, threads: SUBSET Threads, tenantOk: BOOLEAN,
   memberOk: BOOLEAN]

(* It has seen whatever its tenant and its member are now.                 *)
Attested(q, ts, ms) ==
  /\ ts[Home[q.account]] = "active" => q.tenantOk
  /\ IsMember(q.account, q.role, q.ask, ms) => q.memberOk

Entitled(q) ==
  /\ q.memberOk
  /\ IF q.ask = "login"
       THEN settings.credentials[q.account] \in {"argon2id", "bcrypt"}
       ELSE Launched(Home[q.account])

Owned(q) ==
  \A th \in q.threads :
    /\ Home[Owner[th]] = Home[q.account]
    /\ q.role \in Staff \/ Owner[th] = q.account

(* What a request has passed on its way: the threads it names are its own  *)
(* where it is answered, but not yet where it names a stream.              *)
Passed(q) ==
  /\ q.at # "tenant" => q.tenantOk
  /\ q.at \notin {"tenant", "member"} => Entitled(q)
  /\ q.at \in {"route", "owner", "stream"} => q.ask # "login"
  /\ q.at \in {"tenant", "member", "route"} => q.threads = {}
  /\ q.at # "stream" => Owned(q)

Good(q) == q \in Carried /\ Attested(q, tenant, member) /\ Passed(q)

RequestInv == \A c \in Callers : request[c] = Idle \/ Good(request[c])

(* Keys and tokens are of the newest generation or the one before.         *)
KeyInv ==
  /\ \A r \in Replicas : key[r] >= newest - 1
  /\ \A t \in tokens : t.key <= newest /\ t.key >= newest - 1

IInv == TypeOK /\ RequestInv /\ KeyInv

-----------------------------------------------------------------------------
(* Pieces of the step.                                                     *)

LEMMA IdleApart == ASSUME NEW q \in Carried PROVE q.at # "idle" /\ q # Idle
BY DEF Carried, Idle

LEMMA GoodType ==
  ASSUME IInv, NEW c \in Callers, request[c].at # "idle"
  PROVE  Good(request[c]) /\ request[c] \in Carried
BY DEF IInv, RequestInv, Idle, Good

(* Nothing that a request was judged by changes but the request.           *)
Unmoved == UNCHANGED <<settings, tenant, member>>

LEMMA GoodStays ==
  ASSUME NEW q, Good(q), Unmoved
  PROVE  Good(q)'
BY DEF Good, Unmoved, Attested, IsMember, Passed, Entitled, Owned, Launched

(* One caller's request becomes q.                                         *)
LEMMA RequestStep ==
  ASSUME IInv, Unmoved, NEW c \in Callers, NEW q, q = Idle \/ Good(q),
         request' = [request EXCEPT ![c] = q]
  PROVE  RequestInv' /\ request' \in [Callers -> Request]
<1>1. request \in [Callers -> Request] /\ q \in Request
  BY DEF IInv, TypeOK, Request, Good, Carried
<1>2. \A d \in Callers : request'[d] = IF d = c THEN q ELSE request[d]
  BY <1>1
<1>3. \A d \in Callers : request'[d] = Idle \/ Good(request'[d])
  BY <1>2 DEF IInv, RequestInv
<1>4. \A d \in Callers : (request[d] = Idle \/ Good(request[d]))'
  <2> SUFFICES ASSUME NEW d \in Callers, request'[d] # Idle PROVE Good(request[d])'
    OBVIOUS
  <2>1. PICK x : x = request'[d]
    OBVIOUS
  <2>2. Good(x)'
    BY <1>3, <2>1, GoodStays
  <2>3. QED
    BY <2>1, <2>2 DEF Good, Attested, Passed, Entitled, Owned, Launched, IsMember
<1>5. QED
  BY <1>1, <1>4 DEF RequestInv

(* A step that leaves the store and the tokens.                            *)
LEMMA QuietStep ==
  ASSUME IInv, UNCHANGED <<store, tokens>>, Rest, NEW c \in Callers,
         NEW q, q = Idle \/ Good(q), request' = [request EXCEPT ![c] = q]
  PROVE  IInv'
<1>1. Unmoved
  BY DEF store, Rest, Unmoved
<1>2. RequestInv' /\ request' \in [Callers -> Request]
  BY <1>1, RequestStep
<1>3. TypeOK' /\ KeyInv'
  BY <1>2 DEF IInv, TypeOK, KeyInv, store, Rest
<1>4. QED
  BY <1>2, <1>3 DEF IInv

-----------------------------------------------------------------------------
(* A request comes.                                                        *)
LEMMA ComeInv ==
  ASSUME IInv, NEW c \in Callers, NEW account \in Accounts, NEW role \in Roles,
         NEW ask \in Asks, Come(c, account, role, ask), UNCHANGED <<store, tokens>>, Rest
  PROVE  IInv'
<1> DEFINE q == [at |-> "tenant", account |-> account, role |-> role, ask |-> ask,
                 threads |-> {}, tenantOk |-> tenant[Home[account]] = "active",
                 memberOk |-> IsMember(account, role, ask, member)]
<1>1. IsMember(account, role, ask, member) \in BOOLEAN
  <2>1. CASE ask = "login"
    <3>1. IsMember(account, role, ask, member) = (member[account] \in Roles)
      BY <2>1 DEF IsMember
    <3>2. QED
      BY <3>1
  <2>2. CASE ask # "login"
    <3>1. IsMember(account, role, ask, member) = (member[account] = role)
      BY <2>2 DEF IsMember
    <3>2. QED
      BY <3>1
  <2>3. QED
    BY <2>1, <2>2
<1>2. q \in Carried
  BY <1>1 DEF Carried
<1>3. Attested(q, tenant, member) /\ Passed(q)
  BY DEF Attested, Passed, Owned
<1>4. request' = [request EXCEPT ![c] = q]
  BY DEF Come
<1> HIDE DEF q
<1>5. QED
  BY <1>2, <1>3, <1>4, QuietStep DEF Good

LEMMA ArriveInv ==
  ASSUME IInv, NEW c \in Callers, NEW r \in Replicas, NEW t \in Presentable, Arrive(c, r, t)
  PROVE  IInv'
<1>1. t.account \in Accounts /\ t.role \in Roles
  BY DEF Presentable, IInv, TypeOK, Token
<1>2. "route" \in Asks
  BY DEF Asks
<1>3. QED
  BY <1>1, <1>2, ComeInv DEF Arrive

LEMMA ArriveLoginInv ==
  ASSUME IInv, NEW c \in Callers, NEW a \in Accounts, ArriveLogin(c, a)
  PROVE  IInv'
<1>1. PICK role \in Roles : role = (CHOOSE x \in Roles : TRUE)
  BY RolesAssumption
<1>2. "login" \in Asks
  BY DEF Asks
<1>3. QED
  BY <1>1, <1>2, ComeInv DEF ArriveLogin

-----------------------------------------------------------------------------
(* It is let on.                                                           *)
LEMMA MoveInv ==
  ASSUME IInv, NEW c \in Callers, request[c].at # "idle",
         NEW at \in {"member", "route"}, Move(c, at) \/ Refuse(c),
         Move(c, at) => Good([request[c] EXCEPT !.at = at]),
         UNCHANGED <<store, tokens>>, Rest
  PROVE  IInv'
BY QuietStep DEF Move, Refuse

LEMMA CheckTenantInv ==
  ASSUME IInv, NEW c \in Callers, CheckTenant(c)
  PROVE  IInv'
<1>1. Good(request[c]) /\ request[c] \in Carried /\ request[c].at = "tenant"
  BY GoodType DEF CheckTenant
<1>2. CASE tenant[Home[request[c].account]] = "active"
  <2>1. request[c].tenantOk
    BY <1>1, <1>2 DEF Good, Attested
  <2>2. Good([request[c] EXCEPT !.at = "member"])
    BY <1>1, <2>1 DEF Good, Carried, Attested, Passed, Owned
  <2>3. QED
    BY <1>1, <1>2, <2>2, MoveInv DEF CheckTenant
<1>3. CASE tenant[Home[request[c].account]] # "active"
  BY <1>3, QuietStep DEF CheckTenant, Refuse
<1>4. QED
  BY <1>2, <1>3

LEMMA CheckMemberInv ==
  ASSUME IInv, NEW c \in Callers, CheckMember(c)
  PROVE  IInv'
<1>1. /\ Good(request[c]) /\ request[c] \in Carried
      /\ request[c].at = "member" /\ request[c].ask # "login"
  BY GoodType DEF CheckMember
<1>2. CASE Admitted(request[c])
  <2>1. request[c].memberOk /\ Launched(Home[request[c].account])
    BY <1>1, <1>2 DEF Good, Attested, IsMember, Admitted
  <2>2. Good([request[c] EXCEPT !.at = "route"])
    BY <1>1, <2>1 DEF Good, Carried, Attested, Passed, Owned, Entitled
  <2>3. QED
    BY <1>1, <1>2, <2>2, MoveInv DEF CheckMember
<1>3. CASE ~Admitted(request[c])
  BY <1>3, QuietStep DEF CheckMember, Refuse
<1>4. QED
  BY <1>2, <1>3

(* Only strong hashes are compared.                                        *)
LEMMA StrongOnly ==
  ASSUME NEW stored, NEW right, VerifyCredential(stored, right)
  PROVE  stored \in {"argon2id", "bcrypt"}
BY DEF VerifyCredential

LEMMA IssueTokenInv ==
  ASSUME IInv, NEW c \in Callers, NEW r \in Replicas, NEW right \in BOOLEAN,
         IssueToken(c, r, right)
  PROVE  IInv'
<1> DEFINE a == request[c].account
<1>1. /\ Good(request[c]) /\ request[c] \in Carried
      /\ request[c].at = "member" /\ request[c].ask = "login"
  BY GoodType DEF IssueToken
<1>2. CASE /\ member[a] \in Roles
           /\ VerifyCredential(settings.credentials[a], right)
           /\ request' = [request EXCEPT ![c].at = "granted", ![c].role = member[a]]
           /\ tokens' = tokens \cup {[account |-> a, role |-> member[a], key |-> key[r]]}
  <2> DEFINE q == [request[c] EXCEPT !.at = "granted", !.role = member[a]]
  <2>1. q \in Carried
    BY <1>1, <1>2 DEF Carried
  <2>2. request[c].memberOk /\ request[c].tenantOk
    BY <1>1, <1>2 DEF Good, Attested, IsMember, Passed
  <2>3. settings.credentials[a] \in {"argon2id", "bcrypt"}
    BY <1>2, StrongOnly
  <2>4. /\ q.account = a /\ q.ask = "login" /\ q.threads = {} /\ q.at = "granted"
        /\ q.memberOk /\ q.tenantOk
    BY <1>1, <2>2 DEF Carried, Good, Passed
  <2> HIDE DEF q
  <2>5. Good(q)
    BY <2>1, <2>3, <2>4 DEF Good, Attested, Passed, Entitled, Owned
  <2>6. request' = [request EXCEPT ![c] = q]
    BY <1>2 DEF q
  <2>7. Unmoved /\ UNCHANGED store /\ Rest
    BY DEF IssueToken, store, Rest, Unmoved
  <2>8. RequestInv' /\ request' \in [Callers -> Request]
    BY <2>5, <2>6, <2>7, RequestStep
  <2>9. /\ [account |-> a, role |-> member[a], key |-> key[r]] \in Token
        /\ key[r] <= newest /\ key[r] >= newest - 1
    BY <1>1, <1>2, BoundsAssumption DEF Token, Carried, IInv, TypeOK, KeyInv
  <2>10. TypeOK' /\ KeyInv'
    BY <1>2, <2>7, <2>8, <2>9 DEF IInv, TypeOK, KeyInv, store, Rest
  <2>11. QED
    BY <2>8, <2>10 DEF IInv
<1>3. CASE Refuse(c) /\ UNCHANGED tokens
  BY <1>3, QuietStep DEF IssueToken, Refuse
<1>4. QED
  BY <1>1, <1>2, <1>3 DEF IssueToken

-----------------------------------------------------------------------------
(* The routes.                                                             *)

(* Threads that may be told of.                                            *)
Mine(q, threads) ==
  threads \subseteq Threads /\ \A th \in threads :
    /\ Home[Owner[th]] = Home[q.account]
    /\ q.role \in Staff \/ Owner[th] = q.account

LEMMA VisibleMine ==
  ASSUME NEW q
  PROVE  Mine(q, Visible(q)) /\ \A th : Usable(q, th) => Mine(q, {th})
BY DEF Mine, Visible, InTenant, Usable

LEMMA GrantGood ==
  ASSUME NEW q, Good(q), q.at \in {"route", "owner", "stream"}, NEW threads, Mine(q, threads)
  PROVE  Good([q EXCEPT !.at = "granted", !.threads = threads])
<1>1. q \in Carried /\ q.ask # "login" /\ q.memberOk /\ q.tenantOk /\ Launched(Home[q.account])
  BY DEF Good, Passed, Entitled
<1>2. PICK p : p = [q EXCEPT !.at = "granted", !.threads = threads]
  OBVIOUS
<1>3. /\ p \in Carried /\ p.at = "granted" /\ p.threads = threads
      /\ p.account = q.account /\ p.role = q.role /\ p.ask = q.ask
      /\ p.memberOk = q.memberOk /\ p.tenantOk = q.tenantOk
  BY <1>1, <1>2 DEF Carried, Mine
<1>4. Attested(p, tenant, member)
  BY <1>1, <1>3 DEF Attested
<1>5. Passed(p)
  BY <1>1, <1>3 DEF Passed, Entitled, Owned, Mine
<1>6. QED
  BY <1>2, <1>3, <1>4, <1>5 DEF Good

LEMMA GrantInv ==
  ASSUME IInv, NEW c \in Callers, request[c].at \in {"route", "owner", "stream"},
         NEW threads, Grant(c, threads) => Mine(request[c], threads),
         Grant(c, threads) \/ Refuse(c), UNCHANGED <<store, tokens>>, Rest
  PROVE  IInv'
<1>1. Good(request[c])
  BY GoodType
<1>2. CASE Refuse(c)
  BY <1>2, QuietStep DEF Refuse
<1>3. CASE Grant(c, threads)
  <2>1. Good([request[c] EXCEPT !.at = "granted", !.threads = threads])
    BY <1>1, <1>3, GrantGood
  <2>2. request' = [request EXCEPT ![c] =
                      [request[c] EXCEPT !.at = "granted", !.threads = threads]]
    BY <1>3 DEF Grant
  <2>3. QED
    BY <2>1, <2>2, QuietStep
<1>4. QED
  BY <1>2, <1>3

LEMMA ContinueGood ==
  ASSUME NEW q, Good(q), q.at = "route", NEW th \in Threads,
         NEW at \in {"owner", "stream"}, NEW ask \in {"chat", "history", "resume"},
         at = "owner" => Mine(q, {th})
  PROVE  Good([q EXCEPT !.at = at, !.ask = ask, !.threads = {th}])
<1>1. q \in Carried /\ q.ask # "login" /\ q.memberOk /\ q.tenantOk /\ Launched(Home[q.account])
  BY DEF Good, Passed, Entitled
<1>2. PICK p : p = [q EXCEPT !.at = at, !.ask = ask, !.threads = {th}]
  OBVIOUS
<1>3. /\ p \in Carried /\ p.at = at /\ p.threads = {th}
      /\ p.account = q.account /\ p.role = q.role /\ p.ask = ask
      /\ p.memberOk = q.memberOk /\ p.tenantOk = q.tenantOk
  BY <1>1, <1>2 DEF Carried, Asks
<1>4. Attested(p, tenant, member)
  BY <1>1, <1>3 DEF Attested
<1>5. Passed(p)
  BY <1>1, <1>3 DEF Passed, Entitled, Owned, Mine
<1>6. QED
  BY <1>2, <1>3, <1>4, <1>5 DEF Good

LEMMA ContinueInv ==
  ASSUME IInv, NEW c \in Callers, Routed(c), NEW th \in Threads,
         NEW at \in {"owner", "stream"}, NEW ask \in {"chat", "history", "resume"},
         at = "owner" /\ Continue(c, at, ask, th) => Mine(request[c], {th}),
         Continue(c, at, ask, th) \/ Refuse(c), UNCHANGED <<store, tokens>>, Rest
  PROVE  IInv'
<1>1. Good(request[c]) /\ request[c].at = "route"
  BY GoodType DEF Routed
<1>2. CASE Refuse(c)
  BY <1>2, QuietStep DEF Refuse
<1>3. CASE Continue(c, at, ask, th)
  <2>1. Good([request[c] EXCEPT !.at = at, !.ask = ask, !.threads = {th}])
    BY <1>1, <1>3, ContinueGood
  <2>2. request' = [request EXCEPT ![c] =
                      [request[c] EXCEPT !.at = at, !.ask = ask, !.threads = {th}]]
    BY <1>3 DEF Continue
  <2>3. QED
    BY <2>1, <2>2, QuietStep
<1>4. QED
  BY <1>2, <1>3

LEMMA GrantRoutesInv ==
  ASSUME IInv, NEW c \in Callers, NEW th \in Threads,
         \/ GetCase(c, th) \/ GetOrder(c, th) \/ Decide(c, th) \/ ReadSession(c)
         \/ ResumeSession(c) \/ ListSessions(c) \/ ListApprovals(c) \/ SearchAudit(c)
         \/ ListMembers(c)
  PROVE  IInv'
<1> DEFINE q == request[c]
<1>1. q.at \in {"route", "owner", "stream"} /\ UNCHANGED <<store, tokens>> /\ Rest
  BY DEF GetCase, GetOrder, Decide, ReadSession, ResumeSession, ListSessions,
     ListApprovals, SearchAudit, ListMembers, Routed
<1>2. Good(q) /\ q.threads \subseteq Threads
  BY <1>1, GoodType DEF Carried
<1>3. \A x : Usable(q, x) => Mine(q, {x})
  BY VisibleMine
<1>4. Mine(q, Visible(q)) /\ Mine(q, {})
  BY VisibleMine DEF Mine
<1>5. CASE GetCase(c, th)
  <2>1. th \in Visible(q) => Mine(q, {th})
    BY <1>4 DEF Mine
  <2>2. QED
    BY <1>1, <1>5, <2>1, GrantInv, QuietStep DEF GetCase, Refuse
<1>6. CASE GetOrder(c, th)
  <2>1. (Grant(c, {th}) /\ Mine(q, {th})) \/ Refuse(c)
    BY <1>6 DEF GetOrder, Mine
  <2>2. QED
    BY <1>1, <2>1, GrantInv, QuietStep DEF Refuse
<1>7. CASE Decide(c, th)
  BY <1>1, <1>3, <1>7, GrantInv, QuietStep DEF Decide, Refuse
<1>8. CASE ReadSession(c)
  <2>1. q.at = "owner"
    BY <1>8 DEF ReadSession
  <2>2. Mine(q, q.threads)
    BY <1>2, <2>1 DEF Good, Passed, Owned, Mine
  <2>3. QED
    BY <1>1, <1>8, <2>2, GrantInv, QuietStep DEF ReadSession, Refuse
<1>9. CASE ResumeSession(c)
  <2>1. (Mine(q, q.threads) /\ Grant(c, q.threads)) \/ Refuse(c)
    BY <1>2, <1>3, <1>9 DEF ResumeSession, Mine
  <2>2. QED
    BY <1>1, <2>1, GrantInv, QuietStep DEF Refuse
<1>10. CASE ListSessions(c) \/ ListApprovals(c)
  BY <1>1, <1>4, <1>10, GrantInv DEF ListSessions, ListApprovals
<1>11. CASE SearchAudit(c)
  <2>1. PICK asked \in SUBSET Threads : Grant(c, FilterAudit(AuditOf(q), asked))
    BY <1>11 DEF SearchAudit
  <2>2. Mine(q, FilterAudit(AuditOf(q), asked))
    BY <1>4 DEF FilterAudit, AuditOf, Mine
  <2>3. QED
    BY <1>1, <2>1, <2>2, GrantInv
<1>12. CASE ListMembers(c)
  BY <1>1, <1>4, <1>12, GrantInv, QuietStep DEF ListMembers, Refuse
<1>13. QED
  BY <1>5, <1>6, <1>7, <1>8, <1>9, <1>10, <1>11, <1>12

LEMMA ContinueRoutesInv ==
  ASSUME IInv, NEW c \in Callers, NEW th \in Threads,
         Resume(c, th) \/ \E ask \in {"chat", "history"} : CheckSession(c, th, ask)
  PROVE  IInv'
<1>1. CASE Resume(c, th)
  BY <1>1, ContinueInv DEF Resume
<1>2. CASE \E ask \in {"chat", "history"} : CheckSession(c, th, ask)
  <2>1. PICK ask \in {"chat", "history"} : CheckSession(c, th, ask)
    BY <1>2
  <2>2. Routed(c) /\ UNCHANGED <<store, tokens>> /\ Rest
    BY <2>1 DEF CheckSession
  <2>3. (Continue(c, "owner", ask, th) /\ Mine(request[c], {th})) \/ Refuse(c)
    BY <2>1, VisibleMine DEF CheckSession
  <2>4. QED
    BY <2>2, <2>3, ContinueInv, QuietStep DEF Refuse
<1>3. QED
  BY <1>1, <1>2

(* The two routes that write a session.                                    *)
LEMMA WriteRoutesInv ==
  ASSUME IInv, NEW c \in Callers, NEW th \in Threads, NewSession(c, th) \/ StartChat(c)
  PROVE  IInv'
<1> DEFINE q == request[c]
<1>1. /\ UNCHANGED <<tenant, member, tokens>> /\ Rest /\ Unmoved
      /\ q.at \in {"route", "owner"}
  BY DEF NewSession, StartChat, Routed, Rest, Unmoved
<1>2. Good(q) /\ q \in Carried
  BY <1>1, GoodType
<1>3. PICK threads : (Mine(q, threads) /\ Grant(c, threads)) \/ Refuse(c)
  <2>1. CASE NewSession(c, th)
    BY <1>2, <2>1 DEF NewSession, Mine
  <2>2. CASE StartChat(c)
    <3>1. q.at = "owner" /\ Grant(c, q.threads)
      BY <2>2 DEF StartChat
    <3>2. Mine(q, q.threads)
      BY <1>2, <3>1 DEF Good, Passed, Owned, Mine, Carried
    <3>3. QED
      BY <3>1, <3>2
  <2>3. QED
    BY <2>1, <2>2
<1>4. RequestInv' /\ request' \in [Callers -> Request]
  <2>1. CASE Refuse(c)
    BY <1>1, <2>1, RequestStep DEF Refuse
  <2>2. CASE Mine(q, threads) /\ Grant(c, threads)
    <3>1. Good([q EXCEPT !.at = "granted", !.threads = threads])
      BY <1>1, <1>2, <2>2, GrantGood
    <3>2. request' = [request EXCEPT ![c] = [q EXCEPT !.at = "granted", !.threads = threads]]
      BY <2>2 DEF Grant
    <3>3. QED
      BY <1>1, <3>1, <3>2, RequestStep
  <2>3. QED
    BY <1>3, <2>1, <2>2
<1>5. /\ session' \in [Threads -> {"none", "active", "expired", "deleting", "gone"}]
      /\ streamer' \in [Threads -> Accounts \cup {Nobody}]
  <2>1. CASE NewSession(c, th)
    BY <2>1 DEF NewSession, IInv, TypeOK
  <2>2. CASE StartChat(c)
    <3>1. PICK x \in q.threads :
            /\ streamer' = [streamer EXCEPT ![x] = IF @ = Nobody THEN q.account ELSE @]
            /\ session' = [session EXCEPT ![x] = IF @ = "expired" THEN "active" ELSE @]
      BY <2>2 DEF StartChat
    <3>2. x \in Threads /\ q.account \in Accounts
      BY <1>2 DEF Carried
    <3>3. QED
      BY <3>1, <3>2 DEF IInv, TypeOK
  <2>3. QED
    BY <2>1, <2>2
<1>6. TypeOK' /\ KeyInv'
  BY <1>1, <1>4, <1>5 DEF IInv, TypeOK, KeyInv, Rest
<1>7. QED
  BY <1>4, <1>6 DEF IInv

LEMMA LeaveInv ==
  ASSUME IInv, NEW c \in Callers, Leave(c)
  PROVE  IInv'
BY QuietStep DEF Leave, Refuse

-----------------------------------------------------------------------------
(* The world around the requests.                                          *)

(* A change of tenants and members is seen by every request under way.     *)
LEMMA WitnessGood ==
  ASSUME NEW q, Good(q), settings' = settings, NEW p, p = Witness(q, tenant', member')
  PROVE  Good(p)'
<1>1. q \in Carried /\ q.at # "idle"
  BY IdleApart DEF Good
<1>2. /\ p \in Carried /\ p.at = q.at /\ p.account = q.account /\ p.role = q.role
      /\ p.ask = q.ask /\ p.threads = q.threads
      /\ p.tenantOk = (q.tenantOk \/ tenant'[Home[q.account]] = "active")
      /\ p.memberOk = (q.memberOk \/ IsMember(q.account, q.role, q.ask, member'))
  BY <1>1 DEF Witness, Carried
<1>3. Attested(p, tenant', member')
  BY <1>2 DEF Attested, IsMember
<1>4. Passed(p)'
  BY <1>2 DEF Good, Passed, Entitled, Owned, Launched
<1>5. QED
  BY <1>2, <1>3, <1>4 DEF Good, Attested, IsMember

LEMMA ChangeInv ==
  ASSUME IInv, Change, tenant' \in [Tenants -> {"active", "suspended"}],
         member' \in [Accounts -> Roles \cup {"revoked"}]
  PROVE  IInv'
<1>1. settings' = settings
  BY DEF Change
<1>2. ASSUME NEW c \in Callers PROVE (request[c] = Idle \/ Good(request[c]))'
  <2>1. request'[c] = Witness(request[c], tenant', member')
    BY DEF Change
  <2>2. CASE request[c] = Idle
    BY <2>1, <2>2 DEF Witness, Idle
  <2>3. CASE Good(request[c])
    <3>1. PICK q, p : q = request[c] /\ p = request'[c]
      OBVIOUS
    <3>2. Good(p)'
      BY <1>1, <2>1, <2>3, <3>1, WitnessGood
    <3>3. QED
      BY <3>1, <3>2 DEF Good, Attested, Passed, Entitled, Owned, Launched, IsMember
  <2>4. QED
    BY <2>2, <2>3 DEF IInv, RequestInv
<1>3. RequestInv'
  BY <1>2 DEF RequestInv
<1>4. request' \in [Callers -> Request]
  <2>1. \A c \in Callers : request'[c] \in Request
    BY <1>2 DEF Good, Carried, Request
  <2>2. QED
    BY <2>1 DEF Change
<1>5. changes' \in 0..MaxChanges
  BY BoundsAssumption DEF Change, IInv, TypeOK
<1>6. TypeOK' /\ KeyInv'
  BY <1>4, <1>5 DEF Change, IInv, TypeOK, KeyInv
<1>7. QED
  BY <1>3, <1>6 DEF IInv

LEMMA OthersInv ==
  ASSUME IInv,
         \/ \E t \in Tenants, s \in {"active", "suspended"} : SetTenantStatus(t, s)
         \/ \E a \in Accounts : RevokeMembership(a) \/ \E role \in Roles : AddMembership(a, role)
  PROVE  IInv'
<1>1. Change
  BY DEF SetTenantStatus, RevokeMembership, AddMembership
<1>2. /\ tenant' \in [Tenants -> {"active", "suspended"}]
      /\ member' \in [Accounts -> Roles \cup {"revoked"}]
  BY DEF SetTenantStatus, RevokeMembership, AddMembership, IInv, TypeOK
<1>3. QED
  BY <1>1, <1>2, ChangeInv

(* Requests are left alone.                                                *)
LEMMA AsideInv ==
  ASSUME IInv, Unmoved, request' = request
  PROVE  RequestInv' /\ request' \in [Callers -> Request]
<1>1. ASSUME NEW c \in Callers PROVE (request[c] = Idle \/ Good(request[c]))'
  BY DEF Unmoved, IInv, RequestInv, Good, Attested, IsMember, Passed, Entitled, Owned, Launched
<1>2. QED
  BY <1>1 DEF RequestInv, IInv, TypeOK

LEMMA KeysInv ==
  ASSUME IInv,
         \/ \E t \in tokens : TokenExpires(t)
         \/ Rotate
         \/ \E r \in Replicas : Restart(r)
         \/ \E th \in Threads : Age(th)
         \/ UNCHANGED vars
  PROVE  IInv'
<1>1. Unmoved /\ request' = request
  BY DEF TokenExpires, Rotate, Restart, Age, vars, store, Rest, Unmoved
<1>2. RequestInv' /\ request' \in [Callers -> Request]
  BY <1>1, AsideInv
<1>3. TypeOK' /\ KeyInv'
  <2>1. CASE \E t \in tokens : TokenExpires(t)
    BY <1>2, <2>1 DEF TokenExpires, IInv, TypeOK, KeyInv, store, Rest
  <2>2. CASE Rotate
    <3>1. newest \in Nat /\ newest' = newest + 1 /\ newest' \in 0..MaxKeys
      BY <2>2, BoundsAssumption DEF Rotate, IInv, TypeOK
    <3>2. key' \in [Replicas -> 0..newest'] /\ KeyInv'
      BY <2>2, <3>1 DEF Rotate, IInv, TypeOK, KeyInv
    <3>3. QED
      BY <1>2, <2>2, <3>1, <3>2 DEF Rotate, IInv, TypeOK, store
  <2>3. CASE \E r \in Replicas : Restart(r)
    <3>1. newest \in 0..MaxKeys /\ newest' = newest
      BY <2>3 DEF Restart, IInv, TypeOK
    <3>2. key' \in [Replicas -> 0..newest'] /\ KeyInv'
      BY <2>3, <3>1 DEF Restart, IInv, TypeOK, KeyInv
    <3>3. QED
      BY <1>2, <2>3, <3>1, <3>2 DEF Restart, IInv, TypeOK, store
  <2>4. CASE \E th \in Threads : Age(th)
    <3>1. PICK th \in Threads : Age(th)
      BY <2>4
    <3>2. PICK s \in Later[session[th]] : session' = [session EXCEPT ![th] = s]
      BY <3>1 DEF Age
    <3>3. s \in {"expired", "deleting", "gone"}
      BY <3>2 DEF Later, IInv, TypeOK
    <3>4. ages' \in 0..MaxAge
      BY <3>1, BoundsAssumption DEF Age, IInv, TypeOK
    <3>5. QED
      BY <1>2, <3>1, <3>2, <3>3, <3>4 DEF Age, IInv, TypeOK, KeyInv
  <2>5. CASE UNCHANGED vars
    BY <1>2, <2>5 DEF vars, store, IInv, TypeOK, KeyInv
  <2>6. QED
    BY <2>1, <2>2, <2>3, <2>4, <2>5
<1>4. QED
  BY <1>2, <1>3 DEF IInv

-----------------------------------------------------------------------------
LEMMA InitInv == Init => IInv
<1> SUFFICES ASSUME Init PROVE IInv
  OBVIOUS
<1>1. member \in [Accounts -> Roles] /\ settings \in Settings
  BY ConfigurationsAssumption DEF Init
<1>2. TypeOK
  BY <1>1, BoundsAssumption DEF Init, TypeOK, Request
<1>3. RequestInv /\ KeyInv
  BY DEF Init, RequestInv, KeyInv
<1>4. QED
  BY <1>2, <1>3 DEF IInv

LEMMA NextInv == IInv /\ [Next]_vars => IInv'
<1> SUFFICES ASSUME IInv, [Next]_vars PROVE IInv'
  OBVIOUS
<1>1. ASSUME NEW c \in Callers, Route(c) PROVE IInv'
  <2>1. CASE \/ ReadSession(c) \/ ResumeSession(c) \/ ListSessions(c) \/ ListApprovals(c)
             \/ SearchAudit(c) \/ ListMembers(c) \/ StartChat(c)
    <3>1. CASE Threads # {}
      BY <2>1, <3>1, GrantRoutesInv, WriteRoutesInv
    <3>2. CASE Threads = {}
      <4>1. request[c].at \in {"route", "owner", "stream"}
        BY <2>1 DEF ReadSession, ResumeSession, ListSessions, ListApprovals, SearchAudit,
           ListMembers, StartChat, Routed
      <4>2. Good(request[c]) /\ request[c].threads = {}
        BY <3>2, <4>1, GoodType DEF Carried
      <4>3. ~StartChat(c) /\ UNCHANGED <<store, tokens>> /\ Rest
        BY <2>1, <4>2 DEF ReadSession, ResumeSession, ListSessions, ListApprovals,
           SearchAudit, ListMembers, StartChat
      <4>4. Grant(c, {}) \/ Refuse(c)
        BY <2>1, <3>2, <4>2, <4>3 DEF ReadSession, ResumeSession, ListSessions,
           ListApprovals, SearchAudit, ListMembers, Visible, InTenant, FilterAudit
      <4>5. Mine(request[c], {})
        BY DEF Mine
      <4>6. QED
        BY <4>1, <4>3, <4>4, <4>5, GrantInv
    <3>3. QED
      BY <3>1, <3>2
  <2>2. CASE \E th \in Threads :
               \/ NewSession(c, th) \/ GetCase(c, th) \/ GetOrder(c, th) \/ Decide(c, th)
               \/ Resume(c, th) \/ \E ask \in {"chat", "history"} : CheckSession(c, th, ask)
    BY <2>2, GrantRoutesInv, ContinueRoutesInv, WriteRoutesInv
  <2>3. QED
    BY <1>1, <2>1, <2>2 DEF Route
<1>2. CASE \E c \in Callers :
             \/ \E a \in Accounts : ArriveLogin(c, a)
             \/ \E r \in Replicas, t \in Presentable : Arrive(c, r, t)
             \/ CheckTenant(c) \/ CheckMember(c)
             \/ \E r \in Replicas, right \in BOOLEAN : IssueToken(c, r, right)
             \/ Route(c)
             \/ Leave(c)
  BY <1>1, <1>2, ArriveLoginInv, ArriveInv, CheckTenantInv, CheckMemberInv, IssueTokenInv,
     LeaveInv
<1>3. CASE \/ \E t \in Tenants, s \in {"active", "suspended"} : SetTenantStatus(t, s)
           \/ \E a \in Accounts : RevokeMembership(a) \/ \E role \in Roles : AddMembership(a, role)
  BY <1>3, OthersInv
<1>4. CASE \/ \E t \in tokens : TokenExpires(t)
           \/ Rotate
           \/ \E r \in Replicas : Restart(r)
           \/ \E th \in Threads : Age(th)
           \/ UNCHANGED vars
  BY <1>4, KeysInv
<1>5. QED
  BY <1>2, <1>3, <1>4 DEF Next

LEMMA InvAlways == Spec => []IInv
<1>1. QED
  BY InitInv, NextInv, PTL DEF Spec

-----------------------------------------------------------------------------
(* Whatever requests, changes of members and tenants, expiring sessions    *)
(* and key rotations do, every variable stays in its type.                 *)
THEOREM TypeCorrect == Spec => []TypeOK
<1>1. IInv => TypeOK
  BY DEF IInv
<1>2. QED
  BY <1>1, InvAlways, PTL

(* However tenants and members change between the steps of a request,      *)
(* whoever is served was, since the request came, a member with that role  *)
(* of an active tenant, on the white list or with a strong credential.     *)
THEOREM ServedEntitled == Spec => []EntitledOnly
<1>1. IInv => EntitledOnly
  BY GoodType, IdleApart DEF IInv, EntitledOnly, Good, Passed, Entitled
<1>2. QED
  BY <1>1, InvAlways, PTL

(* No route, however its reads are interleaved, tells of a thread outside  *)
(* the tenant, or tells a customer of another's.                           *)
THEOREM AnswersOwn == Spec => []OwnOnly
<1>1. IInv => OwnOnly
  BY GoodType DEF OwnOnly, Good, Passed, Owned
<1>2. QED
  BY <1>1, InvAlways, PTL

(* With kids derived from secrets, any number of rotations made as the     *)
(* configuration asks leaves every token valid where it should be.         *)
THEOREM DerivedKidsRotate == Spec => []DerivedKidRotation
<1>1. IInv => DerivedKidRotation
  <2> SUFFICES ASSUME IInv, settings.kid = "derived", NEW t \in tokens, NEW r \in Replicas,
                      key[r] >= t.key
               PROVE  Authentic(r, t)
    BY DEF DerivedKidRotation, OldTokensValid
  <2>1. key[r] \in Nat /\ t.key \in Nat /\ (t.key = key[r] \/ t.key = key[r] - 1)
    BY BoundsAssumption DEF IInv, TypeOK, KeyInv, Token
  <2>2. <<<<"digest", t.key>>, t.key>> \in Pool(key[r])
    BY <2>1 DEF Pool, Kid
  <2>3. QED
    BY <2>2 DEF Authentic, Kid
<1>2. QED
  BY <1>1, InvAlways, PTL

-----------------------------------------------------------------------------
(* Tallies of bags, any function to numbers over a finite set.             *)

LEMMA TokenOf ==
  ASSUME NEW f, NEW z
  PROVE  z \in Tokens(f) <=> \E x \in DOMAIN f : \E n \in 1..f[x] : z = <<x, n>>
BY DEF Tokens

LEMMA CountTo ==
  ASSUME NEW n \in Nat
  PROVE  IsFiniteSet(1..n) /\ Cardinality(1..n) = n
<1>1. 1 \in Int /\ n \in Int
  OBVIOUS
<1>2. IsFiniteSet(1..n) /\ Cardinality(1..n) = IF 1 > n THEN 0 ELSE n - 1 + 1
  BY <1>1, FS_Interval
<1>3. QED
  BY <1>2

LEMMA TokensFinite ==
  ASSUME NEW D, IsFiniteSet(D), NEW f \in [D -> Nat]
  PROVE  IsFiniteSet(Tokens(f)) /\ Tally(f) \in Nat
<1> DEFINE part == [x \in D |-> {x} \X (1..f[x])]
           parts == {part[x] : x \in D}
<1>1. part \in Surjection(D, parts)
  BY DEF Surjection
<1>2. IsFiniteSet(parts)
  BY <1>1, FS_Surjection
<1>3. ASSUME NEW x \in D PROVE IsFiniteSet(part[x])
  <2>1. IsFiniteSet({x}) /\ IsFiniteSet(1..f[x])
    BY FS_Singleton, CountTo
  <2>2. QED
    BY <2>1, FS_Product
<1>4. IsFiniteSet(UNION parts)
  BY <1>2, <1>3, FS_UNION
<1>5. Tokens(f) = UNION parts
  BY DEF Tokens
<1>6. QED
  BY <1>4, <1>5, FS_CardinalityType DEF Tally

(* What can be moved, without two things meeting, into another bag.        *)
LEMMA TallyMoved ==
  ASSUME NEW D, NEW f \in [D -> Nat],
         NEW C, IsFiniteSet(C), NEW g \in [C -> Nat],
         NEW j, \A x \in D : f[x] > 0 => j[x] \in C /\ f[x] <= g[j[x]],
         \A x, y \in D : f[x] > 0 /\ f[y] > 0 /\ j[x] = j[y] => x = y
  PROVE  Tally(f) <= Tally(g)
<1> DEFINE h == [z \in Tokens(f) |-> <<j[z[1]], z[2]>>]
<1>1. ASSUME NEW z \in Tokens(f)
      PROVE  /\ z = <<z[1], z[2]>> /\ z[1] \in D /\ z[2] \in 1..f[z[1]] /\ f[z[1]] > 0
             /\ h[z] \in Tokens(g)
  <2>1. PICK x \in D : \E n \in 1..f[x] : z = <<x, n>>
    BY TokenOf
  <2> PICK n \in 1..f[x] : z = <<x, n>>
    BY <2>1
  <2>2. f[x] \in Nat /\ f[x] > 0 /\ j[x] \in C /\ n \in 1..g[j[x]]
    BY <2>1
  <2>3. <<j[x], n>> \in Tokens(g)
    BY <2>2, TokenOf
  <2>4. QED
    BY <2>1, <2>2, <2>3
<1>2. h \in [Tokens(f) -> Tokens(g)]
  BY <1>1
<1>3. ASSUME NEW y \in Tokens(f), NEW z \in Tokens(f), h[y] = h[z] PROVE y = z
  <2>1. j[y[1]] = j[z[1]] /\ y[2] = z[2]
    BY <1>3
  <2>2. QED
    BY <2>1, <1>1
<1>4. h \in Injection(Tokens(f), Tokens(g))
  BY <1>2, <1>3 DEF Injection, IsInjective
<1>5. QED
  BY <1>4, TokensFinite, FS_Injection DEF Tally

LEMMA TallyMore ==
  ASSUME NEW D, IsFiniteSet(D), NEW f \in [D -> Nat], NEW d \in D, NEW g \in [D -> Nat],
         g[d] = f[d] + 1, \A x \in D : x # d => g[x] = f[x]
  PROVE  Tally(g) = Tally(f) + 1
<1> DEFINE new == <<d, f[d] + 1>>
<1>1. ASSUME NEW z PROVE z \in Tokens(g) <=> z \in Tokens(f) \cup {new}
  <2>1. ASSUME z \in Tokens(g) PROVE z \in Tokens(f) \cup {new}
    <3>1. PICK x \in D : \E n \in 1..g[x] : z = <<x, n>>
      BY <2>1, TokenOf
    <3> PICK n \in 1..g[x] : z = <<x, n>>
      BY <3>1
    <3>2. x # d \/ n # f[d] + 1 => n \in 1..f[x]
      BY <3>1
    <3>3. QED
      BY <3>1, <3>2, TokenOf
  <2>2. ASSUME z \in Tokens(f) PROVE z \in Tokens(g)
    <3>1. PICK x \in D : \E n \in 1..f[x] : z = <<x, n>>
      BY <2>2, TokenOf
    <3> PICK n \in 1..f[x] : z = <<x, n>>
      BY <3>1
    <3>2. n \in 1..g[x]
      BY <3>1
    <3>3. QED
      BY <3>1, <3>2, TokenOf
  <2>3. new \in Tokens(g)
    BY TokenOf
  <2>4. QED
    BY <2>1, <2>2, <2>3
<1>2. new \notin Tokens(f)
  <2>1. \A n \in 1..f[d] : n # f[d] + 1
    OBVIOUS
  <2>2. QED
    BY <2>1, TokenOf
<1>3. IsFiniteSet(Tokens(f))
  BY TokensFinite
<1>4. QED
  BY <1>1, <1>2, <1>3, FS_AddElement DEF Tally

(* Where only d counts.                                                    *)
LEMMA TallyOfOne ==
  ASSUME NEW f, NEW d \in DOMAIN f, f[d] \in Nat, \A x \in DOMAIN f \ {d} : f[x] = 0
  PROVE  Tally(f) = f[d]
<1>1. ASSUME NEW z PROVE z \in Tokens(f) <=> z \in {d} \X (1..f[d])
  <2>1. \A x \in DOMAIN f : \A n \in 1..f[x] : x = d
    OBVIOUS
  <2>2. QED
    BY <2>1, TokenOf
<1>2. Tokens(f) = {d} \X (1..f[d])
  BY <1>1
<1>3. IsFiniteSet({d}) /\ Cardinality({d}) = 1
  BY FS_Singleton
<1>4. IsFiniteSet(1..f[d]) /\ Cardinality(1..f[d]) = f[d]
  BY CountTo
<1>5. Cardinality({d} \X (1..f[d])) = Cardinality({d}) * Cardinality(1..f[d])
  BY <1>3, <1>4, FS_Product
<1>6. Cardinality({d} \X (1..f[d])) = f[d]
  BY <1>3, <1>4, <1>5
<1>7. QED
  BY <1>2, <1>6 DEF Tally

LEMMA TallyOfNone ==
  ASSUME NEW f, \A x \in DOMAIN f : f[x] = 0
  PROVE  Tally(f) = 0
<1>1. Tokens(f) = {}
  BY DEF Tokens
<1>2. QED
  BY <1>1, FS_EmptySet DEF Tally

(* A bag is no more than its two parts.                                    *)
LEMMA TallyOfParts ==
  ASSUME NEW D, IsFiniteSet(D), NEW f \in [D -> Nat],
         NEW A, IsFiniteSet(A), NEW g \in [A -> Nat],
         NEW B, IsFiniteSet(B), NEW h \in [B -> Nat],
         \A x \in D : \/ x \in A /\ f[x] <= g[x]
                      \/ x \in B /\ f[x] <= h[x]
  PROVE  Tally(f) <= Tally(g) + Tally(h)
<1>1. /\ IsFiniteSet(Tokens(f)) /\ IsFiniteSet(Tokens(g)) /\ IsFiniteSet(Tokens(h))
      /\ Tally(f) \in Nat /\ Tally(g) \in Nat /\ Tally(h) \in Nat
  BY TokensFinite
<1>2. ASSUME NEW z \in Tokens(f) PROVE z \in Tokens(g) \cup Tokens(h)
  <2>1. PICK x \in D : \E n \in 1..f[x] : z = <<x, n>>
    BY TokenOf
  <2> PICK n \in 1..f[x] : z = <<x, n>>
    BY <2>1
  <2>2. CASE x \in A /\ f[x] <= g[x]
    <3>1. n \in 1..g[x]
      BY <2>1, <2>2
    <3>2. QED
      BY <2>1, <2>2, <3>1, TokenOf
  <2>3. CASE x \in B /\ f[x] <= h[x]
    <3>1. n \in 1..h[x]
      BY <2>1, <2>3
    <3>2. QED
      BY <2>1, <2>3, <3>1, TokenOf
  <2>4. QED
    BY <2>2, <2>3
<1>3. /\ IsFiniteSet(Tokens(g) \cup Tokens(h))
      /\ Cardinality(Tokens(g) \cup Tokens(h)) <= Tally(g) + Tally(h)
  <2>1. Cardinality(Tokens(g) \cap Tokens(h)) \in Nat
    BY <1>1, FS_Intersection, FS_CardinalityType
  <2>2. QED
    BY <1>1, <2>1, FS_Union DEF Tally
<1>4. Tokens(f) \in SUBSET (Tokens(g) \cup Tokens(h))
  BY <1>2
<1>5. Cardinality(Tokens(g) \cup Tokens(h)) \in Nat
  BY <1>3, FS_CardinalityType
<1>6. QED
  BY <1>1, <1>3, <1>4, <1>5, FS_Subset DEF Tally

(* What holds of each of several bags is bounded for all of them.          *)
LEMMA TallyOfEach ==
  ASSUME NEW P, IsFiniteSet(P), NEW A, IsFiniteSet(A), NEW T \in [P -> [A -> Nat]],
         NEW limit \in Nat, \A p \in P : Tally(T[p]) <= limit
  PROVE  Tally([x \in P \X A |-> T[x[1]][x[2]]]) <= limit * Cardinality(P)
<1> DEFINE f == [x \in P \X A |-> T[x[1]][x[2]]]
           H == [p \in P |-> CHOOSE h : h \in Injection(Tokens(T[p]), 1..limit)]
           j == [z \in Tokens(f) |-> <<z[1][1], H[z[1][1]][<<z[1][2], z[2]>>]>>]
<1>1. ASSUME NEW p \in P PROVE H[p] \in Injection(Tokens(T[p]), 1..limit)
  <2> DEFINE n == Tally(T[p])
  <2>1. T[p] \in [A -> Nat]
    OBVIOUS
  <2>2. IsFiniteSet(Tokens(T[p])) /\ n \in Nat /\ n <= limit
    BY <2>1, TokensFinite
  <2>3. ExistsBijection(Tokens(T[p]), 1..n)
    BY <2>2, CountTo, FS_SameCardinalityBij DEF Tally
  <2>4. PICK h : h \in Bijection(Tokens(T[p]), 1..n)
    BY <2>3 DEF ExistsBijection
  <2>5. 1..n \subseteq 1..limit
    BY <2>2
  <2>6. h \in Injection(Tokens(T[p]), 1..limit)
    BY <2>4, <2>5 DEF Bijection, Injection
  <2>7. QED
    BY <2>6
<1> HIDE DEF H
<1>2. ASSUME NEW z \in Tokens(f)
      PROVE  /\ z[1] \in P \X A /\ z = <<z[1], z[2]>> /\ z[1] = <<z[1][1], z[1][2]>>
             /\ <<z[1][2], z[2]>> \in Tokens(T[z[1][1]])
  <2>1. PICK x \in P \X A : \E n \in 1..f[x] : z = <<x, n>>
    BY TokenOf
  <2>2. PICK n \in 1..f[x] : z = <<x, n>>
    BY <2>1
  <2>3. x[1] \in P /\ x[2] \in A /\ f[x] = T[x[1]][x[2]] /\ x = <<x[1], x[2]>>
    BY <2>1
  <2>4. <<x[2], n>> \in Tokens(T[x[1]])
    BY <2>2, <2>3, TokenOf
  <2>5. QED
    BY <2>1, <2>2, <2>3, <2>4
<1>3. j \in [Tokens(f) -> P \X (1..limit)]
  <2>1. ASSUME NEW z \in Tokens(f) PROVE j[z] \in P \X (1..limit)
    BY <1>1, <1>2 DEF Injection
  <2>2. QED
    BY <2>1
<1>4. ASSUME NEW y \in Tokens(f), NEW z \in Tokens(f), j[y] = j[z] PROVE y = z
  <2>1. y[1][1] = z[1][1] /\ H[y[1][1]][<<y[1][2], y[2]>>] = H[y[1][1]][<<z[1][2], z[2]>>]
    BY <1>4
  <2>2. <<y[1][2], y[2]>> = <<z[1][2], z[2]>>
    <3> DEFINE p == y[1][1]  v == <<y[1][2], y[2]>>  w == <<z[1][2], z[2]>>
    <3>1. p \in P /\ v \in Tokens(T[p]) /\ w \in Tokens(T[p])
      BY <2>1, <1>2
    <3>2. H[p][v] = H[p][w] /\ H[p] \in Injection(Tokens(T[p]), 1..limit)
      BY <2>1, <3>1, <1>1
    <3> HIDE DEF p, v, w
    <3>3. v = w
      BY <3>1, <3>2 DEF Injection, IsInjective
    <3>4. QED
      BY <3>3 DEF v, w
  <2>3. QED
    BY <2>1, <2>2, <1>2
<1>5. j \in Injection(Tokens(f), P \X (1..limit))
  BY <1>3, <1>4 DEF Injection, IsInjective
<1>6. IsFiniteSet(P \X (1..limit)) /\ Cardinality(P \X (1..limit)) = Cardinality(P) * limit
  <2>1. IsFiniteSet(1..limit) /\ Cardinality(1..limit) = limit
    BY CountTo
  <2>2. QED
    BY <2>1, FS_Product
<1>7. Cardinality(P) \in Nat
  BY FS_CardinalityType
<1>8. Cardinality(P) * limit = limit * Cardinality(P)
  BY <1>7
<1>9. QED
  BY <1>5, <1>6, <1>8, FS_Injection DEF Tally

-----------------------------------------------------------------------------
(* Several lists of attempts by age, T[x][a] for x in some set, and how    *)
(* many in all are at most b old.                                          *)
Flat(T, b) == [x \in (DOMAIN T) \X (0..b) |-> T[x[1]][x[2]]]
Upto(T, b) == Tally(Flat(T, b))
Horizons == -1..Window

LEMMA AgesFinite == IsFiniteSet(Ages) /\ 0 \in Ages /\ Window \in Ages /\ Window # 0
<1>1. 0 \in Int /\ Window \in Int /\ Window > 0
  BY LimitsAssumption
<1>2. QED
  BY <1>1, FS_Interval DEF Ages

LEMMA FlatFinite ==
  ASSUME NEW D, IsFiniteSet(D), NEW b \in Horizons
  PROVE  IsFiniteSet(D \X (0..b)) /\ 0..b \subseteq Ages
<1>1. IsFiniteSet(0..b) /\ 0..b \subseteq Ages
  <2>1. b \in Int /\ 0 \in Int /\ b <= Window /\ Window \in Nat
    BY LimitsAssumption DEF Horizons
  <2>2. IsFiniteSet(0..b)
    BY <2>1, FS_Interval
  <2>3. QED
    BY <2>1, <2>2 DEF Ages
<1>2. QED
  BY <1>1, FS_Product

LEMMA FlatType ==
  ASSUME NEW D, IsFiniteSet(D), NEW T \in [D -> [Ages -> Nat]], NEW b \in Horizons
  PROVE  Flat(T, b) \in [D \X (0..b) -> Nat] /\ Upto(T, b) \in Nat
<1>1. IsFiniteSet(D \X (0..b)) /\ 0..b \subseteq Ages
  BY FlatFinite
<1>2. Flat(T, b) \in [D \X (0..b) -> Nat]
  BY <1>1 DEF Flat
<1>3. QED
  BY <1>1, <1>2, TokensFinite DEF Upto

LEMMA FlatAt ==
  ASSUME NEW T, NEW b, NEW x \in (DOMAIN T) \X (0..b)
  PROVE  Flat(T, b)[x] = T[x[1]][x[2]]
BY DEF Flat

LEMMA UptoNone == ASSUME NEW T PROVE Upto(T, -1) = 0
<1>1. \A x \in DOMAIN Flat(T, -1) : FALSE
  BY DEF Flat
<1>2. QED
  BY <1>1, TallyOfNone DEF Upto

(* N is T with one more attempt just made, in the list of d.               *)
OneMore(N, T, d) ==
  /\ N[d][0] = T[d][0] + 1
  /\ \A x \in DOMAIN T : \A a \in Ages : x # d \/ a # 0 => N[x][a] = T[x][a]

LEMMA UptoMore ==
  ASSUME NEW D, IsFiniteSet(D), NEW T \in [D -> [Ages -> Nat]], NEW N \in [D -> [Ages -> Nat]],
         NEW d \in D, OneMore(N, T, d), NEW b \in Horizons, b # -1
  PROVE  Upto(N, b) = Upto(T, b) + 1
<1> DEFINE f == Flat(T, b)  g == Flat(N, b)  C == D \X (0..b)  e == <<d, 0>>
<1>1. b \in 0..Window /\ 0 \in 0..b /\ 0..b \subseteq Ages
  BY LimitsAssumption DEF Horizons, Ages
<1>2. IsFiniteSet(C)
  BY FlatFinite
<1>3. f \in [C -> Nat] /\ g \in [C -> Nat]
  BY FlatType
<1>4. e \in C /\ DOMAIN T = D /\ DOMAIN N = D
  BY <1>1
<1>5. \A x \in C : f[x] = T[x[1]][x[2]] /\ g[x] = N[x[1]][x[2]]
  BY <1>4, FlatAt
<1>6. g[e] = f[e] + 1
  BY <1>4, <1>5 DEF OneMore
<1>7. ASSUME NEW x \in C, x # e PROVE g[x] = f[x]
  <2>1. /\ x[1] \in D /\ x[2] \in 0..b /\ x = <<x[1], x[2]>> /\ x[2] \in Ages
        /\ x[1] # d \/ x[2] # 0
    BY <1>1, <1>7
  <2>2. N[x[1]][x[2]] = T[x[1]][x[2]]
    BY <2>1, <1>4 DEF OneMore
  <2>3. QED
    BY <2>2, <1>5
<1>8. \A x \in C : x # e => g[x] = f[x]
  BY <1>7
<1>9. /\ IsFiniteSet(C) /\ f \in [C -> Nat] /\ e \in C /\ g \in [C -> Nat]
      /\ g[e] = f[e] + 1 /\ \A x \in C : x # e => g[x] = f[x]
  BY <1>2, <1>3, <1>4, <1>6, <1>8
<1> HIDE DEF f, g, C, e
<1>10. Tally(g) = Tally(f) + 1
  BY <1>9, TallyMore, SMTT(60)
<1>11. QED
  BY <1>10 DEF f, g, Upto

(* The attempts of one list are no more than those of its tally.           *)
LEMMA UptoOfOne ==
  ASSUME NEW r, NEW T \in [{r} -> [Ages -> Nat]], NEW b \in Horizons
  PROVE  Upto(T, b) <= Tally(T[r])
<1> DEFINE f == Flat(T, b)  C == {r} \X (0..b)  j == [x \in C |-> x[2]]  g == T[r]
<1>1. IsFiniteSet({r}) /\ IsFiniteSet(Ages)
  BY FS_Singleton, AgesFinite
<1>2. 0..b \subseteq Ages /\ f \in [C -> Nat] /\ g \in [Ages -> Nat]
  BY <1>1, FlatFinite, FlatType
<1>3. j \in [C -> Ages]
  BY <1>2
<1>4. \A x \in C : j[x] \in Ages /\ f[x] <= g[j[x]]
  <2>1. ASSUME NEW x \in C PROVE f[x] = g[j[x]]
    BY FlatAt
  <2>2. QED
    BY <1>2, <1>3, <2>1
<1>5. \A x, y \in C : j[x] = j[y] => x = y
  OBVIOUS
<1> HIDE DEF f, C, j, g
<1>6. Tally(f) <= Tally(g)
  BY <1>1, <1>2, <1>4, <1>5, TallyMoved
<1>7. QED
  BY <1>6 DEF f, g, Upto

-----------------------------------------------------------------------------
(* Among the last, at any age, M has no more than T but for k.             *)
Covered(M, T, k) == \A b \in Horizons : Upto(M, b) <= Upto(T, b) + k

(* An attempt made and counted.                                            *)
LEMMA CoveredMore ==
  ASSUME NEW D, IsFiniteSet(D), NEW M \in [D -> [Ages -> Nat]], NEW M2 \in [D -> [Ages -> Nat]],
         NEW H, IsFiniteSet(H), NEW T \in [H -> [Ages -> Nat]], NEW T2 \in [H -> [Ages -> Nat]],
         NEW d \in D, OneMore(M2, M, d), NEW h \in H, OneMore(T2, T, h),
         NEW k \in Nat, Covered(M, T, k)
  PROVE  Covered(M2, T2, k)
<1>1. ASSUME NEW b \in Horizons PROVE Upto(M2, b) <= Upto(T2, b) + k
  <2>1. /\ Upto(M, b) \in Nat /\ Upto(T, b) \in Nat
        /\ Upto(M, b) <= Upto(T, b) + k
    BY FlatType DEF Covered
  <2>2. CASE b = -1
    BY <2>2, UptoNone
  <2>3. CASE b # -1
    <3>1. Upto(M2, b) = Upto(M, b) + 1
      BY <2>3, UptoMore
    <3>2. Upto(T2, b) = Upto(T, b) + 1
      BY <2>3, UptoMore
    <3>3. QED
      BY <2>1, <3>1, <3>2
  <2>4. QED
    BY <2>2, <2>3
<1>2. QED
  BY <1>1 DEF Covered

(* An attempt made and not counted.                                        *)
LEMMA CoveredBut ==
  ASSUME NEW D, IsFiniteSet(D), NEW M \in [D -> [Ages -> Nat]], NEW M2 \in [D -> [Ages -> Nat]],
         NEW H, IsFiniteSet(H), NEW T \in [H -> [Ages -> Nat]],
         NEW d \in D, OneMore(M2, M, d), NEW k \in Nat, Covered(M, T, k)
  PROVE  Covered(M2, T, k + 1)
<1>1. ASSUME NEW b \in Horizons PROVE Upto(M2, b) <= Upto(T, b) + (k + 1)
  <2>1. /\ Upto(M, b) \in Nat /\ Upto(T, b) \in Nat
        /\ Upto(M, b) <= Upto(T, b) + k
    BY FlatType DEF Covered
  <2>2. CASE b = -1
    BY <2>2, UptoNone
  <2>3. CASE b # -1
    <3>1. Upto(M2, b) = Upto(M, b) + 1
      BY <2>3, UptoMore
    <3>2. QED
      BY <2>1, <3>1
  <2>4. QED
    BY <2>2, <2>3
<1>2. QED
  BY <1>1 DEF Covered

LEMMA CoveredWeaker ==
  ASSUME NEW D, IsFiniteSet(D), NEW M \in [D -> [Ages -> Nat]],
         NEW H, IsFiniteSet(H), NEW T \in [H -> [Ages -> Nat]],
         NEW k \in Nat, Covered(M, T, k), NEW n \in Nat, k <= n
  PROVE  Covered(M, T, n)
<1>1. ASSUME NEW b \in Horizons PROVE Upto(M, b) <= Upto(T, b) + n
  <2>1. /\ Upto(M, b) \in Nat /\ Upto(T, b) \in Nat
        /\ Upto(M, b) <= Upto(T, b) + k
    BY FlatType DEF Covered
  <2>2. QED
    BY <2>1
<1>2. QED
  BY <1>1 DEF Covered

(* A list lost: no more than its tally is missing.                         *)
LEMMA CoveredLoss ==
  ASSUME NEW D, IsFiniteSet(D), NEW M \in [D -> [Ages -> Nat]],
         NEW H, IsFiniteSet(H), NEW T \in [H -> [Ages -> Nat]], NEW T2 \in [H -> [Ages -> Nat]],
         NEW h \in H, \A x \in H : x # h => T2[x] = T[x],
         NEW k \in Nat, Covered(M, T, k), NEW n \in Nat, Tally(T[h]) <= n
  PROVE  Covered(M, T2, k + n)
<1>1. IsFiniteSet(Ages) /\ T[h] \in [Ages -> Nat] /\ Tally(T[h]) \in Nat
  BY AgesFinite, TokensFinite
<1> DEFINE S == [x \in {h} |-> T[h]]
<1>2. IsFiniteSet({h}) /\ S \in [{h} -> [Ages -> Nat]]
  BY <1>1, FS_Singleton
<1>3. ASSUME NEW b \in Horizons PROVE Upto(T, b) <= Upto(T2, b) + Tally(T[h])
  <2>1. Upto(S, b) <= Tally(T[h]) /\ Upto(S, b) \in Nat
    BY <1>2, UptoOfOne, FlatType
  <2> DEFINE f == Flat(T, b)  A == H \X (0..b)  g == Flat(T2, b)
             B == {h} \X (0..b)  e == Flat(S, b)
  <2>2. IsFiniteSet(A) /\ IsFiniteSet(B) /\ 0..b \subseteq Ages
    BY <1>2, FlatFinite
  <2>3. f \in [A -> Nat] /\ g \in [A -> Nat] /\ e \in [B -> Nat]
    BY <1>2, FlatType
  <2>4. ASSUME NEW x \in A
        PROVE  (x \in A /\ f[x] <= g[x]) \/ (x \in B /\ f[x] <= e[x])
    <3>1. f[x] = T[x[1]][x[2]] /\ g[x] = T2[x[1]][x[2]] /\ f[x] \in Nat
      BY <2>3, FlatAt
    <3>2. CASE x[1] = h
      <4>1. x \in B /\ e[x] = S[x[1]][x[2]] /\ S[x[1]] = T[h]
        BY <3>2, FlatAt
      <4>2. QED
        BY <3>1, <3>2, <4>1
    <3>3. CASE x[1] # h
      BY <3>1, <3>3
    <3>4. QED
      BY <3>2, <3>3
  <2>5. \A x \in A : (x \in A /\ f[x] <= g[x]) \/ (x \in B /\ f[x] <= e[x])
    BY <2>4
  <2>6. Upto(T, b) = Tally(f) /\ Upto(T2, b) = Tally(g) /\ Upto(S, b) = Tally(e)
    BY DEF Upto
  <2> HIDE DEF f, g, e, A, B
  <2>7. Tally(f) <= Tally(g) + Tally(e)
    BY <2>2, <2>3, <2>5, TallyOfParts
  <2>8. Tally(f) \in Nat /\ Tally(g) \in Nat
    BY <2>2, <2>3, TokensFinite
  <2> HIDE DEF S
  <2>9. QED
    BY <1>1, <2>1, <2>6, <2>7, <2>8
<1>4. ASSUME NEW b \in Horizons PROVE Upto(M, b) <= Upto(T2, b) + (k + n)
  <2>1. /\ Upto(M, b) \in Nat /\ Upto(T, b) \in Nat /\ Upto(T2, b) \in Nat
        /\ Upto(M, b) <= Upto(T, b) + k
    BY FlatType DEF Covered
  <2>2. QED
    BY <1>1, <1>3, <2>1
<1>5. QED
  BY <1>4 DEF Covered

(* An attempt counted in the one list, all of whose attempts are renewed.  *)
LEMMA CoveredRenewed ==
  ASSUME NEW D, IsFiniteSet(D), NEW M \in [D -> [Ages -> Nat]], NEW M2 \in [D -> [Ages -> Nat]],
         NEW d \in D, OneMore(M2, M, d),
         NEW r, NEW T \in [{r} -> [Ages -> Nat]], NEW T2 \in [{r} -> [Ages -> Nat]],
         T2[r] = [NoTries EXCEPT ![0] = Tally(T[r]) + 1],
         NEW k \in Nat, Covered(M, T, k)
  PROVE  Covered(M2, T2, k)
<1>1. IsFiniteSet({r}) /\ IsFiniteSet(Ages) /\ T[r] \in [Ages -> Nat] /\ Tally(T[r]) \in Nat
  BY AgesFinite, TokensFinite, FS_Singleton
<1>2. T2[r][0] = Tally(T[r]) + 1 /\ \A a \in Ages \ {0} : T2[r][a] = 0
  BY AgesFinite DEF NoTries
<1>3. ASSUME NEW b \in Horizons, b # -1 PROVE Upto(T2, b) = Tally(T[r]) + 1
  <2> DEFINE f == Flat(T2, b)  e == <<r, 0>>
  <2>1. b \in 0..Window /\ 0 \in 0..b /\ 0..b \subseteq Ages
    BY <1>3, LimitsAssumption DEF Horizons, Ages
  <2>2. DOMAIN f = {r} \X (0..b) /\ e \in DOMAIN f
    BY <2>1 DEF Flat
  <2>3. \A x \in DOMAIN f : f[x] = T2[x[1]][x[2]]
    BY <2>2, FlatAt
  <2>4. f[e] = Tally(T[r]) + 1 /\ f[e] \in Nat
    <3>1. f[e] = T2[r][0]
      BY <2>2, <2>3
    <3>2. QED
      BY <1>1, <1>2, <3>1
  <2>5. ASSUME NEW x \in DOMAIN f \ {e} PROVE f[x] = 0
    <3>1. x[1] = r /\ x[2] \in Ages \ {0} /\ f[x] = T2[x[1]][x[2]]
      BY <2>1, <2>2, <2>3
    <3>2. QED
      BY <3>1, <1>2
  <2>6. \A x \in DOMAIN f \ {e} : f[x] = 0
    BY <2>5
  <2> HIDE DEF f, e
  <2>7. Tally(f) = f[e]
    BY <2>2, <2>4, <2>6, TallyOfOne
  <2>8. QED
    BY <2>4, <2>7 DEF Upto, f
<1>4. ASSUME NEW b \in Horizons PROVE Upto(M2, b) <= Upto(T2, b) + k
  <2>1. /\ Upto(M, b) \in Nat /\ Upto(T, b) \in Nat
        /\ Upto(M, b) <= Upto(T, b) + k
    BY <1>1, FlatType DEF Covered
  <2>2. CASE b = -1
    BY <2>2, UptoNone
  <2>3. CASE b # -1
    <3>1. Upto(M2, b) = Upto(M, b) + 1
      BY <2>3, UptoMore
    <3>2. Upto(T2, b) = Tally(T[r]) + 1
      BY <2>3, <1>3
    <3>3. Upto(T, b) <= Tally(T[r])
      BY UptoOfOne
    <3>4. QED
      BY <1>1, <2>1, <3>1, <3>2, <3>3
  <2>4. QED
    BY <2>2, <2>3
<1>5. QED
  BY <1>4 DEF Covered

(* A tick later: all are one older, and what is at the horizon is dropped  *)
(* at the latest after it.                                                 *)
Aged(N, T) ==
  \A x \in DOMAIN T : /\ N[x][0] = 0
                      /\ \A a \in 1..(Window - 1) : N[x][a] = T[x][a - 1]
Before(b) == IF b = Window THEN Window - 2 ELSE b - 1

LEMMA BeforeIsHorizon ==
  ASSUME NEW b \in Horizons, b # -1
  PROVE  /\ Before(b) \in Horizons /\ Before(b) + 1 \in 0..b /\ Before(b) + 1 < Window
         /\ b < Window => Before(b) = b - 1
BY LimitsAssumption DEF Horizons, Before

LEMMA AgedFewer ==
  ASSUME NEW D, IsFiniteSet(D), NEW T \in [D -> [Ages -> Nat]], NEW N \in [D -> [Ages -> Nat]],
         Aged(N, T), \A x \in D : N[x][Window] = 0, NEW b \in Horizons, b # -1
  PROVE  Upto(N, b) <= Upto(T, Before(b))
<1> DEFINE c == Before(b)
           f == Flat(N, b)  A == D \X (0..b)  g == Flat(T, c)  C == D \X (0..c)
           j == [x \in A |-> <<x[1], x[2] - 1>>]
<1>1. /\ c \in Horizons /\ b \in 0..Window /\ c + 1 \in 0..b /\ c + 1 < Window
      /\ b < Window => c = b - 1
      /\ b = Window => c = Window - 2
  BY BeforeIsHorizon DEF Horizons, Before
<1> HIDE DEF c
<1>2. IsFiniteSet(A) /\ IsFiniteSet(C) /\ 0..b \subseteq Ages /\ 0..c \subseteq Ages
  BY <1>1, FlatFinite
<1>3. f \in [A -> Nat] /\ g \in [C -> Nat] /\ DOMAIN N = D /\ DOMAIN T = D
  BY <1>1, FlatType
<1>4. \A x \in A : f[x] = N[x[1]][x[2]]
  BY <1>3, FlatAt
<1>5. \A x \in C : g[x] = T[x[1]][x[2]]
  BY <1>3, FlatAt
<1>6. ASSUME NEW x \in A, f[x] > 0 PROVE j[x] \in C /\ f[x] <= g[j[x]]
  <2>1. x[1] \in D /\ x[2] \in 0..b /\ N[x[1]][x[2]] # 0
    BY <1>6, <1>3, <1>4
  <2>2. x[2] # 0 /\ x[2] # Window
    BY <2>1, <1>3 DEF Aged
  <2>3. x[2] \in 1..(Window - 1) /\ x[2] - 1 \in 0..c
    <3> DEFINE n == x[2]
    <3>1. n \in 0..b /\ n # 0 /\ n # Window /\ Window \in Nat /\ c \in Int /\ b \in 0..Window
      BY <2>1, <2>2, <1>1, LimitsAssumption DEF Horizons
    <3> HIDE DEF n
    <3>2. n \in 1..(Window - 1) /\ n - 1 \in 0..c
      BY <3>1, <1>1
    <3>3. QED
      BY <3>2 DEF n
  <2>4. j[x] = <<x[1], x[2] - 1>> /\ j[x] \in C
    BY <2>1, <2>3
  <2>5. N[x[1]][x[2]] = T[x[1]][x[2] - 1]
    BY <2>1, <2>3, <1>3 DEF Aged
  <2>6. g[j[x]] = T[x[1]][x[2] - 1]
    BY <2>4, <1>5
  <2>7. f[x] = g[j[x]] /\ f[x] \in Nat
    BY <2>5, <2>6, <1>3, <1>4
  <2> HIDE DEF f, g, j, C
  <2>8. QED
    BY <2>4, <2>7
<1>7. ASSUME NEW x \in A, NEW y \in A, j[x] = j[y] PROVE x = y
  <2>1. x = <<x[1], x[2]>> /\ y = <<y[1], y[2]>> /\ x[2] \in Int /\ y[2] \in Int
    OBVIOUS
  <2>2. j[x] = <<x[1], x[2] - 1>> /\ j[y] = <<y[1], y[2] - 1>>
    OBVIOUS
  <2>3. x[1] = y[1] /\ x[2] - 1 = y[2] - 1
    BY <1>7, <2>2
  <2>4. x[2] = y[2]
    <3> DEFINE m == x[2]  n == y[2]
    <3>1. m \in Int /\ n \in Int /\ m - 1 = n - 1
      BY <2>1, <2>3
    <3> HIDE DEF m, n
    <3>2. m = n
      BY <3>1
    <3>3. QED
      BY <3>2 DEF m, n
  <2> HIDE DEF j
  <2>5. QED
    BY <2>1, <2>3, <2>4, Zenon
<1>8. /\ f \in [A -> Nat] /\ IsFiniteSet(C) /\ g \in [C -> Nat]
      /\ \A x \in A : f[x] > 0 => j[x] \in C /\ f[x] <= g[j[x]]
      /\ \A x, y \in A : f[x] > 0 /\ f[y] > 0 /\ j[x] = j[y] => x = y
  BY <1>2, <1>3, <1>6, <1>7
<1> HIDE DEF f, A, g, C, j
<1>9. Tally(f) <= Tally(g)
  BY <1>8, TallyMoved, SMTT(60)
<1>10. QED
  BY <1>9 DEF f, g, c, Upto

LEMMA AgedMany ==
  ASSUME NEW D, IsFiniteSet(D), NEW T \in [D -> [Ages -> Nat]], NEW N \in [D -> [Ages -> Nat]],
         Aged(N, T), NEW b \in Horizons, b # -1
  PROVE  Upto(T, Before(b)) <= Upto(N, b)
<1> DEFINE c == Before(b)
           f == Flat(N, b)  A == D \X (0..b)  g == Flat(T, c)  C == D \X (0..c)
           j == [x \in C |-> <<x[1], x[2] + 1>>]
<1>1. /\ c \in Horizons /\ b \in 0..Window /\ c + 1 \in 0..b /\ c + 1 < Window
  BY BeforeIsHorizon DEF Horizons, Before
<1> HIDE DEF c
<1>2. IsFiniteSet(A) /\ IsFiniteSet(C) /\ 0..b \subseteq Ages /\ 0..c \subseteq Ages
  BY <1>1, FlatFinite
<1>3. f \in [A -> Nat] /\ g \in [C -> Nat] /\ DOMAIN N = D /\ DOMAIN T = D
  BY <1>1, FlatType
<1>4. \A x \in A : f[x] = N[x[1]][x[2]]
  BY <1>3, FlatAt
<1>5. \A x \in C : g[x] = T[x[1]][x[2]]
  BY <1>3, FlatAt
<1>6. ASSUME NEW x \in C PROVE j[x] \in A /\ g[x] <= f[j[x]]
  <2>1. x[1] \in D /\ x[2] \in 0..c
    OBVIOUS
  <2>2. x[2] + 1 \in 1..(Window - 1) /\ x[2] + 1 \in 0..b /\ (x[2] + 1) - 1 = x[2]
    BY <2>1, <1>1, LimitsAssumption DEF Horizons
  <2>3. j[x] = <<x[1], x[2] + 1>> /\ j[x] \in A
    BY <2>1, <2>2
  <2>4. N[x[1]][x[2] + 1] = T[x[1]][x[2]]
    BY <2>1, <2>2, <1>3 DEF Aged
  <2>5. f[j[x]] = N[x[1]][x[2] + 1]
    BY <2>3, <1>4
  <2>6. f[j[x]] = g[x] /\ g[x] \in Nat
    BY <2>4, <2>5, <1>3, <1>5
  <2> HIDE DEF f, g, j, A
  <2>7. QED
    BY <2>3, <2>6
<1>7. ASSUME NEW x \in C, NEW y \in C, j[x] = j[y] PROVE x = y
  <2>1. x = <<x[1], x[2]>> /\ y = <<y[1], y[2]>> /\ x[2] \in Int /\ y[2] \in Int
    OBVIOUS
  <2>2. j[x] = <<x[1], x[2] + 1>> /\ j[y] = <<y[1], y[2] + 1>>
    OBVIOUS
  <2>3. x[1] = y[1] /\ x[2] + 1 = y[2] + 1
    BY <1>7, <2>2
  <2>4. x[2] = y[2]
    <3> DEFINE m == x[2]  n == y[2]
    <3>1. m \in Int /\ n \in Int /\ m + 1 = n + 1
      BY <2>1, <2>3
    <3> HIDE DEF m, n
    <3>2. m = n
      BY <3>1
    <3>3. QED
      BY <3>2 DEF m, n
  <2> HIDE DEF j
  <2>5. QED
    BY <2>1, <2>3, <2>4, Zenon
<1>8. /\ g \in [C -> Nat] /\ IsFiniteSet(A) /\ f \in [A -> Nat]
      /\ \A x \in C : g[x] > 0 => j[x] \in A /\ g[x] <= f[j[x]]
      /\ \A x, y \in C : g[x] > 0 /\ g[y] > 0 /\ j[x] = j[y] => x = y
  BY <1>2, <1>3, <1>6, <1>7
<1> HIDE DEF f, A, g, C, j
<1>9. Tally(g) <= Tally(f)
  BY <1>8, TallyMoved, SMTT(60)
<1>10. QED
  BY <1>9 DEF f, g, c, Upto

(* A tick drops attempts from both, but never earlier from the counters.   *)
LEMMA CoveredLater ==
  ASSUME NEW D, IsFiniteSet(D), NEW M \in [D -> [Ages -> Nat]], NEW M2 \in [D -> [Ages -> Nat]],
         Aged(M2, M), \A x \in D : M2[x][Window] = 0,
         NEW H, IsFiniteSet(H), NEW T \in [H -> [Ages -> Nat]], NEW T2 \in [H -> [Ages -> Nat]],
         Aged(T2, T), NEW k \in Nat, Covered(M, T, k)
  PROVE  Covered(M2, T2, k)
<1>1. ASSUME NEW b \in Horizons PROVE Upto(M2, b) <= Upto(T2, b) + k
  <2>1. CASE b = -1
    BY <2>1, UptoNone
  <2>2. CASE b # -1
    <3> DEFINE c == Before(b)
    <3>1. c \in Horizons
      BY <2>2, BeforeIsHorizon
    <3>2. Upto(M2, b) <= Upto(M, c)
      BY <2>2, AgedFewer
    <3>3. Upto(T, c) <= Upto(T2, b)
      BY <2>2, AgedMany
    <3> HIDE DEF c
    <3>4. Upto(M, c) <= Upto(T, c) + k
      BY <3>1 DEF Covered
    <3>5. Upto(M2, b) \in Nat /\ Upto(M, c) \in Nat /\ Upto(T, c) \in Nat /\ Upto(T2, b) \in Nat
      BY <3>1, FlatType
    <3>6. QED
      BY <3>2, <3>3, <3>4, <3>5
  <2>3. QED
    BY <2>1, <2>2
<1>2. QED
  BY <1>1 DEF Covered

(* A list grown older has no more in it.                                   *)
LEMMA AgingFewer ==
  ASSUME NEW t \in [Ages -> Nat]
  PROVE  Aging(t) \in [Ages -> Nat] /\ Tally(Aging(t)) <= Tally(t)
<1> DEFINE f == Aging(t)  j == [a \in Ages |-> a - 1]
<1>1. \A a \in Ages : a = 0 \/ a - 1 \in Ages
  BY LimitsAssumption DEF Ages
<1>2. Older(t) \in [Ages -> Nat] /\ f \in [Ages -> Nat]
  BY <1>1 DEF Older, Aging
<1>3. ASSUME NEW a \in Ages, f[a] > 0 PROVE j[a] \in Ages /\ f[a] <= t[j[a]]
  <2>1. f[a] = 0 \/ (a # 0 /\ f[a] = t[a - 1])
    BY AgesFinite DEF Aging, Older
  <2>2. a # 0 /\ f[a] = t[a - 1] /\ j[a] = a - 1 /\ a - 1 \in Ages /\ t[a - 1] \in Nat
    BY <2>1, <1>1, <1>3
  <2>3. QED
    BY <2>2
<1>4. \A a, c \in Ages : j[a] = j[c] => a = c
  BY LimitsAssumption DEF Ages
<1>5. /\ IsFiniteSet(Ages) /\ f \in [Ages -> Nat]
      /\ \A a \in Ages : f[a] > 0 => j[a] \in Ages /\ f[a] <= t[j[a]]
      /\ \A a, c \in Ages : f[a] > 0 /\ f[c] > 0 /\ j[a] = j[c] => a = c
  BY AgesFinite, <1>2, <1>3, <1>4
<1> HIDE DEF f, j
<1>6. Tally(f) <= Tally(t)
  BY <1>5, TallyMoved, SMTT(60)
<1>7. QED
  BY <1>2, <1>6 DEF f

(* One list with nothing in it but what was just counted.                  *)
LEMMA TallyOfNow ==
  ASSUME NEW f \in [Ages -> Nat], \A a \in Ages : a # 0 => f[a] = 0
  PROVE  Tally(f) = f[0]
<1> DEFINE now == 0
<1>1. now \in DOMAIN f /\ f[now] \in Nat /\ \A x \in DOMAIN f \ {now} : f[x] = 0
  BY AgesFinite
<1> HIDE DEF now
<1>2. Tally(f) = f[now]
  BY <1>1, TallyOfOne
<1>3. QED
  BY <1>2 DEF now

(* One list with one more attempt just made.                               *)
LEMMA TallyCounted ==
  ASSUME NEW f \in [Ages -> Nat], NEW g \in [Ages -> Nat],
         g[0] = f[0] + 1, \A a \in Ages : a # 0 => g[a] = f[a]
  PROVE  Tally(g) = Tally(f) + 1 /\ Tally(f) \in Nat
<1>1. IsFiniteSet(Ages) /\ 0 \in Ages
  BY AgesFinite
<1>2. Tally(g) = Tally(f) + 1
  BY <1>1, TallyMore, SMTT(60)
<1>3. QED
  BY <1>1, <1>2, TokensFinite

-----------------------------------------------------------------------------
(* One account, or one address: its attempts M by the other of the two,    *)
(* the lists T kept of them, and the processes C that compare a credential *)
(* for it.                                                                 *)
Live(sh) == IF sh THEN {Redis} ELSE Processes
Loss(sh, limit) == IF sh THEN 1 ELSE limit
HolderOf(sh, p) == IF sh THEN Redis ELSE p

Room(sh, T, C, limit) ==
  IF sh THEN Tally(T[Redis]) + Cardinality(C) <= limit + Cardinality(Processes) - 1
  ELSE \A p \in Processes : Tally(T[p]) <= limit /\ (p \in C => Tally(T[p]) < limit)

(* Nothing made is missing from the lists but what was lost, and there is  *)
(* room in them for what is compared.                                      *)
Bounded(sh, M, T, C, limit, n) ==
  /\ Covered(M, T, n * Loss(sh, limit))
  /\ Room(sh, T, C, limit)

LEMMA LossMore ==
  ASSUME NEW sh \in BOOLEAN, NEW limit \in Nat, NEW n \in Nat
  PROVE  /\ Loss(sh, limit) \in Nat /\ n * Loss(sh, limit) \in Nat
         /\ (n + 1) * Loss(sh, limit) = n * Loss(sh, limit) + Loss(sh, limit)
<1> DEFINE k == Loss(sh, limit)
<1>1. k \in Nat
  BY DEF Loss
<1> HIDE DEF k
<1>2. n * k \in Nat /\ (n + 1) * k = n * k + k
  BY <1>1
<1>3. QED
  BY <1>1, <1>2 DEF k

LEMMA LiveFinite ==
  ASSUME NEW sh \in BOOLEAN
  PROVE  IsFiniteSet(Live(sh)) /\ \A p \in Processes : HolderOf(sh, p) \in Live(sh)
BY FS_Singleton, LimitsAssumption DEF Live, HolderOf

LEMMA SharedRoom ==
  ASSUME NEW sh, sh, NEW T, NEW C, NEW limit
  PROVE  Room(sh, T, C, limit) <=>
           Tally(T[Redis]) + Cardinality(C) <= limit + Cardinality(Processes) - 1
BY DEF Room

(* Room for these is room for others that with their tally are no more.    *)
LEMMA SharedRoomKept ==
  ASSUME NEW sh, sh, NEW T, NEW C, NEW limit \in Nat, Room(sh, T, C, limit), NEW T2, NEW C2,
         Tally(T[Redis]) \in Nat, Tally(T2[Redis]) \in Nat,
         Cardinality(C) \in Nat, Cardinality(C2) \in Nat, Cardinality(Processes) \in Nat,
         Tally(T2[Redis]) + Cardinality(C2) <= Tally(T[Redis]) + Cardinality(C)
  PROVE  Room(sh, T2, C2, limit)
<1> DEFINE a == Tally(T[Redis])  b == Cardinality(C)  c == Cardinality(Processes)
           d == Tally(T2[Redis])  e == Cardinality(C2)
<1>1. a + b <= limit + c - 1 /\ {a, b, c, d, e} \subseteq Nat /\ d + e <= a + b
  BY SharedRoom
<1> HIDE DEF a, b, c, d, e
<1>2. d + e <= limit + c - 1
  BY <1>1
<1>3. QED
  BY <1>2, SharedRoom DEF c, d, e

LEMMA BoundedFewer ==
  ASSUME NEW sh \in BOOLEAN, NEW M, NEW T \in [Live(sh) -> [Ages -> Nat]],
         NEW C \in SUBSET Processes, NEW C2 \in SUBSET C,
         NEW limit \in Nat, NEW n \in Nat, Bounded(sh, M, T, C, limit, n)
  PROVE  Bounded(sh, M, T, C2, limit, n)
<1>1. CASE sh
  <2>1. IsFiniteSet(C) /\ IsFiniteSet(Processes) /\ Cardinality(Processes) \in Nat
    BY FS_Subset, FS_CardinalityType, LimitsAssumption
  <2>2. Cardinality(C) \in Nat /\ Cardinality(C2) \in Nat /\ Cardinality(C2) <= Cardinality(C)
    BY <2>1, FS_Subset, FS_CardinalityType
  <2>3. Tally(T[Redis]) \in Nat
    BY <1>1, AgesFinite, TokensFinite DEF Live
  <2>4. Room(sh, T, C, limit)
    BY DEF Bounded
  <2>5. Tally(T[Redis]) + Cardinality(C2) <= Tally(T[Redis]) + Cardinality(C)
    BY <2>2, <2>3
  <2>6. Room(sh, T, C2, limit)
    BY <1>1, <2>1, <2>2, <2>3, <2>4, <2>5, SharedRoomKept
  <2>7. QED
    BY <2>6 DEF Bounded
<1>2. CASE ~sh
  BY <1>2 DEF Bounded, Room
<1>3. QED
  BY <1>1, <1>2

(* A login the limiter lets pass.                                          *)
LEMMA BoundedCheck ==
  ASSUME NEW sh \in BOOLEAN, NEW M, NEW T \in [Live(sh) -> [Ages -> Nat]],
         NEW C \in SUBSET Processes, NEW p \in Processes,
         NEW limit \in Nat, NEW n \in Nat, Bounded(sh, M, T, C, limit, n),
         Tally(T[HolderOf(sh, p)]) < limit
  PROVE  Bounded(sh, M, T, C \cup {p}, limit, n)
<1>1. CASE sh
  <2>1. IsFiniteSet(Processes) /\ Cardinality(Processes) \in Nat
    BY FS_CardinalityType, LimitsAssumption
  <2>2. Cardinality(C \cup {p}) \in Nat /\ Cardinality(C \cup {p}) <= Cardinality(Processes)
    <3>1. C \cup {p} \in SUBSET Processes
      OBVIOUS
    <3>2. QED
      BY <2>1, <3>1, FS_Subset, FS_CardinalityType
  <2>3. Tally(T[Redis]) \in Nat
    BY <1>1, AgesFinite, TokensFinite DEF Live
  <2>4. Tally(T[Redis]) < limit
    BY <1>1 DEF HolderOf
  <2> DEFINE a == Tally(T[Redis])  b == Cardinality(C \cup {p})  c == Cardinality(Processes)
  <2>5. a \in Nat /\ b \in Nat /\ c \in Nat /\ a < limit /\ b <= c
    BY <2>1, <2>2, <2>3, <2>4
  <2> HIDE DEF a, b, c
  <2>6. a + b <= limit + c - 1
    BY <2>5
  <2>7. Room(sh, T, C \cup {p}, limit)
    BY <1>1, <2>6, SharedRoom DEF a, b, c
  <2>8. QED
    BY <2>7 DEF Bounded
<1>2. CASE ~sh
  BY <1>2 DEF Bounded, Room, HolderOf
<1>3. QED
  BY <1>1, <1>2

(* The end of a login told to the limiter.                                 *)
LEMMA BoundedRecord ==
  ASSUME NEW sh \in BOOLEAN, NEW D, IsFiniteSet(D), NEW d \in D,
         NEW M \in [D -> [Ages -> Nat]], NEW M2 \in [D -> [Ages -> Nat]], OneMore(M2, M, d),
         NEW T \in [Live(sh) -> [Ages -> Nat]], NEW T2 \in [Live(sh) -> [Ages -> Nat]],
         NEW C \in SUBSET Processes, NEW p \in C,
         \A h \in Live(sh) : h # HolderOf(sh, p) => T2[h] = T[h],
         T2[HolderOf(sh, p)] = IF sh THEN [NoTries EXCEPT ![0] = Tally(T[HolderOf(sh, p)]) + 1]
                               ELSE [T[HolderOf(sh, p)] EXCEPT ![0] = @ + 1],
         NEW limit \in Nat, NEW n \in Nat, Bounded(sh, M, T, C, limit, n)
  PROVE  Bounded(sh, M2, T2, C \ {p}, limit, n)
<1> DEFINE k == n * Loss(sh, limit)
<1>1. k \in Nat /\ Covered(M, T, k) /\ Room(sh, T, C, limit)
  BY LossMore DEF Bounded
<1>2. IsFiniteSet(Live(sh)) /\ HolderOf(sh, p) \in Live(sh)
  BY LiveFinite
<1> HIDE DEF k
<1>3. CASE sh
  <2>1. /\ Live(sh) = {Redis} /\ HolderOf(sh, p) = Redis
        /\ T2[Redis] = [NoTries EXCEPT ![0] = Tally(T[Redis]) + 1]
    BY <1>3 DEF Live, HolderOf
  <2>2. T \in [{Redis} -> [Ages -> Nat]] /\ T2 \in [{Redis} -> [Ages -> Nat]]
    BY <2>1
  <2>3. Covered(M2, T2, k)
    BY <2>1, <2>2, <1>1, CoveredRenewed
  <2>4. Tally(T[Redis]) \in Nat
    BY <2>2, AgesFinite, TokensFinite
  <2>5. Tally(T2[Redis]) = Tally(T[Redis]) + 1
    <3>1. /\ T2[Redis] \in [Ages -> Nat] /\ T2[Redis][0] = Tally(T[Redis]) + 1
          /\ \A a \in Ages : a # 0 => T2[Redis][a] = 0
      BY <2>1, <2>2, AgesFinite DEF NoTries
    <3>2. QED
      BY <3>1, TallyOfNow
  <2>6. IsFiniteSet(C) /\ Cardinality(Processes) \in Nat
    BY FS_Subset, FS_CardinalityType, LimitsAssumption
  <2>7. Cardinality(C \ {p}) = Cardinality(C) - 1 /\ Cardinality(C) \in Nat
    BY <2>6, FS_RemoveElement, FS_CardinalityType
  <2> DEFINE a == Tally(T[Redis])  b == Cardinality(C)  e == C \ {p}
  <2>8. /\ a \in Nat /\ b \in Nat /\ Tally(T2[Redis]) = a + 1 /\ Cardinality(e) = b - 1
        /\ Cardinality(e) \in Nat
    <3>1. Cardinality(e) \in Nat
      BY <2>6, FS_Subset, FS_CardinalityType
    <3>2. QED
      BY <2>4, <2>5, <2>7, <3>1
  <2> HIDE DEF a, b, e
  <2>9. Tally(T2[Redis]) + Cardinality(e) <= a + b /\ Tally(T2[Redis]) \in Nat
    BY <2>8
  <2>10. Room(sh, T2, e, limit)
    BY <1>1, <1>3, <2>6, <2>8, <2>9, SharedRoomKept DEF a, b
  <2>11. QED
    BY <2>3, <2>10 DEF Bounded, k, e
<1>4. CASE ~sh
  <2>1. Live(sh) = Processes /\ HolderOf(sh, p) = p /\ T2[p] = [T[p] EXCEPT ![0] = @ + 1]
    BY <1>4 DEF Live, HolderOf
  <2>2. T \in [Processes -> [Ages -> Nat]] /\ T2 \in [Processes -> [Ages -> Nat]]
    BY <2>1
  <2>3. T[p] \in [Ages -> Nat] /\ T2[p] \in [Ages -> Nat] /\ p \in Processes
    BY <2>2
  <2>4. T2[p][0] = T[p][0] + 1 /\ \A a \in Ages : a # 0 => T2[p][a] = T[p][a]
    BY <2>1, <2>3, AgesFinite
  <2>5. \A h \in Processes : h # p => T2[h] = T[h]
    BY <2>1
  <2>6. OneMore(T2, T, p)
    BY <2>2, <2>4, <2>5 DEF OneMore
  <2>7. Covered(M2, T2, k)
    BY <2>2, <2>3, <2>6, <1>1, CoveredMore, LimitsAssumption
  <2>8. Tally(T2[p]) = Tally(T[p]) + 1 /\ Tally(T[p]) \in Nat
    BY <2>3, <2>4, TallyCounted
  <2>9. Room(sh, T2, C \ {p}, limit)
    BY <1>1, <1>4, <2>3, <2>5, <2>8 DEF Room
  <2>10. QED
    BY <2>7, <2>9 DEF Bounded, k
<1>5. QED
  BY <1>3, <1>4

(* A write Redis did not take, or a process that ends: the attempt it was  *)
(* at, if any, is made and not counted.                                    *)
LEMMA BoundedLost ==
  ASSUME NEW sh \in BOOLEAN, sh, NEW D, IsFiniteSet(D),
         NEW M \in [D -> [Ages -> Nat]], NEW M2 \in [D -> [Ages -> Nat]],
         M2 = M \/ \E d \in D : OneMore(M2, M, d),
         NEW T \in [Live(sh) -> [Ages -> Nat]],
         NEW C \in SUBSET Processes, NEW C2 \in SUBSET C,
         NEW limit \in Nat, NEW n \in Nat, Bounded(sh, M, T, C, limit, n)
  PROVE  Bounded(sh, M2, T, C2, limit, n + 1)
<1> DEFINE k == n * Loss(sh, limit)
<1>1. k \in Nat /\ (n + 1) * Loss(sh, limit) = k + 1
  BY LossMore DEF Loss
<1>2. Covered(M, T, k) /\ Room(sh, T, C2, limit) /\ IsFiniteSet(Live(sh))
  BY BoundedFewer, LiveFinite DEF Bounded
<1> HIDE DEF k
<1>3. Covered(M2, T, k + 1)
  <2>1. CASE M2 = M
    <3>1. k + 1 \in Nat /\ k <= k + 1
      BY <1>1
    <3>2. Covered(M, T, k + 1)
      BY <1>1, <1>2, <3>1, CoveredWeaker
    <3>3. QED
      BY <2>1, <3>2
  <2>2. CASE \E d \in D : OneMore(M2, M, d)
    BY <1>1, <1>2, <2>2, CoveredBut
  <2>3. QED
    BY <2>1, <2>2
<1>4. QED
  BY <1>1, <1>2, <1>3 DEF Bounded

(* A process that ends takes its own lists with it: there was still room   *)
(* for the attempt it was at.                                              *)
LEMMA BoundedRestart ==
  ASSUME NEW sh \in BOOLEAN, ~sh, NEW D, IsFiniteSet(D),
         NEW M \in [D -> [Ages -> Nat]], NEW M2 \in [D -> [Ages -> Nat]],
         NEW T \in [Live(sh) -> [Ages -> Nat]], NEW T2 \in [Live(sh) -> [Ages -> Nat]],
         NEW C \in SUBSET Processes, NEW p \in Processes,
         M2 = M \/ (p \in C /\ \E d \in D : OneMore(M2, M, d)),
         T2[p] = NoTries, \A h \in Processes : h # p => T2[h] = T[h],
         NEW limit \in Nat, NEW n \in Nat, Bounded(sh, M, T, C, limit, n)
  PROVE  Bounded(sh, M2, T2, C \ {p}, limit, n + 1)
<1> DEFINE k == n * Loss(sh, limit)
<1>1. k \in Nat /\ (n + 1) * Loss(sh, limit) = k + limit
  BY LossMore DEF Loss
<1>2. Covered(M, T, k) /\ Room(sh, T, C, limit)
  BY DEF Bounded
<1> HIDE DEF k
<1>3. Live(sh) = Processes /\ IsFiniteSet(Processes)
  BY LimitsAssumption DEF Live
<1>4. T \in [Processes -> [Ages -> Nat]] /\ T2 \in [Processes -> [Ages -> Nat]]
  BY <1>3
<1>5. T[p] \in [Ages -> Nat] /\ Tally(T[p]) \in Nat
  BY <1>4, AgesFinite, TokensFinite
<1>6. Tally(T[p]) <= limit /\ (p \in C => Tally(T[p]) <= limit - 1 /\ limit - 1 \in Nat)
  BY <1>2, <1>5 DEF Room
<1>7. Covered(M2, T2, k + limit)
  <2>1. CASE M2 = M
    BY <1>1, <1>2, <1>3, <1>4, <1>6, <2>1, CoveredLoss
  <2>2. CASE p \in C /\ \E d \in D : OneMore(M2, M, d)
    <3>1. PICK d \in D : OneMore(M2, M, d)
      BY <2>2
    <3> DEFINE n1 == limit - 1
    <3>2. n1 \in Nat /\ Tally(T[p]) <= n1 /\ k + n1 \in Nat /\ (k + n1) + 1 = k + limit
      BY <1>1, <1>6, <2>2
    <3> HIDE DEF n1
    <3>3. Covered(M, T2, k + n1)
      BY <1>1, <1>2, <1>3, <1>4, <3>2, CoveredLoss
    <3>4. Covered(M2, T2, (k + n1) + 1)
      BY <1>3, <1>4, <3>1, <3>2, <3>3, CoveredBut
    <3>5. QED
      BY <3>2, <3>4
  <2>3. QED
    BY <2>1, <2>2
<1>8. Room(sh, T2, C \ {p}, limit)
  <2>1. Tally(T2[p]) = 0
    <3>1. \A a \in DOMAIN T2[p] : T2[p][a] = 0
      BY DEF NoTries
    <3>2. QED
      BY <3>1, TallyOfNone
  <2>2. QED
    BY <1>2, <2>1 DEF Room
<1>9. QED
  BY <1>1, <1>7, <1>8 DEF Bounded

LEMMA BoundedLater ==
  ASSUME NEW sh \in BOOLEAN, NEW D, IsFiniteSet(D),
         NEW M \in [D -> [Ages -> Nat]], NEW M2 \in [D -> [Ages -> Nat]],
         Aged(M2, M), \A x \in D : M2[x][Window] = 0,
         NEW T \in [Live(sh) -> [Ages -> Nat]], NEW T2 \in [Live(sh) -> [Ages -> Nat]],
         Aged(T2, T), \A h \in Live(sh) : Tally(T2[h]) <= Tally(T[h]),
         NEW C \in SUBSET Processes,
         NEW limit \in Nat, NEW n \in Nat, Bounded(sh, M, T, C, limit, n)
  PROVE  Bounded(sh, M2, T2, C, limit, n)
<1> DEFINE k == n * Loss(sh, limit)
<1>1. k \in Nat /\ Covered(M, T, k) /\ Room(sh, T, C, limit) /\ IsFiniteSet(Live(sh))
  BY LossMore, LiveFinite DEF Bounded
<1> HIDE DEF k
<1>2. Covered(M2, T2, k)
  BY <1>1, CoveredLater
<1>3. \A h \in Live(sh) : Tally(T[h]) \in Nat /\ Tally(T2[h]) \in Nat
  BY AgesFinite, TokensFinite
<1>4. CASE sh
  <2>1. Redis \in Live(sh)
    BY <1>4 DEF Live
  <2>2. Cardinality(C) \in Nat /\ Cardinality(Processes) \in Nat
    BY FS_Subset, FS_CardinalityType, LimitsAssumption
  <2> DEFINE a == Tally(T[Redis])  d == Tally(T2[Redis])  c == Cardinality(C)
  <2>3. a \in Nat /\ d \in Nat /\ c \in Nat /\ d <= a
    BY <1>3, <2>1, <2>2
  <2> HIDE DEF a, c, d
  <2>4. d + c <= a + c
    BY <2>3
  <2>5. Room(sh, T2, C, limit)
    BY <1>1, <1>4, <2>2, <2>3, <2>4, SharedRoomKept DEF a, c, d
  <2>6. QED
    BY <1>2, <2>5 DEF Bounded, k
<1>5. CASE ~sh
  <2>1. Live(sh) = Processes
    BY <1>5 DEF Live
  <2>2. Room(sh, T2, C, limit)
    BY <1>1, <1>3, <1>5, <2>1 DEF Room
  <2>3. QED
    BY <1>2, <2>2 DEF Bounded, k
<1>6. QED
  BY <1>4, <1>5

(* What a limit amounts to, n times lost.                                  *)
LEMMA BoundedAmounts ==
  ASSUME NEW sh \in BOOLEAN, NEW D, IsFiniteSet(D), NEW M \in [D -> [Ages -> Nat]],
         NEW T \in [Live(sh) -> [Ages -> Nat]], NEW C \in SUBSET Processes,
         NEW limit \in Nat, NEW n \in Nat, Bounded(sh, M, T, C, limit, n)
  PROVE  Upto(M, Window) <= IF sh THEN limit + Cardinality(Processes) - 1 + n
                            ELSE limit * (Cardinality(Processes) + n)
<1>1. Window \in Horizons /\ Cardinality(Processes) \in Nat
  BY LimitsAssumption, FS_CardinalityType DEF Horizons
<1>2. /\ Upto(M, Window) \in Nat /\ Upto(T, Window) \in Nat
      /\ Upto(M, Window) <= Upto(T, Window) + n * Loss(sh, limit)
      /\ Room(sh, T, C, limit)
  BY <1>1, FlatType, LiveFinite DEF Bounded, Covered
<1>3. CASE sh
  <2>1. T \in [{Redis} -> [Ages -> Nat]] /\ n * Loss(sh, limit) = n
    BY <1>3 DEF Live, Loss
  <2>2. Upto(T, Window) <= Tally(T[Redis]) /\ Tally(T[Redis]) \in Nat
    BY <1>1, <2>1, UptoOfOne, AgesFinite, TokensFinite
  <2>3. Cardinality(C) \in Nat
    BY FS_Subset, FS_CardinalityType, LimitsAssumption
  <2>4. Tally(T[Redis]) + Cardinality(C) <= limit + Cardinality(Processes) - 1
    BY <1>2, <1>3, SharedRoom
  <2> DEFINE a == Tally(T[Redis])  b == Cardinality(C)  c == Cardinality(Processes)
             x == Upto(M, Window)  y == Upto(T, Window)
  <2>5. /\ {a, b, c, x, y} \subseteq Nat /\ a + b <= limit + c - 1 /\ y <= a
        /\ x <= y + n
    BY <1>1, <1>2, <2>1, <2>2, <2>3, <2>4
  <2> HIDE DEF a, b, c, x, y
  <2>6. x <= limit + c - 1 + n
    BY <2>5
  <2>7. QED
    BY <1>3, <2>6 DEF x, c
<1>4. CASE ~sh
  <2>1. T \in [Processes -> [Ages -> Nat]] /\ Loss(sh, limit) = limit
    BY <1>4 DEF Live, Loss
  <2>2. \A p \in Processes : Tally(T[p]) <= limit
    BY <1>2, <1>4 DEF Room
  <2>3. Tally([x \in Processes \X Ages |-> T[x[1]][x[2]]]) <= limit * Cardinality(Processes)
    BY <2>1, <2>2, AgesFinite, LimitsAssumption, TallyOfEach
  <2>4. Upto(T, Window) = Tally([x \in Processes \X Ages |-> T[x[1]][x[2]]])
    BY <2>1 DEF Upto, Flat, Ages
  <2> DEFINE c == Cardinality(Processes)
  <2>5. Upto(M, Window) <= limit * c + n * limit
    <3>1. limit * c \in Nat /\ n * limit \in Nat
      BY <1>1
    <3> HIDE DEF c
    <3>2. QED
      BY <1>2, <2>1, <2>3, <2>4, <3>1 DEF c
  <2>6. limit * c + n * limit = limit * (c + n)
    BY <1>1
  <2>7. QED
    BY <1>4, <2>5, <2>6
<1>5. QED
  BY <1>3, <1>4

-----------------------------------------------------------------------------
(* The state.                                                              *)
Attempts == [Ages -> Nat]
Shaped(l) ==
  /\ {"acct", "ip"} \subseteq DOMAIN l
  /\ l.acct \in [Users -> Attempts] /\ l.ip \in [Addresses -> Attempts]
Asked(s) ==
  \/ s = Absent
  \/ s \in [at : {"compare"}, user : Users, ip : Addresses]
  \/ s \in [at : {"fails"}, user : Users, ip : Addresses] /\ shared
  \/ s.at = "backoff" /\ shared

LoginTypes ==
  /\ shared \in BOOLEAN
  /\ DOMAIN limiter = Holders /\ \A h \in Holders : Shaped(limiter[h])
  /\ DOMAIN login = Processes /\ \A p \in Processes : Asked(login[p])
  /\ made \in [Users -> [Addresses -> Attempts]]
  /\ lost \in Nat

AcctHeld(u) == [h \in Live(shared) |-> limiter[h].acct[u]]
IpHeld(i) == [h \in Live(shared) |-> limiter[h].ip[i]]
MadeFrom(m, i) == [u \in Users |-> m[u][i]]
Comparing(p) == login[p].at = "compare"
AtAcct(u) == {p \in Processes : Comparing(p) /\ login[p].user = u}
AtIp(i) == {p \in Processes : Comparing(p) /\ login[p].ip = i}

AcctBounded(u) == Bounded(shared, made[u], AcctHeld(u), AtAcct(u), AccountLimit, lost)
IpBounded(i) == Bounded(shared, MadeFrom(made, i), IpHeld(i), AtIp(i), IpLimit, lost)

LoginInv ==
  /\ LoginTypes
  /\ \A u \in Users : AcctBounded(u)
  /\ \A i \in Addresses : IpBounded(i)

LEMMA HeldTypes ==
  ASSUME LoginTypes
  PROVE  /\ Live(shared) \subseteq Holders
         /\ \A u \in Users : /\ made[u] \in [Addresses -> Attempts]
                             /\ AcctHeld(u) \in [Live(shared) -> Attempts]
                             /\ AtAcct(u) \in SUBSET Processes
         /\ \A i \in Addresses : /\ MadeFrom(made, i) \in [Users -> Attempts]
                                 /\ IpHeld(i) \in [Live(shared) -> Attempts]
                                 /\ AtIp(i) \in SUBSET Processes
         /\ AccountLimit \in Nat /\ IpLimit \in Nat /\ shared \in BOOLEAN /\ lost \in Nat
<1>1. Live(shared) \subseteq Holders
  BY DEF Live, Holders
<1>2. ASSUME NEW u \in Users PROVE AcctHeld(u) \in [Live(shared) -> Attempts]
  <2>1. \A h \in Live(shared) : limiter[h].acct \in [Users -> Attempts]
    BY <1>1 DEF LoginTypes, Shaped
  <2>2. \A h \in Live(shared) : limiter[h].acct[u] \in Attempts
    BY <2>1
  <2>3. QED
    BY <2>2 DEF AcctHeld
<1>3. ASSUME NEW i \in Addresses PROVE IpHeld(i) \in [Live(shared) -> Attempts]
  <2>1. \A h \in Live(shared) : limiter[h].ip \in [Addresses -> Attempts]
    BY <1>1 DEF LoginTypes, Shaped
  <2>2. \A h \in Live(shared) : limiter[h].ip[i] \in Attempts
    BY <2>1
  <2>3. QED
    BY <2>2 DEF IpHeld
<1>4. \A u \in Users : made[u] \in [Addresses -> Attempts]
  BY DEF LoginTypes
<1>5. \A i \in Addresses : MadeFrom(made, i) \in [Users -> Attempts]
  BY <1>4 DEF MadeFrom
<1>6. QED
  BY <1>1, <1>2, <1>3, <1>4, <1>5, LimitsAssumption DEF LoginTypes, AtAcct, AtIp

LEMMA HolderLives ==
  ASSUME LoginTypes, NEW p \in Processes
  PROVE  Holder(p) = HolderOf(shared, p) /\ Holder(p) \in Live(shared) /\ Holder(p) \in Holders
BY DEF Holder, HolderOf, Live, Holders, LoginTypes

-----------------------------------------------------------------------------
(* What the operations do to the lists.                                    *)
LEMMA NoTriesType == NoTries \in Attempts /\ Fresh.acct \in [Users -> Attempts]
BY DEF NoTries, Attempts, Fresh

LEMMA AddType ==
  ASSUME LoginTypes, NEW t \in Attempts
  PROVE  /\ Add(t) \in Attempts
         /\ Add(t) = IF shared THEN [NoTries EXCEPT ![0] = Tally(t) + 1] ELSE [t EXCEPT ![0] = @ + 1]
<1>1. Tally(t) \in Nat
  BY AgesFinite, TokensFinite DEF Attempts
<1>2. QED
  BY <1>1, AgesFinite DEF Add, NoTries, Attempts, LoginTypes

LEMMA CountedLists ==
  ASSUME LoginTypes, NEW l, Shaped(l), NEW u \in Users, NEW i \in Addresses
  PROVE  /\ Shaped(Counted(l, u, i))
         /\ Counted(l, u, i).acct = [l.acct EXCEPT ![u] = Add(l.acct[u])]
         /\ Counted(l, u, i).ip = [l.ip EXCEPT ![i] = Add(l.ip[i])]
<1>1. l.acct \in [Users -> Attempts] /\ l.ip \in [Addresses -> Attempts]
  BY DEF Shaped
<1>2. Add(l.acct[u]) \in Attempts /\ Add(l.ip[i]) \in Attempts
  BY <1>1, AddType
<1> DEFINE a == [l.acct EXCEPT ![u] = Add(l.acct[u])]  b == [l.ip EXCEPT ![i] = Add(l.ip[i])]
<1>3. a \in [Users -> Attempts] /\ b \in [Addresses -> Attempts]
  BY <1>1, <1>2
<1>4. /\ DOMAIN Counted(l, u, i) = DOMAIN l
      /\ Counted(l, u, i).acct = a /\ Counted(l, u, i).ip = b
  BY DEF Counted, Shaped
<1> HIDE DEF a, b
<1>5. QED
  BY <1>3, <1>4 DEF Shaped, a, b

LEMMA OutcomeLists ==
  ASSUME NEW l, Shaped(l), NEW u, NEW n
  PROVE  /\ Shaped(Succeeded(l, u)) /\ Succeeded(l, u).acct = l.acct /\ Succeeded(l, u).ip = l.ip
         /\ Shaped(Failed(l, u)) /\ Failed(l, u).acct = l.acct /\ Failed(l, u).ip = l.ip
         /\ Shaped(BackedOff(l, u, n))
         /\ BackedOff(l, u, n).acct = l.acct /\ BackedOff(l, u, n).ip = l.ip
<1>1. /\ DOMAIN Succeeded(l, u) = DOMAIN l
      /\ Succeeded(l, u).acct = l.acct /\ Succeeded(l, u).ip = l.ip
  BY DEF Succeeded, Shaped
<1>2. DOMAIN Failed(l, u) = DOMAIN l /\ Failed(l, u).acct = l.acct /\ Failed(l, u).ip = l.ip
  BY DEF Failed, Shaped
<1>3. /\ DOMAIN BackedOff(l, u, n) = DOMAIN l
      /\ BackedOff(l, u, n).acct = l.acct /\ BackedOff(l, u, n).ip = l.ip
  BY DEF BackedOff, Shaped
<1>4. QED
  BY <1>1, <1>2, <1>3 DEF Shaped

LEMMA LaterLists ==
  ASSUME NEW l, Shaped(l)
  PROVE  /\ Shaped(AfterTick(l))
         /\ \A u \in Users : AfterTick(l).acct[u] = Aging(l.acct[u])
         /\ \A i \in Addresses : AfterTick(l).ip[i] = Aging(l.ip[i])
<1>1. /\ AfterTick(l).acct = [u \in Users |-> Aging(l.acct[u])]
      /\ AfterTick(l).ip = [i \in Addresses |-> Aging(l.ip[i])]
      /\ {"acct", "ip"} \subseteq DOMAIN AfterTick(l)
  BY DEF AfterTick
<1>2. \A u \in Users : Aging(l.acct[u]) \in Attempts
  BY AgingFewer DEF Shaped, Attempts
<1>3. \A i \in Addresses : Aging(l.ip[i]) \in Attempts
  BY AgingFewer DEF Shaped, Attempts
<1>4. QED
  BY <1>1, <1>2, <1>3 DEF Shaped

-----------------------------------------------------------------------------
(* The steps.                                                              *)
LEMMA BoundedAtFirst ==
  ASSUME NEW sh \in BOOLEAN, NEW D, IsFiniteSet(D), NEW M \in [D -> Attempts],
         \A x \in D : M[x] = NoTries,
         NEW T \in [Live(sh) -> Attempts], \A h \in Live(sh) : T[h] = NoTries,
         NEW limit \in Nat \ {0}
  PROVE  Bounded(sh, M, T, {}, limit, 0)
<1>1. \A h \in Live(sh) : Tally(T[h]) = 0
  <2>1. \A a \in DOMAIN NoTries : NoTries[a] = 0
    BY DEF NoTries
  <2>2. Tally(NoTries) = 0
    BY <2>1, TallyOfNone
  <2>3. QED
    BY <2>2
<1>2. Cardinality({}) = 0 /\ Cardinality(Processes) \in Nat
  BY FS_EmptySet, FS_CardinalityType, LimitsAssumption
<1>3. Room(sh, T, {}, limit)
  BY <1>1, <1>2 DEF Room, Live
<1>4. ASSUME NEW b \in Horizons PROVE Upto(M, b) <= Upto(T, b) + 0
  <2>1. 0..b \subseteq Ages /\ IsFiniteSet(Live(sh))
    BY FlatFinite, LiveFinite
  <2>2. \A x \in DOMAIN Flat(M, b) : Flat(M, b)[x] = 0
    BY <2>1 DEF Flat, NoTries
  <2>3. Upto(M, b) = 0
    BY <2>2, TallyOfNone DEF Upto
  <2>4. Upto(T, b) \in Nat
    BY <2>1, FlatType DEF Attempts
  <2>5. QED
    BY <2>3, <2>4
<1>5. Loss(sh, limit) \in Nat /\ 0 * Loss(sh, limit) = 0
  BY DEF Loss
<1>6. QED
  BY <1>3, <1>4, <1>5 DEF Bounded, Covered

LEMMA InitKeeps == LoginInit => LoginInv
<1> SUFFICES ASSUME LoginInit PROVE LoginInv
  OBVIOUS
<1> USE DEF LoginInit
<1>1. LoginTypes
  BY NoTriesType DEF LoginTypes, Shaped, Fresh, Asked
<1>2. \A h \in Live(shared) : limiter[h] = Fresh
  BY <1>1, HeldTypes
<1>3. ASSUME NEW u \in Users PROVE AcctBounded(u)
  <2>1. AtAcct(u) = {}
    BY DEF AtAcct, Comparing, Absent
  <2>2. \A h \in Live(shared) : AcctHeld(u)[h] = NoTries
    <3>1. Fresh.acct[u] = NoTries
      BY DEF Fresh
    <3>2. \A h \in Live(shared) : AcctHeld(u)[h] = limiter[h].acct[u]
      BY DEF AcctHeld
    <3>3. QED
      BY <1>2, <3>1, <3>2
  <2>3. \A x \in Addresses : made[u][x] = NoTries
    OBVIOUS
  <2>4. Bounded(shared, made[u], AcctHeld(u), {}, AccountLimit, 0)
    BY <1>1, <2>2, <2>3, HeldTypes, BoundedAtFirst, LimitsAssumption
  <2>5. QED
    BY <2>1, <2>4 DEF AcctBounded
<1>4. ASSUME NEW i \in Addresses PROVE IpBounded(i)
  <2>1. AtIp(i) = {}
    BY DEF AtIp, Comparing, Absent
  <2>2. \A h \in Live(shared) : IpHeld(i)[h] = NoTries
    <3>1. Fresh.ip[i] = NoTries
      BY DEF Fresh
    <3>2. \A h \in Live(shared) : IpHeld(i)[h] = limiter[h].ip[i]
      BY DEF IpHeld
    <3>3. QED
      BY <1>2, <3>1, <3>2
  <2>3. \A x \in Users : MadeFrom(made, i)[x] = NoTries
    BY DEF MadeFrom
  <2>4. Bounded(shared, MadeFrom(made, i), IpHeld(i), {}, IpLimit, 0)
    BY <1>1, <2>2, <2>3, HeldTypes, BoundedAtFirst, LimitsAssumption
  <2>5. QED
    BY <2>1, <2>4 DEF IpBounded
<1>5. QED
  BY <1>1, <1>3, <1>4 DEF LoginInv

LEMMA CheckKeeps ==
  ASSUME LoginInv, NEW p \in Processes, NEW u \in Users, NEW i \in Addresses, Check(p, u, i)
  PROVE  LoginInv'
<1> USE DEF LoginInv
<1> DEFINE now == [at |-> "compare", user |-> u, ip |-> i]
<1>1. UNCHANGED <<shared, limiter, made, lost>> /\ login' = [login EXCEPT ![p] = now]
  BY DEF Check
<1>2. now.at = "compare" /\ now.user = u /\ now.ip = i
  OBVIOUS
<1>3. LoginTypes'
  BY <1>1 DEF LoginTypes, Asked
<1>4. ASSUME NEW v \in Users PROVE AcctBounded(v)'
  <2> DEFINE C == AtAcct(v)  T == AcctHeld(v)
  <2>1. T' = T
    BY <1>1 DEF AcctHeld
  <2>2. C' = IF v = u THEN C \cup {p} ELSE C \ {p}
    BY <1>1, <1>2 DEF AtAcct, Comparing, LoginTypes
  <2>3. Bounded(shared, made[v], T, C, AccountLimit, lost)
    BY DEF AcctBounded
  <2>4. /\ T \in [Live(shared) -> [Ages -> Nat]] /\ C \in SUBSET Processes /\ C \ {p} \in SUBSET C
        /\ shared \in BOOLEAN /\ AccountLimit \in Nat /\ lost \in Nat
    BY HeldTypes DEF Attempts
  <2>5. v = u => Tally(T[HolderOf(shared, p)]) < AccountLimit
    BY HolderLives DEF Check, Allowed, AcctHeld
  <2> HIDE DEF C, T
  <2>6. Bounded(shared, made[v], T, C', AccountLimit, lost)
    <3>1. CASE v = u
      <4>1. Bounded(shared, made[v], T, C \cup {p}, AccountLimit, lost)
        BY <2>3, <2>4, <2>5, <3>1, BoundedCheck
      <4>2. QED
        BY <2>2, <3>1, <4>1
    <3>2. CASE v # u
      <4>1. Bounded(shared, made[v], T, C \ {p}, AccountLimit, lost)
        BY <2>3, <2>4, BoundedFewer
      <4>2. QED
        BY <2>2, <3>2, <4>1
    <3>3. QED
      BY <3>1, <3>2
  <2>7. QED
    BY <1>1, <2>1, <2>6 DEF AcctBounded, C, T
<1>5. ASSUME NEW j \in Addresses PROVE IpBounded(j)'
  <2> DEFINE C == AtIp(j)  T == IpHeld(j)  M == MadeFrom(made, j)
  <2>1. T' = T /\ M' = M
    BY <1>1 DEF IpHeld, MadeFrom
  <2>2. C' = IF j = i THEN C \cup {p} ELSE C \ {p}
    BY <1>1, <1>2 DEF AtIp, Comparing, LoginTypes
  <2>3. Bounded(shared, M, T, C, IpLimit, lost)
    BY DEF IpBounded
  <2>4. /\ T \in [Live(shared) -> [Ages -> Nat]] /\ C \in SUBSET Processes /\ C \ {p} \in SUBSET C
        /\ shared \in BOOLEAN /\ IpLimit \in Nat /\ lost \in Nat
    BY HeldTypes DEF Attempts
  <2>5. j = i => Tally(T[HolderOf(shared, p)]) < IpLimit
    BY HolderLives DEF Check, Allowed, IpHeld
  <2> HIDE DEF C, T, M
  <2>6. Bounded(shared, M, T, C', IpLimit, lost)
    <3>1. CASE j = i
      <4>1. Bounded(shared, M, T, C \cup {p}, IpLimit, lost)
        BY <2>3, <2>4, <2>5, <3>1, BoundedCheck
      <4>2. QED
        BY <2>2, <3>1, <4>1
    <3>2. CASE j # i
      <4>1. Bounded(shared, M, T, C \ {p}, IpLimit, lost)
        BY <2>3, <2>4, BoundedFewer
      <4>2. QED
        BY <2>2, <3>2, <4>1
    <3>3. QED
      BY <3>1, <3>2
  <2>7. QED
    BY <1>1, <2>1, <2>6 DEF IpBounded, C, T, M
<1>6. QED
  BY <1>3, <1>4, <1>5

(* What is told or lost after the comparison changes no list.              *)
LEMMA QuietKeeps ==
  ASSUME LoginInv, LoginTypes', UNCHANGED <<shared, made, lost>>,
         \A h \in Holders : limiter'[h].acct = limiter[h].acct /\ limiter'[h].ip = limiter[h].ip,
         \A q \in Processes : login'[q].at = "compare" => login'[q] = login[q]
  PROVE  LoginInv'
<1> USE DEF LoginInv
<1>1. Live(shared) \subseteq Holders
  BY HeldTypes
<1>2. ASSUME NEW v \in Users PROVE AcctBounded(v)'
  <2> DEFINE C == AtAcct(v)  T == AcctHeld(v)
  <2>1. T' = T
    BY <1>1 DEF AcctHeld
  <2>2. C' \in SUBSET C
    BY DEF AtAcct, Comparing
  <2>3. Bounded(shared, made[v], T, C, AccountLimit, lost)
    BY DEF AcctBounded
  <2>4. /\ T \in [Live(shared) -> [Ages -> Nat]] /\ C \in SUBSET Processes
        /\ shared \in BOOLEAN /\ AccountLimit \in Nat /\ lost \in Nat
    BY HeldTypes DEF Attempts
  <2> HIDE DEF C, T
  <2>5. Bounded(shared, made[v], T, C', AccountLimit, lost)
    BY <2>2, <2>3, <2>4, BoundedFewer
  <2>6. QED
    BY <2>1, <2>5 DEF AcctBounded, C, T
<1>3. ASSUME NEW j \in Addresses PROVE IpBounded(j)'
  <2> DEFINE C == AtIp(j)  T == IpHeld(j)  M == MadeFrom(made, j)
  <2>1. T' = T /\ M' = M
    BY <1>1 DEF IpHeld, MadeFrom
  <2>2. C' \in SUBSET C
    BY DEF AtIp, Comparing
  <2>3. Bounded(shared, M, T, C, IpLimit, lost)
    BY DEF IpBounded
  <2>4. /\ T \in [Live(shared) -> [Ages -> Nat]] /\ C \in SUBSET Processes
        /\ shared \in BOOLEAN /\ IpLimit \in Nat /\ lost \in Nat
    BY HeldTypes DEF Attempts
  <2> HIDE DEF C, T, M
  <2>5. Bounded(shared, M, T, C', IpLimit, lost)
    BY <2>2, <2>3, <2>4, BoundedFewer
  <2>6. QED
    BY <2>1, <2>5 DEF IpBounded, C, T, M
<1>4. QED
  BY <1>2, <1>3

LEMMA ReadFailuresKeeps ==
  ASSUME LoginInv, NEW p \in Processes, ReadFailures(p)
  PROVE  LoginInv'
<1> USE DEF LoginInv
<1> DEFINE s == [at |-> "backoff", user |-> login[p].user, ip |-> login[p].ip,
                 fails |-> limiter[Redis].fails[login[p].user]]
<1>1. UNCHANGED <<shared, limiter, made, lost>> /\ login' = [login EXCEPT ![p] = s]
  BY DEF ReadFailures
<1>2. s.at = "backoff" /\ shared
  BY DEF ReadFailures, LoginTypes, Asked, Absent
<1> HIDE DEF s
<1>3. LoginTypes'
  BY <1>1, <1>2 DEF LoginTypes, Asked
<1>4. QED
  BY <1>1, <1>2, <1>3, QuietKeeps DEF LoginTypes

LEMMA WriteKept ==
  ASSUME LoginTypes, NEW p \in Processes, NEW l, Shaped(l), Write(p, l)
  PROVE  /\ DOMAIN limiter' = Holders /\ limiter'[Holder(p)] = l
         /\ \A h \in Holders : h # Holder(p) => limiter'[h] = limiter[h]
         /\ \A h \in Holders : Shaped(limiter'[h])
BY HolderLives DEF Write, LoginTypes

LEMMA DoneKept ==
  ASSUME LoginTypes, NEW p \in Processes, Done(p)
  PROVE  /\ DOMAIN login' = Processes /\ login'[p] = Absent /\ login'[p].at # "compare"
         /\ \A q \in Processes : q # p => login'[q] = login[q]
         /\ shared' = shared => \A q \in Processes : Asked(login[q])'
BY DEF Done, LoginTypes, Asked, Absent

LEMMA SetBackoffKeeps ==
  ASSUME LoginInv, NEW p \in Processes, SetBackoff(p)
  PROVE  LoginInv'
<1> USE DEF LoginInv
<1> DEFINE l == BackedOff(limiter[Redis], login[p].user, login[p].fails)
<1>1. UNCHANGED <<shared, made, lost>> /\ Write(p, l) /\ Done(p)
  BY DEF SetBackoff
<1>2. shared /\ Holder(p) = Redis /\ Redis \in Holders
  BY DEF SetBackoff, LoginTypes, Asked, Absent, Holder, Holders
<1>3. Shaped(l) /\ l.acct = limiter[Redis].acct /\ l.ip = limiter[Redis].ip
  BY <1>2, OutcomeLists DEF LoginTypes
<1> HIDE DEF l
<1>4. LoginTypes'
  BY <1>1, <1>3, WriteKept, DoneKept DEF LoginTypes
<1>5. \A h \in Holders : limiter'[h].acct = limiter[h].acct /\ limiter'[h].ip = limiter[h].ip
  BY <1>1, <1>2, <1>3, WriteKept
<1>6. \A q \in Processes : login'[q].at = "compare" => login'[q] = login[q]
  BY <1>1, DoneKept
<1>7. QED
  BY <1>1, <1>4, <1>5, <1>6, QuietKeeps

(* One more login made, for an account and from an address.                *)
LEMMA MadeMore ==
  ASSUME LoginTypes, NEW p \in Processes, login[p].at = "compare", Made(p)
  PROVE  /\ login[p].user \in Users /\ login[p].ip \in Addresses
         /\ made' \in [Users -> [Addresses -> Attempts]]
         /\ OneMore(made'[login[p].user], made[login[p].user], login[p].ip)
         /\ \A v \in Users : v # login[p].user => made'[v] = made[v]
         /\ OneMore(MadeFrom(made', login[p].ip), MadeFrom(made, login[p].ip), login[p].user)
         /\ \A j \in Addresses : j # login[p].ip => MadeFrom(made', j) = MadeFrom(made, j)
<1> DEFINE u == login[p].user  i == login[p].ip
<1>1. u \in Users /\ i \in Addresses
  BY DEF LoginTypes, Asked, Absent
<1>2. made' = [made EXCEPT ![u][i][0] = @ + 1] /\ made \in [Users -> [Addresses -> Attempts]]
  BY DEF Made, LoginTypes
<1> HIDE DEF u, i
<1>3. /\ made[u] \in [Addresses -> Attempts] /\ made[u][i] \in Attempts
      /\ made[u][i][0] + 1 \in Nat
  BY <1>1, <1>2, AgesFinite DEF Attempts
<1> DEFINE a == [made[u][i] EXCEPT ![0] = made[u][i][0] + 1]
           m == [made[u] EXCEPT ![i] = a]
<1>4. made' = [made EXCEPT ![u] = m]
  BY <1>2
<1>5. a \in Attempts /\ a[0] = made[u][i][0] + 1 /\ \A n \in Ages : n # 0 => a[n] = made[u][i][n]
  BY <1>3, AgesFinite DEF Attempts
<1> HIDE DEF a
<1>6. /\ m \in [Addresses -> Attempts] /\ m[i] = a
      /\ \A j \in Addresses : j # i => m[j] = made[u][j]
  BY <1>1, <1>3, <1>5
<1> HIDE DEF m
<1>7. /\ made' \in [Users -> [Addresses -> Attempts]] /\ made'[u] = m
      /\ \A v \in Users : v # u => made'[v] = made[v]
  BY <1>1, <1>2, <1>4, <1>6
<1>8. OneMore(made'[u], made[u], i)
  BY <1>1, <1>3, <1>5, <1>6, <1>7 DEF OneMore
<1>9. OneMore(MadeFrom(made', i), MadeFrom(made, i), u)
  BY <1>1, <1>5, <1>6, <1>7 DEF OneMore, MadeFrom
<1>10. \A j \in Addresses : j # i => MadeFrom(made', j) = MadeFrom(made, j)
  BY <1>1, <1>6, <1>7 DEF MadeFrom
<1>11. QED
  BY <1>1, <1>7, <1>8, <1>9, <1>10 DEF u, i

LEMMA RecordKeeps ==
  ASSUME LoginInv, NEW p \in Processes, NEW ok \in BOOLEAN, Record(p, ok)
  PROVE  LoginInv'
<1> USE DEF LoginInv
<1> DEFINE u == login[p].user  i == login[p].ip  h == Holder(p)
           l == Counted(limiter[h], u, i)
<1>1. UNCHANGED <<shared, lost>> /\ Made(p) /\ login[p].at = "compare"
  BY DEF Record
<1>2. /\ u \in Users /\ i \in Addresses /\ made' \in [Users -> [Addresses -> Attempts]]
      /\ OneMore(made'[u], made[u], i) /\ \A v \in Users : v # u => made'[v] = made[v]
      /\ OneMore(MadeFrom(made', i), MadeFrom(made, i), u)
      /\ \A j \in Addresses : j # i => MadeFrom(made', j) = MadeFrom(made, j)
  BY <1>1, MadeMore
<1>3. h = HolderOf(shared, p) /\ h \in Live(shared) /\ h \in Holders
  BY HolderLives
<1>4. /\ Shaped(l) /\ l.acct = [limiter[h].acct EXCEPT ![u] = Add(limiter[h].acct[u])]
      /\ l.ip = [limiter[h].ip EXCEPT ![i] = Add(limiter[h].ip[i])]
  <2>1. Shaped(limiter[h])
    BY <1>3 DEF LoginTypes
  <2>2. LoginTypes /\ u \in Users /\ i \in Addresses
    BY <1>2
  <2> HIDE DEF h, u, i
  <2> DEFINE x == limiter[h]
  <2>3. Shaped(x)
    BY <2>1
  <2> HIDE DEF x
  <2>4. /\ Shaped(Counted(x, u, i)) /\ Counted(x, u, i).acct = [x.acct EXCEPT ![u] = Add(x.acct[u])]
        /\ Counted(x, u, i).ip = [x.ip EXCEPT ![i] = Add(x.ip[i])]
    BY <2>2, <2>3, CountedLists
  <2>5. QED
    BY <2>4 DEF x
<1>5. \E l2 : Write(p, l2) /\ Shaped(l2) /\ l2.acct = l.acct /\ l2.ip = l.ip
  <2>1. CASE ok
    BY <2>1, <1>4, OutcomeLists DEF Record
  <2>2. CASE ~ok /\ shared
    BY <2>2, <1>4, OutcomeLists DEF Record
  <2>3. CASE ~ok /\ ~shared
    BY <2>3, <1>4, OutcomeLists DEF Record
  <2>4. QED
    BY <2>1, <2>2, <2>3
<1>6. /\ DOMAIN login' = Processes /\ login'[p].at # "compare"
      /\ \A q \in Processes : q # p => login'[q] = login[q]
      /\ \A q \in Processes : Asked(login[q])'
  <2>1. CASE Done(p)
    BY <2>1, <1>1, DoneKept
  <2>2. CASE shared /\ login' = [login EXCEPT ![p].at = "fails"]
    <3>1. login[p] = [at |-> "compare", user |-> u, ip |-> i]
      BY <1>1 DEF LoginTypes, Asked, Absent
    <3>2. /\ DOMAIN login' = Processes /\ login'[p] = [login[p] EXCEPT !.at = "fails"]
          /\ \A q \in Processes : q # p => login'[q] = login[q]
      BY <2>2 DEF LoginTypes
    <3> HIDE DEF u, i
    <3>3. login'[p].at = "fails" /\ login'[p] \in [at : {"fails"}, user : Users, ip : Addresses]
      BY <3>1, <3>2, <1>2
    <3>4. ASSUME NEW q \in Processes PROVE Asked(login[q])'
      <4>1. CASE q = p
        BY <1>1, <2>2, <3>3, <4>1 DEF Asked
      <4>2. CASE q # p
        BY <1>1, <3>2, <4>2 DEF Asked, LoginTypes
      <4>3. QED
        BY <4>1, <4>2
    <3>5. QED
      BY <3>2, <3>3, <3>4
  <2>3. QED
    BY <2>1, <2>2 DEF Record
<1>7. /\ DOMAIN limiter' = Holders /\ \A g \in Holders : Shaped(limiter'[g])
      /\ \A g \in Holders : g # h => limiter'[g] = limiter[g]
      /\ limiter'[h].acct = l.acct /\ limiter'[h].ip = l.ip
  BY <1>5, WriteKept
<1>8. LoginTypes'
  BY <1>1, <1>2, <1>6, <1>7 DEF LoginTypes, Shaped
<1> HIDE DEF l, h, u, i
<1>9. ASSUME NEW v \in Users PROVE AcctBounded(v)'
  <2> DEFINE C == AtAcct(v)  T == AcctHeld(v)
  <2>1. C' = IF v = u THEN C \ {p} ELSE C
    BY <1>1, <1>6 DEF AtAcct, Comparing, u
  <2>2. v = u => p \in C
    BY <1>1 DEF AtAcct, Comparing, u
  <2>3. Bounded(shared, made[v], T, C, AccountLimit, lost)
    BY DEF AcctBounded
  <2>4. /\ T \in [Live(shared) -> [Ages -> Nat]] /\ C \in SUBSET Processes
        /\ shared \in BOOLEAN /\ AccountLimit \in Nat /\ lost \in Nat
        /\ made[v] \in [Addresses -> [Ages -> Nat]] /\ IsFiniteSet(Addresses)
        /\ Live(shared) \subseteq Holders
    BY HeldTypes, LimitsAssumption DEF Attempts
  <2>5. T' \in [Live(shared) -> [Ages -> Nat]] /\ made'[v] \in [Addresses -> [Ages -> Nat]]
    <3>1. \A g \in Live(shared) : limiter'[g].acct \in [Users -> Attempts]
      BY <1>7, <2>4 DEF Shaped
    <3>2. T' = [g \in Live(shared) |-> limiter'[g].acct[v]]
      BY <1>1 DEF AcctHeld
    <3>3. QED
      BY <1>2, <3>1, <3>2 DEF Attempts
  <2>6. \A g \in Live(shared) : T'[g] = limiter'[g].acct[v] /\ T[g] = limiter[g].acct[v]
    BY <1>1 DEF AcctHeld
  <2>7. \A g \in Live(shared) : g # h => T'[g] = T[g]
    BY <1>7, <2>4, <2>6
  <2>8. v # u => T' = T
    <3>1. v # u => l.acct[v] = limiter[h].acct[v]
      BY <1>3, <1>4 DEF LoginTypes, Shaped
    <3>2. v # u => T'[h] = T[h]
      BY <1>3, <1>7, <2>6, <3>1
    <3>3. v # u => \A g \in Live(shared) : T'[g] = T[g]
      BY <2>7, <3>2
    <3> HIDE DEF T
    <3>4. QED
      BY <2>4, <2>5, <3>3
  <2>9. v = u => T'[h] = IF shared THEN [NoTries EXCEPT ![0] = Tally(T[h]) + 1]
                         ELSE [T[h] EXCEPT ![0] = @ + 1]
    <3>1. v = u => l.acct[v] = Add(limiter[h].acct[v])
      BY <1>3, <1>4 DEF LoginTypes, Shaped
    <3>2. T[h] \in Attempts
      BY <2>4, <1>3 DEF Attempts
    <3>3. v = u => T'[h] = Add(T[h])
      BY <1>3, <1>7, <2>6, <3>1
    <3> HIDE DEF T
    <3>4. QED
      BY <3>2, <3>3, AddType
  <2> HIDE DEF C, T
  <2>10. Bounded(shared, made'[v], T', C', AccountLimit, lost)
    <3>1. CASE v = u
      <4>1. Bounded(shared, made'[v], T', C \ {p}, AccountLimit, lost)
        BY <1>2, <1>3, <2>2, <2>3, <2>4, <2>5, <2>7, <2>9, <3>1, BoundedRecord
      <4>2. QED
        BY <2>1, <3>1, <4>1
    <3>2. CASE v # u
      BY <1>2, <2>1, <2>3, <2>8, <3>2
    <3>3. QED
      BY <3>1, <3>2
  <2>11. QED
    BY <1>1, <2>10 DEF AcctBounded, C, T
<1>10. ASSUME NEW j \in Addresses PROVE IpBounded(j)'
  <2> DEFINE C == AtIp(j)  T == IpHeld(j)
  <2>1. C' = IF j = i THEN C \ {p} ELSE C
    BY <1>1, <1>6 DEF AtIp, Comparing, i
  <2>2. j = i => p \in C
    BY <1>1 DEF AtIp, Comparing, i
  <2>3. Bounded(shared, MadeFrom(made, j), T, C, IpLimit, lost)
    BY DEF IpBounded
  <2>4. /\ T \in [Live(shared) -> [Ages -> Nat]] /\ C \in SUBSET Processes
        /\ shared \in BOOLEAN /\ IpLimit \in Nat /\ lost \in Nat
        /\ MadeFrom(made, j) \in [Users -> [Ages -> Nat]] /\ IsFiniteSet(Users)
        /\ Live(shared) \subseteq Holders
    BY HeldTypes, LimitsAssumption DEF Attempts
  <2>5. T' \in [Live(shared) -> [Ages -> Nat]] /\ MadeFrom(made', j) \in [Users -> [Ages -> Nat]]
    <3>1. \A g \in Live(shared) : limiter'[g].ip \in [Addresses -> Attempts]
      BY <1>7, <2>4 DEF Shaped
    <3>2. T' = [g \in Live(shared) |-> limiter'[g].ip[j]]
      BY <1>1 DEF IpHeld
    <3>3. QED
      BY <1>2, <3>1, <3>2 DEF Attempts, MadeFrom
  <2>6. \A g \in Live(shared) : T'[g] = limiter'[g].ip[j] /\ T[g] = limiter[g].ip[j]
    BY <1>1 DEF IpHeld
  <2>7. \A g \in Live(shared) : g # h => T'[g] = T[g]
    BY <1>7, <2>4, <2>6
  <2>8. j # i => T' = T
    <3>1. j # i => l.ip[j] = limiter[h].ip[j]
      BY <1>3, <1>4 DEF LoginTypes, Shaped
    <3>2. j # i => T'[h] = T[h]
      BY <1>3, <1>7, <2>6, <3>1
    <3>3. j # i => \A g \in Live(shared) : T'[g] = T[g]
      BY <2>7, <3>2
    <3> HIDE DEF T
    <3>4. QED
      BY <2>4, <2>5, <3>3
  <2>9. j = i => T'[h] = IF shared THEN [NoTries EXCEPT ![0] = Tally(T[h]) + 1]
                         ELSE [T[h] EXCEPT ![0] = @ + 1]
    <3>1. j = i => l.ip[j] = Add(limiter[h].ip[j])
      BY <1>3, <1>4 DEF LoginTypes, Shaped
    <3>2. T[h] \in Attempts
      BY <2>4, <1>3 DEF Attempts
    <3>3. j = i => T'[h] = Add(T[h])
      BY <1>3, <1>7, <2>6, <3>1
    <3> HIDE DEF T
    <3>4. QED
      BY <3>2, <3>3, AddType
  <2> HIDE DEF C, T
  <2>10. Bounded(shared, MadeFrom(made', j), T', C', IpLimit, lost)
    <3>1. CASE j = i
      <4>1. Bounded(shared, MadeFrom(made', j), T', C \ {p}, IpLimit, lost)
        BY <1>2, <1>3, <2>2, <2>3, <2>4, <2>5, <2>7, <2>9, <3>1, BoundedRecord
      <4>2. QED
        BY <2>1, <3>1, <4>1
    <3>2. CASE j # i
      BY <1>2, <2>1, <2>3, <2>8, <3>2
    <3>3. QED
      BY <3>1, <3>2
  <2>11. QED
    BY <1>1, <2>10 DEF IpBounded, C, T
<1>11. QED
  BY <1>8, <1>9, <1>10

(* A login the end of which no limiter hears of.                           *)
LEMMA Unheard ==
  ASSUME LoginTypes, NEW p \in Processes,
         IF login[p].at = "compare" THEN Made(p) ELSE UNCHANGED made
  PROVE  /\ made' \in [Users -> [Addresses -> Attempts]]
         /\ \A v \in Users :
              made'[v] = made[v]
                \/ (p \in AtAcct(v) /\ \E d \in Addresses : OneMore(made'[v], made[v], d))
         /\ \A j \in Addresses :
              MadeFrom(made', j) = MadeFrom(made, j)
                \/ (p \in AtIp(j)
                    /\ \E d \in Users : OneMore(MadeFrom(made', j), MadeFrom(made, j), d))
<1>1. CASE login[p].at = "compare"
  <2>1. /\ login[p].user \in Users /\ login[p].ip \in Addresses
        /\ made' \in [Users -> [Addresses -> Attempts]]
        /\ OneMore(made'[login[p].user], made[login[p].user], login[p].ip)
        /\ \A v \in Users : v # login[p].user => made'[v] = made[v]
        /\ OneMore(MadeFrom(made', login[p].ip), MadeFrom(made, login[p].ip), login[p].user)
        /\ \A j \in Addresses : j # login[p].ip => MadeFrom(made', j) = MadeFrom(made, j)
    BY <1>1, MadeMore
  <2>2. \A v \in Users : v = login[p].user => p \in AtAcct(v)
    BY <1>1 DEF AtAcct, Comparing
  <2>3. \A j \in Addresses : j = login[p].ip => p \in AtIp(j)
    BY <1>1 DEF AtIp, Comparing
  <2>4. QED
    BY <2>1, <2>2, <2>3
<1>2. CASE login[p].at # "compare"
  BY <1>2 DEF LoginTypes
<1>3. QED
  BY <1>1, <1>2

LEMMA LostShared ==
  ASSUME LoginInv, NEW p \in Processes, shared, UNCHANGED <<shared, limiter>>, lost' = lost + 1,
         IF login[p].at = "compare" THEN Made(p) ELSE UNCHANGED made, Done(p)
  PROVE  LoginInv'
<1> USE DEF LoginInv
<1>1. /\ DOMAIN login' = Processes /\ login'[p].at # "compare"
      /\ \A q \in Processes : q # p => login'[q] = login[q]
      /\ \A q \in Processes : Asked(login[q])'
  BY DoneKept
<1>2. /\ made' \in [Users -> [Addresses -> Attempts]]
      /\ \A v \in Users :
           made'[v] = made[v] \/ \E d \in Addresses : OneMore(made'[v], made[v], d)
      /\ \A j \in Addresses :
           \/ MadeFrom(made', j) = MadeFrom(made, j)
           \/ \E d \in Users : OneMore(MadeFrom(made', j), MadeFrom(made, j), d)
  BY Unheard
<1>3. LoginTypes'
  BY <1>1, <1>2 DEF LoginTypes
<1>4. ASSUME NEW v \in Users PROVE AcctBounded(v)'
  <2> DEFINE C == AtAcct(v)  T == AcctHeld(v)
  <2>1. C' \in SUBSET C
    BY <1>1 DEF AtAcct, Comparing
  <2>2. T' = T
    BY DEF AcctHeld
  <2>3. Bounded(shared, made[v], T, C, AccountLimit, lost)
    BY DEF AcctBounded
  <2>4. /\ T \in [Live(shared) -> [Ages -> Nat]] /\ C \in SUBSET Processes
        /\ shared \in BOOLEAN /\ AccountLimit \in Nat /\ lost \in Nat
        /\ made[v] \in [Addresses -> [Ages -> Nat]] /\ IsFiniteSet(Addresses)
        /\ made'[v] \in [Addresses -> [Ages -> Nat]]
    BY <1>2, HeldTypes, LimitsAssumption DEF Attempts
  <2>5. made'[v] = made[v] \/ \E d \in Addresses : OneMore(made'[v], made[v], d)
    BY <1>2
  <2> HIDE DEF C, T
  <2>6. Bounded(shared, made'[v], T, C', AccountLimit, lost + 1)
    BY <2>1, <2>3, <2>4, <2>5, BoundedLost
  <2>7. QED
    BY <2>2, <2>6 DEF AcctBounded, C, T
<1>5. ASSUME NEW j \in Addresses PROVE IpBounded(j)'
  <2> DEFINE C == AtIp(j)  T == IpHeld(j)
  <2>1. C' \in SUBSET C
    BY <1>1 DEF AtIp, Comparing
  <2>2. T' = T
    BY DEF IpHeld
  <2>3. Bounded(shared, MadeFrom(made, j), T, C, IpLimit, lost)
    BY DEF IpBounded
  <2>4. /\ T \in [Live(shared) -> [Ages -> Nat]] /\ C \in SUBSET Processes
        /\ shared \in BOOLEAN /\ IpLimit \in Nat /\ lost \in Nat
        /\ MadeFrom(made, j) \in [Users -> [Ages -> Nat]] /\ IsFiniteSet(Users)
        /\ MadeFrom(made', j) \in [Users -> [Ages -> Nat]]
    <3>1. MadeFrom(made', j) \in [Users -> Attempts]
      BY <1>2 DEF MadeFrom
    <3>2. QED
      BY <3>1, HeldTypes, LimitsAssumption DEF Attempts
  <2>5. \/ MadeFrom(made', j) = MadeFrom(made, j)
        \/ \E d \in Users : OneMore(MadeFrom(made', j), MadeFrom(made, j), d)
    BY <1>2
  <2> HIDE DEF C, T
  <2>6. Bounded(shared, MadeFrom(made', j), T, C', IpLimit, lost + 1)
    BY <2>1, <2>3, <2>4, <2>5, BoundedLost
  <2>7. QED
    BY <2>2, <2>6 DEF IpBounded, C, T
<1>6. QED
  BY <1>3, <1>4, <1>5

LEMMA LoseWriteKeeps ==
  ASSUME LoginInv, NEW p \in Processes, LoseWrite(p)
  PROVE  LoginInv'
BY LostShared DEF LoseWrite

LEMMA RestartKeeps ==
  ASSUME LoginInv, NEW p \in Processes, RestartProcess(p)
  PROVE  LoginInv'
<1> USE DEF LoginInv
<1>1. CASE shared
  BY <1>1, LostShared DEF RestartProcess
<1>2. CASE ~shared
  <2>1. /\ UNCHANGED shared /\ lost' = lost + 1 /\ Done(p) /\ Write(p, Fresh) /\ Holder(p) = p
        /\ IF login[p].at = "compare" THEN Made(p) ELSE UNCHANGED made
    BY <1>2 DEF RestartProcess, Holder
  <2>2. /\ DOMAIN login' = Processes /\ login'[p].at # "compare"
        /\ \A q \in Processes : q # p => login'[q] = login[q]
        /\ \A q \in Processes : Asked(login[q])'
    BY <2>1, DoneKept
  <2>3. /\ made' \in [Users -> [Addresses -> Attempts]]
        /\ \A v \in Users :
             made'[v] = made[v]
               \/ (p \in AtAcct(v) /\ \E d \in Addresses : OneMore(made'[v], made[v], d))
        /\ \A j \in Addresses :
             MadeFrom(made', j) = MadeFrom(made, j)
               \/ (p \in AtIp(j)
                   /\ \E d \in Users : OneMore(MadeFrom(made', j), MadeFrom(made, j), d))
    BY <2>1, Unheard
  <2>4. /\ Shaped(Fresh) /\ \A v \in Users : Fresh.acct[v] = NoTries
        /\ \A j \in Addresses : Fresh.ip[j] = NoTries
    BY NoTriesType DEF Shaped, Fresh
  <2>5. /\ DOMAIN limiter' = Holders /\ \A g \in Holders : Shaped(limiter'[g])
        /\ \A g \in Holders : g # p => limiter'[g] = limiter[g]
        /\ limiter'[p] = Fresh
    BY <2>1, <2>4, WriteKept
  <2>6. LoginTypes'
    BY <2>1, <2>2, <2>3, <2>5 DEF LoginTypes
  <2>7. Live(shared) = Processes /\ Processes \subseteq Holders
    BY <1>2 DEF Live, Holders
  <2>8. ASSUME NEW v \in Users PROVE AcctBounded(v)'
    <3> DEFINE C == AtAcct(v)  T == AcctHeld(v)
    <3>1. C' = C \ {p}
      BY <2>2 DEF AtAcct, Comparing
    <3>2. Bounded(shared, made[v], T, C, AccountLimit, lost)
      BY DEF AcctBounded
    <3>3. /\ T \in [Live(shared) -> [Ages -> Nat]] /\ C \in SUBSET Processes
          /\ shared \in BOOLEAN /\ AccountLimit \in Nat /\ lost \in Nat
          /\ made[v] \in [Addresses -> [Ages -> Nat]] /\ IsFiniteSet(Addresses)
          /\ made'[v] \in [Addresses -> [Ages -> Nat]]
      BY <2>3, HeldTypes, LimitsAssumption DEF Attempts
    <3>4. made'[v] = made[v] \/ (p \in C /\ \E d \in Addresses : OneMore(made'[v], made[v], d))
      BY <2>3
    <3>5. /\ T' = [g \in Live(shared) |-> limiter'[g].acct[v]]
          /\ \A g \in Processes : limiter'[g].acct \in [Users -> Attempts]
          /\ \A g \in Processes : T[g] = limiter[g].acct[v]
      BY <2>1, <2>5, <2>7 DEF AcctHeld, Shaped
    <3>6. T' \in [Live(shared) -> [Ages -> Nat]]
      BY <2>7, <3>5 DEF Attempts
    <3>7. T'[p] = NoTries /\ \A g \in Processes : g # p => T'[g] = T[g]
      BY <2>4, <2>5, <2>7, <3>5
    <3> HIDE DEF C, T
    <3>8. Bounded(shared, made'[v], T', C \ {p}, AccountLimit, lost + 1)
      BY <1>2, <3>2, <3>3, <3>4, <3>6, <3>7, BoundedRestart
    <3>9. QED
      BY <2>1, <3>1, <3>8 DEF AcctBounded, C, T
  <2>9. ASSUME NEW j \in Addresses PROVE IpBounded(j)'
    <3> DEFINE C == AtIp(j)  T == IpHeld(j)
    <3>1. C' = C \ {p}
      BY <2>2 DEF AtIp, Comparing
    <3>2. Bounded(shared, MadeFrom(made, j), T, C, IpLimit, lost)
      BY DEF IpBounded
    <3>3. /\ T \in [Live(shared) -> [Ages -> Nat]] /\ C \in SUBSET Processes
          /\ shared \in BOOLEAN /\ IpLimit \in Nat /\ lost \in Nat
          /\ MadeFrom(made, j) \in [Users -> [Ages -> Nat]] /\ IsFiniteSet(Users)
          /\ MadeFrom(made', j) \in [Users -> [Ages -> Nat]]
      <4>1. MadeFrom(made', j) \in [Users -> Attempts]
        BY <2>3 DEF MadeFrom
      <4>2. QED
        BY <4>1, HeldTypes, LimitsAssumption DEF Attempts
    <3>4. \/ MadeFrom(made', j) = MadeFrom(made, j)
          \/ (p \in C /\ \E d \in Users : OneMore(MadeFrom(made', j), MadeFrom(made, j), d))
      BY <2>3
    <3>5. /\ T' = [g \in Live(shared) |-> limiter'[g].ip[j]]
          /\ \A g \in Processes : limiter'[g].ip \in [Addresses -> Attempts]
          /\ \A g \in Processes : T[g] = limiter[g].ip[j]
      BY <2>1, <2>5, <2>7 DEF IpHeld, Shaped
    <3>6. T' \in [Live(shared) -> [Ages -> Nat]]
      BY <2>7, <3>5 DEF Attempts
    <3>7. T'[p] = NoTries /\ \A g \in Processes : g # p => T'[g] = T[g]
      BY <2>4, <2>5, <2>7, <3>5
    <3> HIDE DEF C, T
    <3>8. Bounded(shared, MadeFrom(made', j), T', C \ {p}, IpLimit, lost + 1)
      BY <1>2, <3>2, <3>3, <3>4, <3>6, <3>7, BoundedRestart
    <3>9. QED
      BY <2>1, <3>1, <3>8 DEF IpBounded, C, T
  <2>10. QED
    BY <2>6, <2>8, <2>9
<1>3. QED
  BY <1>1, <1>2

LEMMA OlderTries ==
  ASSUME NEW t \in Attempts
  PROVE  /\ [Older(t) EXCEPT ![Window] = 0] \in Attempts
         /\ [Older(t) EXCEPT ![Window] = 0][Window] = 0
         /\ [Older(t) EXCEPT ![Window] = 0][0] = 0
         /\ \A a \in 1..(Window - 1) : [Older(t) EXCEPT ![Window] = 0][a] = t[a - 1]
         /\ Aging(t) \in Attempts /\ Tally(Aging(t)) <= Tally(t)
         /\ Aging(t)[0] = 0
         /\ \A a \in 1..(Window - 1) : Aging(t)[a] = t[a - 1]
<1>1. \A a \in Ages : a = 0 \/ a - 1 \in Ages
  BY LimitsAssumption DEF Ages
<1>2. \A a \in 1..(Window - 1) : a \in Ages /\ a # 0 /\ a # Window
  BY LimitsAssumption DEF Ages
<1>3. /\ Older(t) \in Attempts /\ Older(t)[0] = 0
      /\ \A a \in 1..(Window - 1) : Older(t)[a] = t[a - 1]
  BY <1>1, <1>2, AgesFinite DEF Older, Attempts
<1> DEFINE o == [Older(t) EXCEPT ![Window] = 0]
<1>4. /\ o \in Attempts /\ o[Window] = 0 /\ o[0] = 0
      /\ \A a \in 1..(Window - 1) : o[a] = t[a - 1]
  BY <1>2, <1>3, AgesFinite DEF Attempts
<1>5. Aging(t) = o \/ Aging(t) = Older(t)
  BY DEF Aging
<1>6. Aging(t)[0] = 0 /\ \A a \in 1..(Window - 1) : Aging(t)[a] = t[a - 1]
  BY <1>3, <1>4, <1>5
<1> HIDE DEF o
<1>7. Aging(t) \in Attempts /\ Tally(Aging(t)) <= Tally(t)
  BY AgingFewer DEF Attempts
<1>8. QED
  BY <1>4, <1>6, <1>7 DEF o

LEMMA TickKeeps ==
  ASSUME LoginInv, Tick
  PROVE  LoginInv'
<1> USE DEF LoginInv
<1> DEFINE old(t) == [Older(t) EXCEPT ![Window] = 0]
<1>1. UNCHANGED <<shared, login, lost>> /\ limiter' = [h \in Holders |-> AfterTick(limiter[h])]
  BY DEF Tick
<1>2. made' = [u \in Users |-> [i \in Addresses |-> old(made[u][i])]]
  BY DEF Tick
<1>3. \A t \in Attempts :
        /\ old(t) \in Attempts /\ old(t)[Window] = 0 /\ old(t)[0] = 0
        /\ \A a \in 1..(Window - 1) : old(t)[a] = t[a - 1]
  BY OlderTries
<1>4. \A t \in Attempts :
        /\ Aging(t) \in Attempts /\ Tally(Aging(t)) <= Tally(t) /\ Aging(t)[0] = 0
        /\ \A a \in 1..(Window - 1) : Aging(t)[a] = t[a - 1]
  BY OlderTries
<1> HIDE DEF old
<1>5. \A h \in Holders :
        /\ Shaped(limiter'[h])
        /\ \A v \in Users : limiter'[h].acct[v] = Aging(limiter[h].acct[v])
        /\ \A j \in Addresses : limiter'[h].ip[j] = Aging(limiter[h].ip[j])
  BY <1>1, LaterLists DEF LoginTypes
<1>6. \A v \in Users : \A j \in Addresses : made[v][j] \in Attempts
  BY DEF LoginTypes
<1>7. made' \in [Users -> [Addresses -> Attempts]]
  BY <1>2, <1>3, <1>6
<1>8. LoginTypes'
  BY <1>1, <1>5, <1>7 DEF LoginTypes, Asked
<1>9. ASSUME NEW v \in Users PROVE AcctBounded(v)'
  <2> DEFINE C == AtAcct(v)  T == AcctHeld(v)
  <2>1. C' = C
    BY <1>1 DEF AtAcct, Comparing
  <2>2. Bounded(shared, made[v], T, C, AccountLimit, lost)
    BY DEF AcctBounded
  <2>3. /\ T \in [Live(shared) -> Attempts] /\ C \in SUBSET Processes
        /\ shared \in BOOLEAN /\ AccountLimit \in Nat /\ lost \in Nat
        /\ made[v] \in [Addresses -> Attempts] /\ IsFiniteSet(Addresses)
        /\ made'[v] \in [Addresses -> Attempts] /\ Live(shared) \subseteq Holders
    BY <1>7, HeldTypes, LimitsAssumption
  <2>4. \A g \in Live(shared) : T[g] = limiter[g].acct[v] /\ T'[g] = limiter'[g].acct[v]
    BY <1>1 DEF AcctHeld
  <2>5. \A g \in Live(shared) : T'[g] = Aging(T[g]) /\ T[g] \in Attempts
    BY <1>5, <2>3, <2>4
  <2>6. T' = [g \in Live(shared) |-> T'[g]]
    BY <1>1 DEF AcctHeld
  <2> HIDE DEF C, T
  <2>7. T' \in [Live(shared) -> Attempts]
    BY <1>4, <2>5, <2>6
  <2>8. Aged(T', T) /\ \A g \in Live(shared) : Tally(T'[g]) <= Tally(T[g])
    BY <1>4, <2>3, <2>5 DEF Aged
  <2>9. \A x \in Addresses : made'[v][x] = old(made[v][x])
    BY <1>2
  <2>10. Aged(made'[v], made[v]) /\ \A x \in Addresses : made'[v][x][Window] = 0
    BY <1>3, <1>6, <2>3, <2>9 DEF Aged
  <2>11. Bounded(shared, made'[v], T', C, AccountLimit, lost)
    BY <2>2, <2>3, <2>7, <2>8, <2>10, BoundedLater DEF Attempts
  <2>12. QED
    BY <1>1, <2>1, <2>11 DEF AcctBounded, C, T
<1>10. ASSUME NEW j \in Addresses PROVE IpBounded(j)'
  <2> DEFINE C == AtIp(j)  T == IpHeld(j)  M == MadeFrom(made, j)  N == MadeFrom(made', j)
  <2>1. C' = C
    BY <1>1 DEF AtIp, Comparing
  <2>2. Bounded(shared, M, T, C, IpLimit, lost)
    BY DEF IpBounded
  <2>3. /\ T \in [Live(shared) -> Attempts] /\ C \in SUBSET Processes
        /\ shared \in BOOLEAN /\ IpLimit \in Nat /\ lost \in Nat
        /\ M \in [Users -> Attempts] /\ IsFiniteSet(Users)
        /\ Live(shared) \subseteq Holders
    BY HeldTypes, LimitsAssumption
  <2>4. N \in [Users -> Attempts]
    BY <1>7 DEF MadeFrom
  <2>5. \A g \in Live(shared) : T[g] = limiter[g].ip[j] /\ T'[g] = limiter'[g].ip[j]
    BY <1>1 DEF IpHeld
  <2>6. \A g \in Live(shared) : T'[g] = Aging(T[g]) /\ T[g] \in Attempts
    BY <1>5, <2>3, <2>5
  <2>7. T' = [g \in Live(shared) |-> T'[g]]
    BY <1>1 DEF IpHeld
  <2>8. \A x \in Users : N[x] = old(M[x]) /\ M[x] \in Attempts
    BY <1>2, <1>6 DEF MadeFrom
  <2> HIDE DEF C, T, M, N
  <2>9. T' \in [Live(shared) -> Attempts]
    BY <1>4, <2>6, <2>7
  <2>10. Aged(T', T) /\ \A g \in Live(shared) : Tally(T'[g]) <= Tally(T[g])
    BY <1>4, <2>3, <2>6 DEF Aged
  <2>11. Aged(N, M) /\ \A x \in Users : N[x][Window] = 0
    BY <1>3, <2>3, <2>8 DEF Aged
  <2>12. Bounded(shared, N, T', C, IpLimit, lost)
    BY <2>2, <2>3, <2>4, <2>9, <2>10, <2>11, BoundedLater DEF Attempts
  <2>13. QED
    BY <1>1, <2>1, <2>12 DEF IpBounded, C, T, N
<1>11. QED
  BY <1>8, <1>9, <1>10

LEMMA LoginKeeps == LoginInv /\ [LoginNext]_loginVars => LoginInv'
<1> SUFFICES ASSUME LoginInv, [LoginNext]_loginVars PROVE LoginInv'
  OBVIOUS
<1>1. ASSUME NEW p \in Processes, NEW u \in Users, NEW i \in Addresses, Check(p, u, i)
      PROVE  LoginInv'
  BY <1>1, CheckKeeps
<1>2. ASSUME NEW p \in Processes, NEW ok \in BOOLEAN, Record(p, ok) PROVE LoginInv'
  BY <1>2, RecordKeeps
<1>3. ASSUME NEW p \in Processes, ReadFailures(p) PROVE LoginInv'
  BY <1>3, ReadFailuresKeeps
<1>4. ASSUME NEW p \in Processes, SetBackoff(p) PROVE LoginInv'
  BY <1>4, SetBackoffKeeps
<1>5. ASSUME NEW p \in Processes, LoseWrite(p) PROVE LoginInv'
  BY <1>5, LoseWriteKeeps
<1>6. ASSUME NEW p \in Processes, RestartProcess(p) PROVE LoginInv'
  BY <1>6, RestartKeeps
<1>7. CASE Tick
  BY <1>7, TickKeeps
<1>8. CASE UNCHANGED loginVars
  BY <1>8 DEF loginVars, LoginInv, LoginTypes, Asked, AcctBounded, IpBounded, AcctHeld, IpHeld,
     AtAcct, AtIp, Comparing
<1>9. QED
  BY <1>1, <1>2, <1>3, <1>4, <1>5, <1>6, <1>7, <1>8 DEF LoginNext

LEMMA LoginInvThrottles == LoginInv => Throttled
<1> SUFFICES ASSUME LoginInv PROVE Throttled
  OBVIOUS
<1> USE DEF LoginInv
<1>1. 0..Window = Ages
  BY DEF Ages
<1>2. ASSUME NEW u \in Users PROVE ByAccount(u) <= Amounts(AccountLimit)
  <2>1. /\ made[u] \in [Addresses -> [Ages -> Nat]] /\ IsFiniteSet(Addresses)
        /\ AcctHeld(u) \in [Live(shared) -> [Ages -> Nat]] /\ AtAcct(u) \in SUBSET Processes
        /\ AccountLimit \in Nat /\ shared \in BOOLEAN /\ lost \in Nat
    BY HeldTypes, LimitsAssumption DEF Attempts
  <2>2. Bounded(shared, made[u], AcctHeld(u), AtAcct(u), AccountLimit, lost)
    BY DEF AcctBounded
  <2>3. Upto(made[u], Window) <= Amounts(AccountLimit)
    BY <2>1, <2>2, BoundedAmounts DEF Amounts
  <2>4. Upto(made[u], Window) = ByAccount(u)
    BY <1>1, <2>1 DEF Upto, Flat, ByAccount
  <2>5. QED
    BY <2>3, <2>4
<1>3. ASSUME NEW i \in Addresses PROVE ByAddress(i) <= Amounts(IpLimit)
  <2> DEFINE M == MadeFrom(made, i)
  <2>1. /\ M \in [Users -> [Ages -> Nat]] /\ IsFiniteSet(Users)
        /\ IpHeld(i) \in [Live(shared) -> [Ages -> Nat]] /\ AtIp(i) \in SUBSET Processes
        /\ IpLimit \in Nat /\ shared \in BOOLEAN /\ lost \in Nat
    BY HeldTypes, LimitsAssumption DEF Attempts
  <2>2. Bounded(shared, M, IpHeld(i), AtIp(i), IpLimit, lost)
    BY DEF IpBounded
  <2>3. Flat(M, Window) = [x \in Users \X Ages |-> made[x[1]][i][x[2]]]
    BY <1>1 DEF Flat, MadeFrom
  <2> HIDE DEF M
  <2>4. Upto(M, Window) <= Amounts(IpLimit)
    BY <2>1, <2>2, BoundedAmounts DEF Amounts
  <2>5. Upto(M, Window) = ByAddress(i)
    BY <2>3 DEF Upto, ByAddress
  <2>6. QED
    BY <2>4, <2>5
<1>4. QED
  BY <1>2, <1>3 DEF Throttled

(* However logins on several processes overlap, take long, or lose their   *)
(* record, no more credentials are compared for an account or from an      *)
(* address in any window than the limits amount to.                        *)
THEOREM ThrottledHolds == LoginSpec => []Throttled
<1>1. LoginSpec => []LoginInv
  BY InitKeeps, LoginKeeps, PTL DEF LoginSpec
<1>2. QED
  BY <1>1, LoginInvThrottles, PTL
=============================================================================
