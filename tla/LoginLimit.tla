------------------------------ MODULE LoginLimit -------------------------------
(***************************************************************************)
(* The limiter of the login route (src/auth/ratelimit.py), kept in each    *)
(* process (MemoryLoginRateLimiter) or shared by all of them in Redis      *)
(* (RedisLoginRateLimiter).  The route asks the limiter, compares the      *)
(* credential and tells the limiter how it ended, without an await: a      *)
(* process serves one login at a time, but other processes go on meanwhile *)
(* and time passes.  A refused login changes nothing and is no step.       *)
(*                                                                         *)
(* Attempts are kept by age in ticks: tries[a] is how many are a old.      *)
(***************************************************************************)
EXTENDS Integers, FiniteSets, FiniteSetsExt

CONSTANTS
  Users,         \* accounts somebody logs in to, <tenant>:<user>
  Addresses,     \* client IPs
  Processes,     \* API processes
  Window,        \* login_rate_limit_window_seconds, in ticks
  AccountLimit, IpLimit,
  MaxFailures,   \* login_backoff_max_failures
  BackoffBase, BackoffMax,  \* in ticks
  MaxLost        \* bound: writes Redis did not take

ASSUME LimitsAssumption ==
  /\ {Window, AccountLimit, IpLimit, MaxFailures, BackoffBase} \subseteq Nat \ {0}
  /\ BackoffMax \in Nat /\ BackoffMax >= BackoffBase /\ MaxLost \in Nat
  /\ IsFiniteSet(Users) /\ IsFiniteSet(Addresses) /\ IsFiniteSet(Processes)

VARIABLES
  shared,   \* rigid: login_rate_limit_store is redis
  limiter,  \* the counters of each process, or of Redis
  login,    \* the login each process is at
  made,     \* by account and address, the logins whose credential was compared (history)
  lost      \* writes lost so far

loginVars == <<shared, limiter, login, made, lost>>

Redis == "redis"
Holders == Processes \cup {Redis}
Holder(p) == IF shared THEN Redis ELSE p

Ages == 0..Window
NoTries == [a \in Ages |-> 0]

(* How many things a bag holds, f[x] of every x.                           *)
Tokens(f) == UNION {{x} \X (1..f[x]) : x \in DOMAIN f}
Tally(f) == Cardinality(Tokens(f))

Fresh == [acct |-> [u \in Users |-> NoTries], ip |-> [i \in Addresses |-> NoTries],
          fails |-> [u \in Users |-> 0], idle |-> [u \in Users |-> 0],
          backoff |-> [u \in Users |-> 0]]
Absent == [at |-> "none"]

LoginInit ==
  /\ shared \in BOOLEAN
  /\ limiter = [h \in Holders |-> Fresh]
  /\ login = [p \in Processes |-> Absent]
  /\ made = [u \in Users |-> [i \in Addresses |-> NoTries]]
  /\ lost = 0

-----------------------------------------------------------------------------
(* Mutant: the limit is what may be exceeded.                              *)
Allowed_OffByOne(l, u, i) ==
  l.backoff[u] = 0 /\ Tally(l.acct[u]) <= AccountLimit /\ Tally(l.ip[i]) <= IpLimit

(* check: no backoff left, and room for the account and for the address.   *)
Allowed(l, u, i) ==
  l.backoff[u] = 0 /\ Tally(l.acct[u]) < AccountLimit /\ Tally(l.ip[i]) < IpLimit

Check(p, u, i) ==
  /\ login[p] = Absent
  /\ Allowed(limiter[Holder(p)], u, i)
  /\ login' = [login EXCEPT ![p] = [at |-> "compare", user |-> u, ip |-> i]]
  /\ UNCHANGED <<shared, limiter, made, lost>>

(* One more attempt now.  A counter in Redis has one expiry, which every   *)
(* attempt renews: all it counts is as old as the last.                    *)
Add(tries) ==
  IF shared THEN [NoTries EXCEPT ![0] = Tally(tries) + 1] ELSE [tries EXCEPT ![0] = @ + 1]

(* Where doubling has long reached its cap, counting on makes no difference.*)
Capped(fails) == Min({fails, MaxFailures + BackoffMax})

Backoff(fails) ==
  IF fails < MaxFailures THEN 0
  ELSE Min({BackoffBase * 2 ^ (fails - MaxFailures), BackoffMax})

Counted(l, u, i) ==
  [l EXCEPT !.acct[u] = Add(@), !.ip[i] = Add(@)]

(* A success forgets the failures, and the backoff with them.              *)
Succeeded(l, u) ==
  [l EXCEPT !.fails[u] = 0, !.idle[u] = 0, !.backoff[u] = 0]

Failed(l, u) == [l EXCEPT !.fails[u] = Capped(@ + 1), !.idle[u] = 0]

BackedOff(l, u, fails) ==
  [l EXCEPT !.backoff[u] = IF fails < MaxFailures THEN @ ELSE Backoff(fails)]

Write(p, l) == limiter' = [limiter EXCEPT ![Holder(p)] = l]
Done(p) == login' = [login EXCEPT ![p] = Absent]
Made(p) == made' = [made EXCEPT ![login[p].user][login[p].ip][0] = @ + 1]

(* record: one lock in memory; in Redis the counters are one transaction   *)
(* and, after a failure, the backoff is two more calls.                    *)
Record(p, ok) ==
  LET u == login[p].user
      l == Counted(limiter[Holder(p)], u, login[p].ip)
  IN
  /\ login[p].at = "compare"
  /\ IF ok THEN Write(p, Succeeded(l, u)) /\ Done(p)
     ELSE IF shared
       THEN Write(p, Failed(l, u)) /\ login' = [login EXCEPT ![p].at = "fails"]
     ELSE Write(p, BackedOff(Failed(l, u), u, Failed(l, u).fails[u])) /\ Done(p)
  /\ Made(p)
  /\ UNCHANGED <<shared, lost>>

(* The count read back is the one all processes have come to by now.       *)
ReadFailures(p) ==
  /\ login[p].at = "fails"
  /\ login' = [login EXCEPT ![p] =
       [at |-> "backoff", user |-> @.user, ip |-> @.ip,
        fails |-> limiter[Redis].fails[@.user]]]
  /\ UNCHANGED <<shared, limiter, made, lost>>

SetBackoff(p) ==
  /\ login[p].at = "backoff"
  /\ Write(p, BackedOff(limiter[Redis], login[p].user, login[p].fails))
  /\ Done(p)
  /\ UNCHANGED <<shared, made, lost>>

(* Redis fails under a write: what it was to do is done or not, and the    *)
(* login goes its way.                                                     *)
LoseWrite(p) ==
  /\ shared /\ login[p] # Absent
  /\ lost < MaxLost /\ lost' = lost + 1
  /\ IF login[p].at = "compare" THEN Made(p) ELSE UNCHANGED made
  /\ Done(p)
  /\ UNCHANGED <<shared, limiter>>

(* A process is restarted: its login is lost, and what it kept itself.     *)
RestartProcess(p) ==
  /\ lost < MaxLost /\ lost' = lost + 1
  /\ IF login[p].at = "compare" THEN Made(p) ELSE UNCHANGED made
  /\ Done(p)
  /\ IF shared THEN UNCHANGED limiter ELSE Write(p, Fresh)
  /\ UNCHANGED shared

-----------------------------------------------------------------------------
Older(tries) == [a \in Ages |-> IF a = 0 THEN 0 ELSE tries[a - 1]]

(* In memory an attempt as old as the window still counts (_prune); in     *)
(* Redis it has expired.                                                   *)
Aging(tries) == IF shared THEN [Older(tries) EXCEPT ![Window] = 0] ELSE Older(tries)

(* In memory failures are never forgotten, in Redis after a window without.*)
AfterTick(l) ==
  LET forgotten == {u \in Users : shared /\ l.idle[u] + 1 >= Window} IN
  [acct |-> [u \in Users |-> Aging(l.acct[u])],
   ip |-> [i \in Addresses |-> Aging(l.ip[i])],
   fails |-> [u \in Users |-> IF u \in forgotten THEN 0 ELSE l.fails[u]],
   idle |-> [u \in Users |->
               IF ~shared \/ u \in forgotten \/ l.fails[u] = 0 THEN 0 ELSE l.idle[u] + 1],
   backoff |-> [u \in Users |-> IF l.backoff[u] = 0 THEN 0 ELSE l.backoff[u] - 1]]

(* A tick is longer than the calls of one record, each of which ends after *)
(* a second at most, and may pass while a credential is compared.          *)
Tick ==
  /\ \A p \in Processes : login[p].at \in {"none", "compare"}
  /\ limiter' = [h \in Holders |-> AfterTick(limiter[h])]
  /\ made' = [u \in Users |-> [i \in Addresses |-> [Older(made[u][i]) EXCEPT ![Window] = 0]]]
  /\ UNCHANGED <<shared, login, lost>>

LoginNext ==
  \/ \E p \in Processes :
       \/ \E u \in Users, i \in Addresses : Check(p, u, i)
       \/ \E ok \in BOOLEAN : Record(p, ok)
       \/ ReadFailures(p) \/ SetBackoff(p)
       \/ LoseWrite(p) \/ RestartProcess(p)
  \/ Tick

LoginSpec == LoginInit /\ [][LoginNext]_loginVars

-----------------------------------------------------------------------------
(* Made within a window.                                                   *)
ByAccount(u) == Tally([x \in Addresses \X Ages |-> made[u][x[1]][x[2]]])
ByAddress(i) == Tally([x \in Users \X Ages |-> made[x[1]][i][x[2]]])

(* What a limit amounts to: kept by each process, that many in each of its *)
(* lives; in Redis, one more for every other process that asked before the *)
(* last attempt was told, and for every write lost.                        *)
Amounts(limit) ==
  IF shared THEN limit + Cardinality(Processes) - 1 + lost
  ELSE limit * (Cardinality(Processes) + lost)

(* However logins on several processes overlap, take long, or lose their   *)
(* record, no more credentials are compared for an account or from an      *)
(* address in any window.                                                  *)
Throttled ==
  /\ \A u \in Users : ByAccount(u) <= Amounts(AccountLimit)
  /\ \A i \in Addresses : ByAddress(i) <= Amounts(IpLimit)
=============================================================================
