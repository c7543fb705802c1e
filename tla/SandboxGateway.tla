----------------------------- MODULE SandboxGateway -----------------------------
(***************************************************************************)
(* The self-hosted gateway (src/execution/sandbox_gateway.py), its faults  *)
(* (sandbox_faults.py) and the HTTP provider that calls it                 *)
(* (SandboxHttpFundsProvider in provider.py).  A call and the request it   *)
(* sends part ways: the caller gives up at its deadline, the handler goes  *)
(* on in its thread; the gateway dies with its requests and keeps its      *)
(* SQLite file.  A request is named by its number, and so is the           *)
(* transaction it makes (a uuid drawn per request).                        *)
(***************************************************************************)
EXTENDS Naturals, FiniteSets

CONSTANTS
  Callers,       \* threads of the API and workers that hold a provider
  Tenants, Keys,
  NoTxn,
  Setups,        \* how providers are built: the fault header, the api key
  MaxRequests,   \* bound: requests sent
  MaxCrashes     \* bound: restarts of the gateway

ASSUME BoundsAssumption == MaxRequests \in Nat /\ MaxCrashes \in Nat

VARIABLES
  setup,      \* rigid: each caller's provider
  call,       \* the request each caller waits for, 0 if none
  requests,   \* requests the gateway has not answered
  txns,       \* table gateway_txns
  reversals,  \* table gateway_reversals
  answers,    \* what callers were answered
  sent, crashes

vars == <<setup, call, requests, txns, reversals, answers, sent, crashes>>

(* _maybe_fault raises on the first two; a delay only lets the caller's    *)
(* deadline pass before the operation, which a step may always do here.    *)
SandboxFault == {"http_500", "http_503", "timeout", "delay_ms"}
Setup == [faults: SUBSET SandboxFault, authorized: BOOLEAN]
TxnStatus == {"succeeded", "failed"}
Ids == 1..MaxRequests
Accounts == Tenants \X Keys
Txn == [id: Ids, status: TxnStatus]

ASSUME SetupsAssumption == Setups \subseteq Setup
ASSUME NoTxnAssumption == NoTxn \notin Txn

(* What a request asks for.  A query names a transaction, a submission the *)
(* status it would like (default_status).                                  *)
Ask ==
  [op: {"submit"}, account: Accounts, want: TxnStatus]
  \cup [op: {"compensate"}, account: Accounts]
  \cup [op: {"query"}, tenant: Tenants, txn: Ids]

(* An answer, or the code of a ProviderError.                              *)
ErrorCode == {"timeout", "network", "upstream_5xx", "gateway_rejected"}
NoEffect == {"upstream_5xx", "gateway_rejected"}
Found == {[code |-> "ok", txn |-> t] : t \in Txn}
NotFound == [code |-> "not_found"]
Reversed == [code |-> "reversed"]
Outcome == Found \cup {NotFound, Reversed} \cup [code: ErrorCode]

Request ==
  [id: Ids, by: Callers, ask: Ask, stage: {"sent", "done"},
   reply: {NotFound} \cup Found \cup {Reversed}]

Init ==
  /\ setup \in [Callers -> Setups]
  /\ call = [c \in Callers |-> 0]
  /\ requests = {}
  /\ txns = [a \in Accounts |-> NoTxn]
  /\ reversals = {}
  /\ answers = {}
  /\ sent = 0 /\ crashes = 0

-----------------------------------------------------------------------------
(* The provider.                                                           *)

(* _post, _get: one request at a time per thread.                          *)
Send(c, ask) ==
  /\ call[c] = 0
  /\ sent < MaxRequests
  /\ sent' = sent + 1
  /\ call' = [call EXCEPT ![c] = sent + 1]
  /\ requests' = requests \cup
       {[id |-> sent + 1, by |-> c, ask |-> ask, stage |-> "sent", reply |-> NotFound]}
  /\ UNCHANGED <<setup, txns, reversals, answers, crashes>>

Submit(c) ==
  \E a \in Accounts, s \in TxnStatus :
    Send(c, [op |-> "submit", account |-> a, want |-> s])

(* The engine asks for transactions it was told of, under its own tenant;  *)
(* another tenant may hold the same id.                                    *)
Query(c) ==
  \E t \in Tenants, x \in {a.outcome.txn.id : a \in {b \in answers : b.outcome.code = "ok"}} :
    Send(c, [op |-> "query", tenant |-> t, txn |-> x])

Compensate(c) ==
  \E a \in Accounts : Send(c, [op |-> "compensate", account |-> a])

Answered(c, r, outcome) ==
  /\ answers' = answers \cup {[id |-> r.id, ask |-> r.ask, outcome |-> outcome]}
  /\ call' = [call EXCEPT ![c] = 0]

(* httpx.TimeoutException at the deadline; the request is not withdrawn.   *)
Timeout(c) ==
  /\ \E r \in requests : r.id = call[c] /\ Answered(c, r, [code |-> "timeout"])
  /\ UNCHANGED <<setup, requests, txns, reversals, sent, crashes>>

-----------------------------------------------------------------------------
(* The gateway.                                                            *)

Move(r, stage, reply) ==
  requests' = (requests \ {r}) \cup {[r EXCEPT !.stage = stage, !.reply = reply]}

Waits(r) == call[r.by] = r.id

(* The answer goes to a caller that still waits.                           *)
Reply(r, outcome) ==
  /\ requests' = requests \ {r}
  /\ IF Waits(r) THEN Answered(r.by, r, outcome) ELSE UNCHANGED <<answers, call>>

(* _authorize, then _maybe_fault, before anything is read or written.      *)
Ready(r) ==
  /\ r.stage = "sent"
  /\ setup[r.by].authorized
  /\ setup[r.by].faults \cap {"http_500", "http_503"} = {}

(* 401 on a wrong key, the injected 5xx, or ten seconds of a locked file.  *)
Refuse(r) ==
  /\ r.stage = "sent"
  /\ Reply(r, [code |-> IF setup[r.by].authorized THEN "upstream_5xx" ELSE "gateway_rejected"])
  /\ UNCHANGED <<setup, txns, reversals, sent, crashes>>

(* Mutant: the last submission wins.                                       *)
InsertTxn_Replace(a, id, want) ==
  txns' = [txns EXCEPT ![a] = [id |-> id, status |-> want]]

(* INSERT ... ON CONFLICT (tenant_id, idempotency_key) DO NOTHING.         *)
InsertTxn(a, id, want) ==
  txns' = [txns EXCEPT ![a] = IF @ = NoTxn THEN [id |-> id, status |-> want] ELSE @]

(* GatewayStore.submit: insert and read back in one transaction.           *)
DoSubmit(r) ==
  /\ r.ask.op = "submit" /\ Ready(r)
  /\ InsertTxn(r.ask.account, r.id, r.ask.want)
  /\ Move(r, "done", [code |-> "ok", txn |-> txns'[r.ask.account]])
  /\ UNCHANGED <<setup, call, reversals, answers, sent, crashes>>

(* Mutant: only successful transactions are found.                         *)
OfTenant_Succeeded(t, x) ==
  {a \in Accounts : a[1] = t /\ txns[a] # NoTxn /\ txns[a].id = x /\ txns[a].status = "succeeded"}

OfTenant(t, x) == {a \in Accounts : a[1] = t /\ txns[a] # NoTxn /\ txns[a].id = x}

DoQuery(r) ==
  LET hits == OfTenant(r.ask.tenant, r.ask.txn) IN
  /\ r.ask.op = "query" /\ Ready(r)
  /\ \/ \E a \in hits : Move(r, "done", [code |-> "ok", txn |-> txns[a]])
     \/ hits = {} /\ Move(r, "done", NotFound)
  /\ UNCHANGED <<setup, call, txns, reversals, answers, sent, crashes>>

DoCompensate(r) ==
  /\ r.ask.op = "compensate" /\ Ready(r)
  /\ reversals' = reversals \cup {r.ask.account}
  /\ Move(r, "done", Reversed)
  /\ UNCHANGED <<setup, call, txns, answers, sent, crashes>>

(* Mutant: the handler fails after it has committed.                       *)
Return_MayFail(r) ==
  /\ r.stage = "done"
  /\ \E o \in {r.reply, [code |-> "upstream_5xx"]} : Reply(r, o)
  /\ UNCHANGED <<setup, txns, reversals, sent, crashes>>

Return(r) ==
  /\ r.stage = "done"
  /\ Reply(r, r.reply)
  /\ UNCHANGED <<setup, txns, reversals, sent, crashes>>

-----------------------------------------------------------------------------
(* The connection of one request is lost, before the gateway has it or     *)
(* with its answer.                                                        *)
Lose(r) ==
  /\ r.stage \in {"sent", "done"}
  /\ Reply(r, [code |-> "network"])
  /\ UNCHANGED <<setup, txns, reversals, sent, crashes>>

(* The gateway dies and is started again on its file; every caller's       *)
(* connection is reset.                                                    *)
Crash ==
  /\ crashes < MaxCrashes
  /\ crashes' = crashes + 1
  /\ requests' = {}
  /\ answers' = answers \cup
       {[id |-> r.id, ask |-> r.ask, outcome |-> [code |-> "network"]] :
          r \in {q \in requests : Waits(q)}}
  /\ call' = [c \in Callers |-> 0]
  /\ UNCHANGED <<setup, txns, reversals, sent>>

Next ==
  \/ \E c \in Callers : Submit(c) \/ Query(c) \/ Compensate(c) \/ Timeout(c)
  \/ \E r \in requests :
       \/ Refuse(r) \/ DoSubmit(r) \/ DoQuery(r) \/ DoCompensate(r) \/ Return(r) \/ Lose(r)
  \/ Crash

Spec == Init /\ [][Next]_vars

-----------------------------------------------------------------------------
(* Every variable stays in its type, and a caller waits for a request of   *)
(* its own that the gateway still has.                                     *)
TypeOK ==
  /\ setup \in [Callers -> Setup]
  /\ call \in [Callers -> 0..sent]
  /\ requests \subseteq Request
  /\ txns \in [Accounts -> Txn \cup {NoTxn}]
  /\ reversals \subseteq Accounts
  /\ \A a \in answers : a.id \in 1..sent /\ a.ask \in Ask /\ a.outcome \in Outcome
  /\ sent \in 0..MaxRequests /\ crashes \in 0..MaxCrashes
  /\ \A c \in Callers : call[c] # 0 => \E r \in requests : r.id = call[c] /\ r.by = c

(* A caller that was answered with a 4xx or a 5xx knows that its request   *)
(* did nothing and will do nothing; one that timed out or lost its         *)
(* connection does not.                                                    *)
RefusedNoEffect ==
  \A a \in answers :
    a.outcome.code \in NoEffect => \A k \in Accounts : txns[k] # NoTxn => txns[k].id # a.id

(* Who is told that a transaction does not exist asked under another       *)
(* tenant than the one it belongs to.                                      *)
NotFoundIsForeign ==
  \A a \in answers :
    a.outcome = NotFound =>
      \A k \in Accounts : txns[k] # NoTxn /\ txns[k].id = a.ask.txn => k[1] # a.ask.tenant

(* Whatever a caller of submit or query is told is the one transaction of  *)
(* the tenant's key, made once and for good, across time-outs, retries,    *)
(* concurrent submissions and restarts (the docstring of FundsProvider).   *)
AccountOf(a) ==
  IF a.ask.op = "submit" THEN a.ask.account
  ELSE CHOOSE k \in Accounts : k[1] = a.ask.tenant /\ txns[k] = a.outcome.txn

Told ==
  {[account |-> AccountOf(a), txn |-> a.outcome.txn] :
     a \in {b \in answers : b.outcome.code = "ok"}}

Contract == INSTANCE FundsContract WITH
  Txns <- Ids, book <- txns, undone <- reversals, told <- Told

ImplementsContract == Contract!ContractSpec
=============================================================================
