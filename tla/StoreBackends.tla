----------------------------- MODULE StoreBackends -----------------------------
(***************************************************************************)
(* Operations, approvals and streams in MemoryStore                        *)
(* (src/infrastructure/store.py), SqliteStore and PostgresStore.  Every    *)
(* call is made on all three: most tests run on the first two, the product *)
(* on the third.  An operation is named by its idempotency key, approvals  *)
(* and streams by the order in which they were made.  The results of       *)
(* operations are left out: every caller of update_operation gives one.    *)
(*                                                                         *)
(* M, S and P before the name of a call stand for the three stores; the    *)
(* definition maps the store's tables to new tables and an answer.         *)
(***************************************************************************)
EXTENDS ExecutionTypes, Sequences, FiniteSets

CONSTANTS
  Tenants,
  Keys,          \* idempotency keys
  Requests,      \* client_request_id
  MaxApprovals,  \* bound: approvals of a store
  MaxStreams,    \* bound: streams of a store
  MaxEvents      \* bound: events of a stream

ASSUME TablesAssumption ==
  MaxApprovals \in Nat /\ MaxStreams \in Nat /\ MaxEvents \in Nat

VARIABLES
  area,     \* rigid: the tables a behaviour uses
  memory, sqlite, postgres,  \* the tables of each store
  answers,  \* what each store answered last
  caller,   \* the tenant that called last
  parted    \* calls so far that the stores do not treat alike

backendVars == <<area, memory, sqlite, postgres, answers, caller, parted>>

ApprovalStatus == {"pending", "approved", "rejected", "timeout"}
Feedback == {"plain", "asks for a human"}

Accounts == Tenants \X Keys
Approval == [of: Accounts, status: ApprovalStatus, stale: BOOLEAN]
Stream == [tenant: Tenants, request: Requests, lastSeq: 0..MaxEvents, events: SUBSET (1..MaxEvents)]

Empty == [operations |-> [a \in Accounts |-> "none"], approvals |-> <<>>, streams |-> <<>>]

BackendInit ==
  /\ area \in {"cases", "streams"}
  /\ memory = Empty /\ sqlite = Empty /\ postgres = Empty
  /\ answers = [memory |-> "none", sqlite |-> "none", postgres |-> "none"]
  /\ caller \in Tenants
  /\ parted = {}

(* An answer is a value, the code of a DomainError, or "raised" for an     *)
(* exception of the driver; some come with a list.                         *)
Result(db, answer) == [db |-> db, answer |-> [value |-> answer]]
Listing(db, list) == [db |-> db, answer |-> [value |-> "ok", list |-> list]]

Mine(rows, i, t) == i \in DOMAIN rows /\ rows[i].tenant = t
Yours(db, i, t) == i \in DOMAIN db.approvals /\ db.approvals[i].of[1] = t
Pending(db, i) == db.approvals[i].status = "pending"
Verdict(approved) == IF approved THEN "approved" ELSE "rejected"

(* _feedback_requests_handoff.                                             *)
Refused(feedback) == IF feedback = "plain" THEN "rejected" ELSE "human_handoff"

-----------------------------------------------------------------------------
(* create_operation: the first call with a key makes the operation.        *)
MCreateOperation(db, a) ==
  IF db.operations[a] # "none" THEN Result(db, db.operations[a])
  ELSE Result([db EXCEPT !.operations[a] = "pending"], "pending")

SCreateOperation(db, a) ==
  LET existing == db.operations[a] # "none"
      new == [db EXCEPT !.operations[a] = "pending"] IN
  IF existing THEN Result(db, db.operations[a]) ELSE Result(new, "pending")

(* INSERT ... ON CONFLICT DO NOTHING, then SELECT.                         *)
PCreateOperation(db, a) ==
  LET new == [db EXCEPT !.operations[a] = IF @ = "none" THEN "pending" ELSE @] IN
  Result(new, new.operations[a])

MUpdateOperation(db, a, s) ==
  IF db.operations[a] = "none" THEN Result(db, "404")
  ELSE Result([db EXCEPT !.operations[a] = s], s)

Updated(db, a, s) ==
  LET rowcount == Cardinality({x \in {a} : db.operations[x] # "none"}) IN
  IF rowcount = 0 THEN Result(db, "404")
  ELSE Result([db EXCEPT !.operations[a] = s], s)

SUpdateOperation(db, a, s) == Updated(db, a, s)

PUpdateOperation(db, a, s) == Updated(db, a, s)

(* create_approval.                                                        *)
New(a) == [of |-> a, status |-> "pending", stale |-> FALSE]

MCreateApproval(db, a) ==
  Result([db EXCEPT !.approvals = Append(@, New(a))], "pending")

SCreateApproval(db, a) ==
  Result([db EXCEPT !.approvals = Append(@, New(a))], "pending")

(* UNIQUE (tenant_id, operation_id), ON CONFLICT DO NOTHING, SELECT.       *)
PCreateApproval(db, a) ==
  LET old == {i \in DOMAIN db.approvals : db.approvals[i].of = a} IN
  IF old = {} THEN Result([db EXCEPT !.approvals = Append(@, New(a))], "pending")
  ELSE Result(db, db.approvals[CHOOSE i \in old : TRUE].status)

-----------------------------------------------------------------------------
(* claim_approval_decision answers with the status and with whether this   *)
(* call decided.                                                           *)
Decided(db, i, claimed) == [db |-> db, answer |-> [value |-> db.approvals[i].status, claimed |-> claimed]]

MClaim(db, t, i, approved, feedback) ==
  LET of == db.approvals[i].of
      linked == ~approved /\ db.operations[of] \notin {"executed", "human_handoff"}
      new == [db EXCEPT !.approvals[i].status = Verdict(approved),
                        !.operations[of] = IF linked THEN Refused(feedback) ELSE @] IN
  IF ~Yours(db, i, t) THEN Result(db, "404")
  ELSE IF Pending(db, i) THEN Decided(new, i, TRUE) ELSE Decided(db, i, FALSE)

(* Mutant: the link to the operation forgets that it was executed.         *)
SClaim_Unguarded(db, t, i, approved, feedback) ==
  LET of == db.approvals[i].of
      new == [db EXCEPT !.approvals[i].status = Verdict(approved),
                        !.operations[of] = IF approved THEN @ ELSE Refused(feedback)] IN
  IF ~Yours(db, i, t) THEN Result(db, "404")
  ELSE IF Pending(db, i) THEN Decided(new, i, TRUE) ELSE Decided(db, i, FALSE)

(* UPDATE ... WHERE status = 'pending'; then the operation, if a row was   *)
(* changed.                                                                *)
SClaim(db, t, i, approved, feedback) ==
  LET of == db.approvals[i].of
      claimed == Pending(db, i)
      decided == [db EXCEPT !.approvals[i].status = IF claimed THEN Verdict(approved) ELSE @]
      kept == approved \/ ~claimed \/ db.operations[of] \in {"executed", "human_handoff"} IN
  IF ~Yours(db, i, t) THEN Result(db, "404")
  ELSE Decided([decided EXCEPT !.operations[of] = IF kept THEN @ ELSE Refused(feedback)], i, claimed)

PClaim(db, t, i, approved, feedback) ==
  LET of == db.approvals[i].of
      decided == [db EXCEPT !.approvals[i].status = Verdict(approved)]
      kept == approved \/ db.operations[of] = "executed" IN
  IF ~Yours(db, i, t) THEN Result(db, "404")
  ELSE IF ~Pending(db, i) THEN Decided(db, i, FALSE)
  ELSE Decided([decided EXCEPT !.operations[of] = IF kept THEN @ ELSE Refused(feedback)], i, TRUE)

(* decide_approval answers with the status.                                *)
MDecide(db, t, i, approved, feedback) ==
  LET r == MClaim(db, t, i, approved, feedback) IN
  Result(r.db, IF r.answer.value = "404" THEN "404" ELSE r.db.approvals[i].status)

SDecide(db, t, i, approved, feedback) ==
  LET r == SClaim(db, t, i, approved, feedback) IN
  Result(r.db, IF r.answer.value = "404" THEN "404" ELSE r.db.approvals[i].status)

(* Only the approval.                                                      *)
PDecide(db, t, i, approved) ==
  LET new == [db EXCEPT !.approvals[i].status = IF @ = "pending" THEN Verdict(approved) ELSE @] IN
  IF ~Yours(db, i, t) THEN Result(db, "404") ELSE Result(new, new.approvals[i].status)

(* expire_stale_approvals answers with the approvals that timed out.       *)
Due(db, t) == {i \in DOMAIN db.approvals : Yours(db, i, t) /\ Pending(db, i) /\ db.approvals[i].stale}

Expired(db, due) ==
  [approvals |-> [i \in DOMAIN db.approvals |->
     [db.approvals[i] EXCEPT !.status = IF i \in due THEN "timeout" ELSE @]],
   operations |-> [a \in Accounts |->
     IF (\E i \in due : db.approvals[i].of = a) /\ db.operations[a] \notin {"none", "executed"}
     THEN "human_handoff" ELSE db.operations[a]],
   streams |-> db.streams]

MExpire(db, t) == Listing(Expired(db, Due(db, t)), Due(db, t))

SExpire(db, t) == Listing(Expired(db, Due(db, t)), Due(db, t))

(* Mutant: the operation stays with the flow.                              *)
PExpire_Unlinked(db, t) ==
  Listing([Expired(db, Due(db, t)) EXCEPT !.operations = db.operations], Due(db, t))

PExpire(db, t) == Listing(Expired(db, Due(db, t)), Due(db, t))

-----------------------------------------------------------------------------
(* Streams: one per client request, as long as callers look first.         *)
Find(db, t, r) == {i \in DOMAIN db.streams : db.streams[i].tenant = t /\ db.streams[i].request = r}

Opened(db, t, r) ==
  [db EXCEPT !.streams =
     Append(@, [tenant |-> t, request |-> r, lastSeq |-> 0, events |-> {}])]

MCreateStream(db, t, r) == Result(Opened(db, t, r), "ok")

SCreateStream(db, t, r) == Result(Opened(db, t, r), "ok")

(* UNIQUE (tenant_id, user_id, client_request_id).                         *)
PCreateStream(db, t, r) ==
  IF Find(db, t, r) # {} THEN Result(db, "raised") ELSE Result(Opened(db, t, r), "ok")

(* append_event answers with the number of the event.                      *)
MAppendEvent(db, t, i) ==
  LET new == [db EXCEPT !.streams[i].lastSeq = @ + 1] IN
  IF ~Mine(db.streams, i, t) THEN Result(db, "404")
  ELSE Result([new EXCEPT !.streams[i].events = @ \cup {new.streams[i].lastSeq}],
              new.streams[i].lastSeq)

(* Mutant: the stream is found by its id alone.                            *)
SAppendEvent_AnyTenant(db, t, i) ==
  LET seq == db.streams[i].lastSeq + 1 IN
  IF i \notin DOMAIN db.streams THEN Result(db, "404")
  ELSE Result([db EXCEPT !.streams[i].lastSeq = seq, !.streams[i].events = @ \cup {seq}], seq)

SAppendEvent(db, t, i) ==
  LET seq == db.streams[i].lastSeq + 1 IN
  IF ~Mine(db.streams, i, t) THEN Result(db, "404")
  ELSE Result([db EXCEPT !.streams[i].lastSeq = seq, !.streams[i].events = @ \cup {seq}], seq)

PAppendEvent(db, t, i) ==
  LET new == [db EXCEPT !.streams[i].lastSeq = IF db.streams[i].tenant = t THEN @ + 1 ELSE @] IN
  IF ~Mine(db.streams, i, t) THEN Result(db, "404")
  ELSE Result([new EXCEPT !.streams[i].events = @ \cup {new.streams[i].lastSeq}],
              new.streams[i].lastSeq)

(* events_after answers with the numbers of the events.                    *)
MEventsAfter(db, t, i, n) ==
  IF Mine(db.streams, i, t) THEN Listing(db, {e \in db.streams[i].events : e > n})
  ELSE Result(db, "404")

SEventsAfter(db, t, i, n) ==
  IF Mine(db.streams, i, t) THEN Listing(db, {e \in db.streams[i].events : e > n})
  ELSE Result(db, "404")

PEventsAfter(db, t, i, n) ==
  IF Mine(db.streams, i, t) THEN Listing(db, {e \in db.streams[i].events : e > n})
  ELSE Result(db, "404")

-----------------------------------------------------------------------------
(* The same call on the three stores; why names the difference it makes,   *)
(* if it makes one.                                                        *)
OnAll(m, s, p, why) ==
  /\ memory' = m.db /\ sqlite' = s.db /\ postgres' = p.db
  /\ answers' = [memory |-> m.answer, sqlite |-> s.answer, postgres |-> p.answer]
  /\ parted' = parted \cup why
  /\ UNCHANGED area

When(why, condition) == IF condition THEN {why} ELSE {}

(* The link of a refusal to its operation matters.                         *)
Links(db, t, i, approved) == Yours(db, i, t) /\ Pending(db, i) /\ ~approved

Approvals == 1..(MaxApprovals + 1)
Streams == 1..(MaxStreams + 1)

CreateOperation(t, k) ==
  /\ area = "cases"
  /\ OnAll(MCreateOperation(memory, <<t, k>>), SCreateOperation(sqlite, <<t, k>>),
           PCreateOperation(postgres, <<t, k>>), {})

SetOperation(t, k, s) ==
  /\ area = "cases"
  /\ OnAll(MUpdateOperation(memory, <<t, k>>, s), SUpdateOperation(sqlite, <<t, k>>, s),
           PUpdateOperation(postgres, <<t, k>>, s), {})

(* write_action asks for an approval after create_operation, and asks      *)
(* again when a request is run again.                                      *)
CreateApproval(t, k) ==
  /\ area = "cases"
  /\ memory.operations[t, k] # "none"
  /\ Len(memory.approvals) < MaxApprovals
  /\ OnAll(MCreateApproval(memory, <<t, k>>), SCreateApproval(sqlite, <<t, k>>),
           PCreateApproval(postgres, <<t, k>>),
           When("second approval", \E i \in DOMAIN memory.approvals : memory.approvals[i].of = <<t, k>>))

ClaimDecision(t, i, approved, feedback) ==
  /\ area = "cases"
  /\ OnAll(MClaim(memory, t, i, approved, feedback), SClaim(sqlite, t, i, approved, feedback),
           PClaim(postgres, t, i, approved, feedback),
           When("refused after handover",
                /\ Links(memory, t, i, approved)
                /\ memory.operations[memory.approvals[i].of] = "human_handoff"
                /\ feedback = "plain"))

Decide(t, i, approved, feedback) ==
  /\ area = "cases"
  /\ OnAll(MDecide(memory, t, i, approved, feedback), SDecide(sqlite, t, i, approved, feedback),
           PDecide(postgres, t, i, approved),
           When("refused without claim",
                /\ Links(memory, t, i, approved)
                /\ memory.operations[memory.approvals[i].of]
                     \notin {"executed", "human_handoff", Refused(feedback)}))

Expire(t) ==
  /\ area = "cases"
  /\ OnAll(MExpire(memory, t), SExpire(sqlite, t), PExpire(postgres, t), {})

(* The time-out of every pending approval passes.                          *)
Aged(db) == [db EXCEPT !.approvals = [i \in DOMAIN @ |-> [db.approvals[i] EXCEPT !.stale = TRUE]]]

TimePasses ==
  /\ area = "cases"
  /\ memory' = Aged(memory) /\ sqlite' = Aged(sqlite) /\ postgres' = Aged(postgres)
  /\ UNCHANGED <<area, answers, caller, parted>>

(* find_stream_by_client comes first, but somebody else's stream for the   *)
(* request may have come in between.                                       *)
CreateStream(t, r) ==
  /\ area = "streams"
  /\ Len(memory.streams) < MaxStreams
  /\ OnAll(MCreateStream(memory, t, r), SCreateStream(sqlite, t, r), PCreateStream(postgres, t, r),
           When("second stream", Find(memory, t, r) # {}))

AppendEvent(t, i) ==
  /\ area = "streams"
  /\ i \in DOMAIN memory.streams => memory.streams[i].lastSeq < MaxEvents
  /\ i \in DOMAIN postgres.streams => postgres.streams[i].lastSeq < MaxEvents
  /\ OnAll(MAppendEvent(memory, t, i), SAppendEvent(sqlite, t, i), PAppendEvent(postgres, t, i), {})

EventsAfter(t, i, n) ==
  /\ area = "streams"
  /\ OnAll(MEventsAfter(memory, t, i, n), SEventsAfter(sqlite, t, i, n),
           PEventsAfter(postgres, t, i, n), {})

By(t) ==
  \/ \E k \in Keys :
       \/ CreateOperation(t, k) \/ CreateApproval(t, k)
       \/ \E s \in OperationStatus : SetOperation(t, k, s)
  \/ \E i \in Approvals, approved \in BOOLEAN, feedback \in Feedback :
       ClaimDecision(t, i, approved, feedback) \/ Decide(t, i, approved, feedback)
  \/ Expire(t)
  \/ \E r \in Requests : CreateStream(t, r)
  \/ \E i \in Streams : AppendEvent(t, i) \/ \E n \in 0..MaxEvents : EventsAfter(t, i, n)

BackendNext == (\E t \in Tenants : caller' = t /\ By(t)) \/ TimePasses

BackendSpec == BackendInit /\ [][BackendNext]_backendVars

-----------------------------------------------------------------------------
Tables ==
  [operations: [Accounts -> OperationStatus \cup {"none"}],
   approvals: Seq(Approval), streams: Seq(Stream)]

(* Every store's tables stay in their type, and the events of a stream are *)
(* numbered without a gap.                                                 *)
BackendTypeOK ==
  /\ area \in {"cases", "streams"}
  /\ \A db \in {memory, sqlite, postgres} :
       /\ db \in Tables
       /\ \A i \in DOMAIN db.streams : db.streams[i].events = 1..db.streams[i].lastSeq
  /\ parted \subseteq {"second approval", "refused after handover", "refused without claim",
                       "second stream"}

(* Whatever the sequence of calls, SQLite holds what memory holds and says *)
(* what memory says.                                                       *)
SqliteLikeMemory == sqlite = memory /\ answers.sqlite = answers.memory

(* PostgreSQL, which the tests of the flow do not run on, differs from     *)
(* them in four calls and in nothing that comes of any other.              *)
PostgresAlike == parted = {} => postgres = memory /\ answers.postgres = answers.memory

(* The three stores are one store to the flow, but for those four calls.   *)
StoresAgree == SqliteLikeMemory /\ PostgresAlike

(* A call under one tenant leaves every other tenant's rows as they are,   *)
(* in every store.                                                         *)
Rows(db, t) ==
  <<[k \in Keys |-> db.operations[t, k]],
    [i \in {j \in DOMAIN db.approvals : Yours(db, j, t)} |-> db.approvals[i].status],
    [i \in {j \in DOMAIN db.streams : Mine(db.streams, j, t)} |-> db.streams[i]]>>

TenantsApart ==
  [][\A t \in Tenants \ {caller'} :
       /\ Rows(memory', t) = Rows(memory, t)
       /\ Rows(sqlite', t) = Rows(sqlite, t)
       /\ Rows(postgres', t) = Rows(postgres, t)]_<<memory, sqlite, postgres, caller>>
=============================================================================
