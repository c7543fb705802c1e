---------------------------- MODULE ExecutionStores ----------------------------
(***************************************************************************)
(* The executions of one operation in the three stores: MemoryStore        *)
(* (src/infrastructure/store.py), SqliteStore and PostgresStore.  Nodes of *)
(* the graph run in threads, callbacks in the event loop, and they share   *)
(* one store.  A step is what the store does without letting go of its     *)
(* lock, of its connection's lock, or of a row lock.                       *)
(*                                                                         *)
(* SQLite: _q commits after every statement it could execute.  A statement *)
(* that fails leaves the transaction open that Python opened for it: an    *)
(* insert that lost its race, or the first insert of seed_default          *)
(* (src/main.py) on a database that has been seeded before.                *)
(***************************************************************************)
EXTENDS ExecutionTypes, FiniteSets

CONSTANTS
  Callers,     \* threads that use the store
  Nonces, NoNonce,
  NoRow,
  Written,     \* statuses that _transition writes
  MaxCreates,  \* bound: create_execution_record calls
  MaxCalls     \* bound: callbacks and writes

ASSUME WrittenAssumption == Written \subseteq ExecutionStatus
ASSUME BoundsAssumption == MaxCreates \in Nat \ {0} /\ MaxCalls \in Nat

VARIABLES
  backend,     \* rigid: settings.storage_backend
  seeded,      \* rigid: demo_seed_gate lets seed_default run at start-up
  rows,        \* table executions
  operation,   \* operations.status
  audits,      \* table audit, the entries of apply_callback_atomic
  submitters,  \* who claim_execution_submit told TRUE
  pc,          \* what each caller is doing
  open,        \* SQLite: the connection is in a transaction
  untouched,   \* no statement since the process was started again
  creates, calls

vars == <<backend, seeded, rows, operation, audits, submitters, pc, open, untouched,
          creates, calls>>
tables == <<rows, operation, audits, submitters>>

Message == [nonce: Nonces, status: {"succeeded", "failed", "processing"}, amountOk: BOOLEAN]
Ids == 1..MaxCreates
Row == [status: ExecutionStatus, attempts: {0, 1}, nonce: Nonces \cup {NoNonce}]
ASSUME NoRowAssumption == NoRow \notin Row

Idle == [at |-> "idle"]
Fresh == [status |-> "pending_submit", attempts |-> 0, nonce |-> NoNonce]
Stored == {i \in Ids : rows[i] # NoRow}

Init ==
  /\ backend \in {"memory", "sqlite", "postgres"}
  /\ seeded \in BOOLEAN
  /\ rows = [i \in Ids |-> NoRow]
  /\ operation = "pending"
  /\ audits = 0
  /\ submitters = {}
  /\ pc = [c \in Callers |-> Idle]
  /\ open = FALSE /\ untouched = FALSE
  /\ creates = 0 /\ calls = 0

-----------------------------------------------------------------------------
On(b, c) == backend = b /\ pc[c] = Idle

Stay == UNCHANGED <<backend, seeded, pc>>

(* _q: a statement that succeeds is committed with whatever was open.      *)
Committed == open' = FALSE /\ untouched' = FALSE

connection == <<open, untouched>>

Call ==
  /\ calls < MaxCalls
  /\ calls' = calls + 1
  /\ UNCHANGED creates

Insert == rows' = [rows EXCEPT ![creates + 1] = Fresh]

CountCreate ==
  /\ creates < MaxCreates
  /\ creates' = creates + 1
  /\ UNCHANGED calls

(* create_execution_record.                                                *)

(* Mutant: the check and the insert do not share the lock.                 *)
MemoryCreate_Unlocked(c) ==
  /\ On("memory", c)
  /\ CountCreate
  /\ Insert
  /\ Stay /\ UNCHANGED <<operation, audits, submitters, connection>>

MemoryCreate(c) ==
  /\ On("memory", c)
  /\ CountCreate
  /\ IF Stored = {} THEN Insert ELSE UNCHANGED rows
  /\ Stay /\ UNCHANGED <<operation, audits, submitters, connection>>

(* INSERT ... ON CONFLICT DO NOTHING and SELECT, in one transaction.       *)
PgCreate(c) ==
  /\ On("postgres", c)
  /\ CountCreate
  /\ IF Stored = {} THEN Insert ELSE UNCHANGED rows
  /\ Stay /\ UNCHANGED <<operation, audits, submitters, connection>>

(* The SELECT that looks for a record.                                     *)
SqliteLook(c) ==
  /\ On("sqlite", c)
  /\ CountCreate
  /\ pc' = IF Stored = {} THEN [pc EXCEPT ![c] = [at |-> "insert", id |-> creates + 1]] ELSE pc
  /\ Committed
  /\ UNCHANGED <<backend, seeded, tables>>

(* The INSERT, against UNIQUE (tenant_id, operation_id).                   *)
SqliteInsert(c) ==
  /\ pc[c].at = "insert"
  /\ IF Stored = {}
     THEN /\ rows' = [rows EXCEPT ![pc[c].id] = Fresh]
          /\ pc' = [pc EXCEPT ![c] = Idle]
          /\ Committed
     ELSE /\ pc' = [pc EXCEPT ![c] = [at |-> "recover"]]
          /\ open' = TRUE
          /\ UNCHANGED <<rows, untouched>>
  /\ UNCHANGED <<backend, seeded, operation, audits, submitters, creates, calls>>

(* Mutant: the handler of IntegrityError answers without a query.          *)
SqliteRecover_NoQuery(c) ==
  /\ pc[c].at = "recover"
  /\ pc' = [pc EXCEPT ![c] = Idle]
  /\ UNCHANGED <<backend, seeded, tables, connection, creates, calls>>

(* except IntegrityError: SELECT the record of the other caller.           *)
SqliteRecover(c) ==
  /\ pc[c].at = "recover"
  /\ pc' = [pc EXCEPT ![c] = Idle]
  /\ Committed
  /\ UNCHANGED <<backend, seeded, tables, creates, calls>>

-----------------------------------------------------------------------------
(* claim_execution_submit.                                                 *)
Claimable(i) == rows[i].status = "pending_submit" /\ rows[i].attempts = 0

Grant(c, i) ==
  IF Claimable(i)
  THEN /\ rows' = [rows EXCEPT ![i].attempts = 1]
       /\ submitters' = submitters \cup {c}
  ELSE UNCHANGED <<rows, submitters>>

MemoryClaim(c, i) ==
  /\ On("memory", c)
  /\ Grant(c, i)
  /\ Stay /\ UNCHANGED <<operation, audits, connection, creates, calls>>

SqliteClaim(c, i) ==
  /\ On("sqlite", c)
  /\ Grant(c, i)
  /\ Committed
  /\ Stay /\ UNCHANGED <<operation, audits, creates, calls>>

(* Mutant: no FOR UPDATE and no attempts in the WHERE clause.              *)
PgClaim_ByStatus(c, i) ==
  /\ On("postgres", c)
  /\ rows[i].status = "pending_submit"
  /\ rows' = [rows EXCEPT ![i].attempts = 1]
  /\ submitters' = submitters \cup {c}
  /\ Stay /\ UNCHANGED <<operation, audits, connection, creates, calls>>

PgClaim(c, i) ==
  /\ On("postgres", c)
  /\ Grant(c, i)
  /\ Stay /\ UNCHANGED <<operation, audits, connection, creates, calls>>

(* update_execution_record, as _transition calls it: with the status the   *)
(* record is expected to have.                                             *)
Write(i, expected, s) ==
  rows' = IF rows[i].status = expected THEN [rows EXCEPT ![i].status = s] ELSE rows

MemoryUpdate(c, i, expected, s) ==
  /\ On("memory", c) /\ Call
  /\ Write(i, expected, s)
  /\ Stay /\ UNCHANGED <<operation, audits, submitters, connection>>

SqliteUpdate(c, i, expected, s) ==
  /\ On("sqlite", c) /\ Call
  /\ Write(i, expected, s)
  /\ Committed
  /\ Stay /\ UNCHANGED <<operation, audits, submitters>>

PgUpdate(c, i, expected, s) ==
  /\ On("postgres", c) /\ Call
  /\ Write(i, expected, s)
  /\ Stay /\ UNCHANGED <<operation, audits, submitters, connection>>

(* update_operation, by the engine and the nodes.                          *)
UpdateOperation(c) ==
  /\ pc[c] = Idle /\ Call
  /\ operation' \in {"executed", "human_handoff"}
  /\ Committed
  /\ Stay /\ UNCHANGED <<rows, audits, submitters>>

-----------------------------------------------------------------------------
(* claim_callback: nothing but the nonce.                                  *)
Book(i, m) == rows' = [rows EXCEPT ![i].nonce = m.nonce]

MemoryClaimCallback(c, i, m) ==
  /\ On("memory", c) /\ Call
  /\ Book(i, m)
  /\ Stay /\ UNCHANGED <<operation, audits, submitters, connection>>

SqliteClaimCallback(c, i, m) ==
  /\ On("sqlite", c) /\ Call
  /\ Book(i, m)
  /\ Committed
  /\ Stay /\ UNCHANGED <<operation, audits, submitters>>

(* A SELECT without FOR UPDATE, and an UPDATE that tests the nonce only if *)
(* there was none.                                                         *)
PgReadNonce(c, i, m) ==
  /\ On("postgres", c) /\ Call
  /\ pc' = IF rows[i].nonce = m.nonce THEN pc
           ELSE [pc EXCEPT ![c] = [at |-> "book", id |-> i, m |-> m, seen |-> rows[i].nonce]]
  /\ UNCHANGED <<backend, seeded, tables, connection>>

PgBookNonce(c) ==
  /\ pc[c].at = "book"
  /\ LET b == pc[c] IN
     IF b.seen = NoNonce /\ rows[b.id].nonce # NoNonce THEN UNCHANGED rows ELSE Book(b.id, b.m)
  /\ pc' = [pc EXCEPT ![c] = Idle]
  /\ UNCHANGED <<backend, seeded, operation, audits, submitters, connection, creates, calls>>

-----------------------------------------------------------------------------
(* apply_callback_atomic: plan_callback_atomic on the locked record, then  *)
(* the record, the operation and the audit entry.                          *)
Apply(i, m) ==
  LET current == rows[i].status
      booked == rows[i].nonce
      Move(next, op) ==
        /\ rows' = [rows EXCEPT ![i].status = next, ![i].nonce = m.nonce]
        /\ operation' = op
        /\ audits' = audits + 1 IN
  \/ IsAmountMismatch(current, booked, m) /\ Move("mismatched", "human_handoff")
  \/ IsApplied(current, booked, m) /\ Move(NormalizeCallback(current, m.status), "executed")
  \/ IsProcessing(current, booked, m) /\ Book(i, m) /\ UNCHANGED <<operation, audits>>

Answer(i, m) ==
  \/ Apply(i, m)
  \/ /\ \/ IsReplay(rows[i].nonce, m)
        \/ IsTerminalLocked(rows[i].status)
        \/ /\ IsAdmitted(rows[i].status, rows[i].nonce, m)
           /\ ~IsProcessing(rows[i].status, rows[i].nonce, m)
           /\ ~IsApplied(rows[i].status, rows[i].nonce, m)
     /\ UNCHANGED <<rows, operation, audits>>

MemoryCallback(c, i, m) ==
  /\ On("memory", c) /\ Call
  /\ Answer(i, m)
  /\ Stay /\ UNCHANGED <<submitters, connection>>

(* Mutant: the record is committed before the operation is updated.        *)
SqliteCallback_Piecemeal(c, i, m) ==
  /\ On("sqlite", c) /\ Call /\ ~open
  /\ rows' = [rows EXCEPT ![i].status = NormalizeCallback(@, m.status), ![i].nonce = m.nonce]
  /\ Stay /\ UNCHANGED <<submitters, connection, operation, audits>>

(* BEGIN ... COMMIT under the connection's lock; a failure rolls back.     *)
SqliteCallback(c, i, m) ==
  /\ On("sqlite", c) /\ Call /\ ~open
  /\ Answer(i, m)
  /\ Stay /\ UNCHANGED <<submitters, connection>>

(* BEGIN within a transaction raises OperationalError, outside the try.    *)
SqliteBeginFails(c) ==
  /\ On("sqlite", c) /\ Call /\ open
  /\ pc' = [pc EXCEPT ![c] = [at |-> "raised"]]
  /\ UNCHANGED <<backend, seeded, tables, connection>>

Raised(c) ==
  /\ pc[c].at = "raised"
  /\ pc' = [pc EXCEPT ![c] = Idle]
  /\ UNCHANGED <<backend, seeded, tables, connection, creates, calls>>

(* SELECT ... FOR UPDATE to COMMIT.                                        *)
PgCallback(c, i, m) ==
  /\ On("postgres", c) /\ Call
  /\ Answer(i, m)
  /\ Stay /\ UNCHANGED <<submitters, connection>>

(* The process dies and starts again; what was committed is still there.   *)
(* A MemoryStore dies with its process.  seed_default runs again: its      *)
(* INSERT of a tenant fails, which it takes for "seeded already".          *)
Crash ==
  /\ backend # "memory"
  /\ pc' = [c \in Callers |-> Idle]
  /\ open' = (backend = "sqlite" /\ seeded)
  /\ untouched' = TRUE
  /\ UNCHANGED <<backend, seeded, tables, creates, calls>>

Continue(c) == SqliteInsert(c) \/ SqliteRecover(c) \/ PgBookNonce(c) \/ Raised(c)

Next ==
  \/ \E c \in Callers :
       \/ MemoryCreate(c) \/ SqliteLook(c) \/ PgCreate(c)
       \/ Continue(c)
       \/ UpdateOperation(c)
       \/ SqliteBeginFails(c)
       \/ \E i \in Stored :
            \/ MemoryClaim(c, i) \/ SqliteClaim(c, i) \/ PgClaim(c, i)
            \/ \E e \in ExecutionStatus, s \in Written :
                 MemoryUpdate(c, i, e, s) \/ SqliteUpdate(c, i, e, s) \/ PgUpdate(c, i, e, s)
            \/ \E m \in Message :
                 \/ MemoryClaimCallback(c, i, m) \/ SqliteClaimCallback(c, i, m)
                 \/ PgReadNonce(c, i, m)
                 \/ MemoryCallback(c, i, m) \/ SqliteCallback(c, i, m) \/ PgCallback(c, i, m)
  \/ Crash

Spec == Init /\ [][Next]_vars

-----------------------------------------------------------------------------
(* Every variable stays in its type, and only SQLite leaves a transaction  *)
(* open.                                                                   *)
TypeOK ==
  /\ backend \in {"memory", "sqlite", "postgres"}
  /\ rows \in [Ids -> Row \cup {NoRow}]
  /\ operation \in OperationStatus
  /\ audits \in 0..MaxCalls
  /\ submitters \subseteq Callers
  /\ \A c \in Callers : pc[c].at \in {"idle", "insert", "recover", "book", "raised"}
  /\ seeded \in BOOLEAN /\ untouched \in BOOLEAN
  /\ open \in BOOLEAN /\ (open => backend = "sqlite")
  /\ creates \in 0..MaxCreates /\ calls \in 0..MaxCalls

(* On every backend, and across crashes, the store is one ledger: one      *)
(* record per operation, one submitter, a callback applied in one step     *)
(* together with the operation and its audit entry.                        *)
TheRow == IF Stored = {} THEN NoRow ELSE rows[CHOOSE i \in Stored : \A j \in Stored : i <= j]

Ledger == INSTANCE LedgerPromise WITH Messages <- Message, row <- TheRow

ImplementsLedger == Ledger!LedgerSpec

(* By the calls for executions SQLite refuses callbacks in two windows     *)
(* only: while the loser of an insert has not looked for the winner's      *)
(* record, and from a restart on a seeded database to the first statement  *)
(* of somebody else.                                                       *)
OpenInWindow == open => untouched \/ \E c \in Callers : pc[c].at = "recover"

=============================================================================
