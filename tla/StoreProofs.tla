------------------------------ MODULE StoreProofs ------------------------------
(***************************************************************************)
(* Proofs that each of the three stores is the ledger ExecutionEngine      *)
(* takes for granted, for any number of threads, records asked for and     *)
(* calls, any crashes, and any statuses the engine writes; and that the    *)
(* three answer every call on StoreBackends' tables alike and keep tenants *)
(* apart, for any ids, tenants, sequences of calls and moments.            *)
(***************************************************************************)
EXTENDS ExecutionStores, StoreBackends, SequenceTheorems, FiniteSetTheorems, TLAPS

(* What a caller may be in the middle of.                                  *)
Inserting == [at: {"insert"}, id: Ids]
Booking == [at: {"book"}, id: Ids, m: Message, seen: Nonces \cup {NoNonce}]
Recovering == [at |-> "recover"]
Failing == [at |-> "raised"]

PcInv ==
  /\ pc \in [Callers -> {Idle, Recovering, Failing} \cup Inserting \cup Booking]
  /\ \A c \in Callers :
       /\ pc[c].at \in {"insert", "recover", "raised"} => backend = "sqlite"
       /\ pc[c].at = "book" => pc[c].id \in Stored

(* However many inserts raced, there is one record at most.                *)
OneRecord == \A i, j \in Stored : i = j

IInv ==
  /\ TypeOK /\ PcInv /\ OneRecord
  /\ audits <= calls
  /\ OpenInWindow

-----------------------------------------------------------------------------
(* The record.                                                             *)

LEMMA StoredRow ==
  ASSUME IInv, NEW i \in Stored
  PROVE  /\ i \in Ids /\ rows[i] \in Row
         /\ Stored = {i} /\ TheRow = rows[i] /\ TheRow # NoRow
<1>1. i \in Ids /\ rows[i] \in Row /\ rows[i] # NoRow
  BY DEF IInv, TypeOK, Stored
<1>2. Stored = {i}
  BY DEF IInv, OneRecord
<1>3. (CHOOSE k \in Stored : \A j \in Stored : k <= j) = i
  BY <1>1, <1>2 DEF Ids
<1>4. QED
  BY <1>1, <1>2, <1>3 DEF TheRow

LEMMA FreshIsRow == Fresh \in Row /\ Fresh # NoRow
BY NoRowAssumption DEF Fresh, Row, ExecutionStatus

(* A store that has no record gets one.                                    *)
LEMMA Inserted ==
  ASSUME IInv, NEW k \in Ids, Stored = {}, rows' = [rows EXCEPT ![k] = Fresh]
  PROVE  /\ rows' \in [Ids -> Row \cup {NoRow}]
         /\ Stored' = {k} /\ OneRecord'
         /\ TheRow = NoRow /\ TheRow' = Fresh
<1>1. rows \in [Ids -> Row \cup {NoRow}]
  BY DEF IInv, TypeOK
<1>2. \A i \in Ids : rows[i] = NoRow
  BY DEF Stored
<1>3. \A i \in Ids : rows'[i] = IF i = k THEN Fresh ELSE NoRow
  BY <1>1, <1>2
<1>4. Stored' = {k}
  BY <1>3, FreshIsRow DEF Stored
<1>5. (CHOOSE i \in Stored' : \A j \in Stored' : i <= j) = k
  BY <1>4 DEF Ids
<1>6. TheRow' = Fresh
  BY <1>3, <1>4, <1>5 DEF TheRow
<1>7. QED
  BY <1>1, <1>4, <1>6, FreshIsRow DEF TheRow, OneRecord

(* The record changes and stays the only one.                              *)
LEMMA Changed ==
  ASSUME IInv, NEW i \in Stored, NEW new \in Row, rows' = [rows EXCEPT ![i] = new]
  PROVE  /\ rows' \in [Ids -> Row \cup {NoRow}]
         /\ Stored' = Stored /\ OneRecord'
         /\ TheRow' = new
<1>1. rows \in [Ids -> Row \cup {NoRow}] /\ i \in Ids
  BY StoredRow DEF IInv, TypeOK
<1>2. \A j \in Ids : rows'[j] = IF j = i THEN new ELSE rows[j]
  BY <1>1
<1>3. Stored' = Stored
  BY <1>2, NoRowAssumption DEF Stored
<1>4. Stored' = {i}
  BY <1>3, StoredRow
<1>5. (CHOOSE k \in Stored' : \A j \in Stored' : k <= j) = i
  BY <1>1, <1>4 DEF Ids
<1>6. TheRow' = new
  BY <1>1, <1>2, <1>4, <1>5 DEF TheRow
<1>7. QED
  BY <1>1, <1>3, <1>4, <1>6 DEF OneRecord

LEMMA RowFields ==
  ASSUME NEW r \in Row, NEW s \in ExecutionStatus, NEW n \in Nonces
  PROVE  /\ r.status \in ExecutionStatus
         /\ [r EXCEPT !.status = s] \in Row
         /\ [r EXCEPT !.attempts = 1] \in Row
         /\ [r EXCEPT !.nonce = n] \in Row
         /\ [r EXCEPT !.status = s, !.nonce = n] \in Row
BY DEF Row

LEMMA NormalizeType ==
  ASSUME NEW s \in ExecutionStatus, NEW ext
  PROVE  NormalizeCallback(s, ext) \in ExecutionStatus
BY DEF NormalizeCallback, ExecutionStatus

(* The plan of a callback is the same in the promise.                      *)
LEMMA SamePlan ==
  ASSUME NEW s, NEW n, NEW m
  PROVE  /\ Ledger!IsAmountMismatch(s, n, m) = IsAmountMismatch(s, n, m)
         /\ Ledger!IsApplied(s, n, m) = IsApplied(s, n, m)
         /\ Ledger!NormalizeCallback(s, m.status) = NormalizeCallback(s, m.status)
         /\ Ledger!ExecutionStatus = ExecutionStatus
         /\ Ledger!OperationStatus = OperationStatus
BY DEF Ledger!IsAmountMismatch, IsAmountMismatch, Ledger!IsApplied, IsApplied,
       Ledger!IsReplay, IsReplay, Ledger!IsTerminalLocked, IsTerminalLocked,
       Ledger!Terminal, Terminal, Ledger!IsAdmitted, IsAdmitted, Ledger!CanTransition,
       CanTransition, Ledger!Transitions, Transitions, Ledger!NormalizeCallback,
       NormalizeCallback, Ledger!ExecutionStatus, ExecutionStatus,
       Ledger!IntermediateAbnormal, IntermediateAbnormal, Ledger!OperationStatus,
       OperationStatus

-----------------------------------------------------------------------------
(* What a call does to the tables, and that the promise allows it.         *)

Promised == Ledger!PromiseNext \/ UNCHANGED Ledger!promiseVars

(* The tables after a step: typed, with the record there was, and one      *)
(* entry of the audit more at most.                                        *)
Kept ==
  /\ rows' \in [Ids -> Row \cup {NoRow}]
  /\ Stored \subseteq Stored' /\ OneRecord'
  /\ operation' \in OperationStatus
  /\ audits' \in Nat /\ audits' <= audits + 1
  /\ submitters' \subseteq Callers
  /\ Promised

LEMMA Untouched ==
  ASSUME IInv, UNCHANGED tables
  PROVE  Kept /\ audits' = audits
<1>1. Stored' = Stored /\ TheRow' = TheRow
  BY DEF tables, Stored, TheRow
<1>2. UNCHANGED Ledger!promiseVars
  BY <1>1 DEF tables, Ledger!promiseVars
<1>3. QED
  BY <1>1, <1>2 DEF Kept, Promised, tables, IInv, TypeOK, OneRecord

LEMMA CreateKeeps ==
  ASSUME IInv, creates < MaxCreates, UNCHANGED <<operation, audits, submitters>>,
         IF Stored = {} THEN Insert ELSE UNCHANGED rows
  PROVE  Kept /\ audits' = audits
<1>1. CASE Stored # {}
  BY <1>1, Untouched DEF tables
<1>2. CASE Stored = {}
  <2>1. creates + 1 \in Ids
    BY BoundsAssumption DEF IInv, TypeOK, Ids
  <2>2. /\ rows' \in [Ids -> Row \cup {NoRow}] /\ OneRecord'
        /\ TheRow = NoRow /\ TheRow' = Fresh
    BY <1>2, <2>1, Inserted DEF Insert
  <2>3. Ledger!Create
    BY <2>2 DEF Ledger!Create, Ledger!Fresh, Fresh
  <2>4. QED
    BY <1>2, <2>2, <2>3 DEF Kept, Promised, Ledger!PromiseNext, IInv, TypeOK
<1>3. QED
  BY <1>1, <1>2

LEMMA GrantKeeps ==
  ASSUME IInv, NEW c \in Callers, NEW i \in Stored, Grant(c, i),
         UNCHANGED <<operation, audits>>
  PROVE  Kept /\ Stored' = Stored /\ audits' = audits
<1>1. CASE ~Claimable(i)
  BY <1>1, Untouched DEF Grant, tables, Stored
<1>2. CASE Claimable(i)
  <2>1. /\ rows[i] \in Row /\ TheRow = rows[i] /\ TheRow # NoRow
        /\ [rows[i] EXCEPT !.attempts = 1] \in Row
    BY StoredRow DEF Row
  <2>2. rows' = [rows EXCEPT ![i] = [rows[i] EXCEPT !.attempts = 1]]
    BY <1>2 DEF Grant
  <2>3. /\ rows' \in [Ids -> Row \cup {NoRow}] /\ Stored' = Stored /\ OneRecord'
        /\ TheRow' = [rows[i] EXCEPT !.attempts = 1]
    BY <2>1, <2>2, Changed
  <2>4. Ledger!Claim(c)
    BY <1>2, <2>1, <2>3 DEF Ledger!Claim, Grant, Claimable
  <2>5. submitters' \subseteq Callers
    BY <1>2 DEF Grant, IInv, TypeOK
  <2>6. QED
    BY <2>3, <2>4, <2>5 DEF Kept, Promised, Ledger!PromiseNext, IInv, TypeOK
<1>3. QED
  BY <1>1, <1>2

LEMMA WriteKeeps ==
  ASSUME IInv, NEW i \in Stored, NEW e, NEW s \in Written, Write(i, e, s),
         UNCHANGED <<operation, audits, submitters>>
  PROVE  Kept /\ Stored' = Stored
<1>1. CASE rows[i].status # e
  BY <1>1, Untouched DEF Write, tables, Stored
<1>2. CASE rows[i].status = e
  <2>1. /\ rows[i] \in Row /\ TheRow = rows[i] /\ TheRow # NoRow
        /\ s \in ExecutionStatus /\ [rows[i] EXCEPT !.status = s] \in Row
    BY StoredRow, WrittenAssumption DEF Row
  <2>2. rows' = [rows EXCEPT ![i] = [rows[i] EXCEPT !.status = s]]
    BY <1>2 DEF Write
  <2>3. /\ rows' \in [Ids -> Row \cup {NoRow}] /\ Stored' = Stored /\ OneRecord'
        /\ TheRow' = [rows[i] EXCEPT !.status = s]
    BY <2>1, <2>2, Changed
  <2>4. Ledger!Write
    BY <2>1, <2>3, SamePlan DEF Ledger!Write
  <2>5. QED
    BY <2>3, <2>4 DEF Kept, Promised, Ledger!PromiseNext, IInv, TypeOK
<1>3. QED
  BY <1>1, <1>2

LEMMA BookKeeps ==
  ASSUME IInv, NEW i \in Stored, NEW m \in Message, Book(i, m),
         UNCHANGED <<operation, audits, submitters>>
  PROVE  Kept /\ Stored' = Stored
<1>1. /\ rows[i] \in Row /\ TheRow = rows[i] /\ TheRow # NoRow
      /\ [rows[i] EXCEPT !.nonce = m.nonce] \in Row
  BY StoredRow DEF Row, Message
<1>2. rows' = [rows EXCEPT ![i] = [rows[i] EXCEPT !.nonce = m.nonce]]
  BY DEF Book
<1>3. /\ rows' \in [Ids -> Row \cup {NoRow}] /\ Stored' = Stored /\ OneRecord'
      /\ TheRow' = [rows[i] EXCEPT !.nonce = m.nonce]
  BY <1>1, <1>2, Changed
<1>4. Ledger!Book(m)
  BY <1>1, <1>3 DEF Ledger!Book
<1>5. QED
  BY <1>3, <1>4 DEF Kept, Promised, Ledger!PromiseNext, IInv, TypeOK

(* A callback moves record, operation and audit together, only books its   *)
(* nonce, or does nothing.                                                 *)
LEMMA AnswerKeeps ==
  ASSUME IInv, NEW i \in Stored, NEW m \in Message, Answer(i, m), UNCHANGED submitters
  PROVE  Kept /\ Stored' = Stored
<1> DEFINE current == rows[i].status
           booked == rows[i].nonce
           To(next) == [rows[i] EXCEPT !.status = next, !.nonce = m.nonce]
<1>1. /\ rows[i] \in Row /\ TheRow = rows[i] /\ TheRow # NoRow
      /\ current \in ExecutionStatus /\ m.nonce \in Nonces
  BY StoredRow DEF Row, Message
<1>2. ASSUME NEW next \in ExecutionStatus,
             rows' = [rows EXCEPT ![i].status = next, ![i].nonce = m.nonce]
      PROVE  /\ rows' \in [Ids -> Row \cup {NoRow}] /\ Stored' = Stored /\ OneRecord'
             /\ TheRow' = To(next)
  <2>1. To(next) \in Row
    BY <1>1, RowFields
  <2>2. rows' = [rows EXCEPT ![i] = To(next)]
    BY <1>2
  <2>3. QED
    BY <2>1, <2>2, Changed
<1>3. CASE /\ IsAmountMismatch(current, booked, m)
           /\ rows' = [rows EXCEPT ![i].status = "mismatched", ![i].nonce = m.nonce]
           /\ operation' = "human_handoff" /\ audits' = audits + 1
  <2>1. "mismatched" \in ExecutionStatus /\ "human_handoff" \in OperationStatus
    BY DEF ExecutionStatus, OperationStatus
  <2>2. /\ rows' \in [Ids -> Row \cup {NoRow}] /\ Stored' = Stored /\ OneRecord'
        /\ TheRow' = To("mismatched")
    BY <1>2, <1>3, <2>1
  <2>3. Ledger!Settle(m)
    BY <1>1, <1>3, <2>2, SamePlan DEF Ledger!Settle
  <2>4. QED
    BY <1>3, <2>1, <2>2, <2>3 DEF Kept, Promised, Ledger!PromiseNext, IInv, TypeOK
<1>4. CASE /\ IsApplied(current, booked, m)
           /\ rows' = [rows EXCEPT ![i].status = NormalizeCallback(current, m.status),
                                   ![i].nonce = m.nonce]
           /\ operation' = "executed" /\ audits' = audits + 1
  <2>1. NormalizeCallback(current, m.status) \in ExecutionStatus
    BY <1>1, NormalizeType
  <2>2. /\ rows' \in [Ids -> Row \cup {NoRow}] /\ Stored' = Stored /\ OneRecord'
        /\ TheRow' = To(NormalizeCallback(current, m.status))
    BY <1>2, <1>4, <2>1
  <2>3. Ledger!Settle(m)
    BY <1>1, <1>4, <2>2, SamePlan DEF Ledger!Settle
  <2>4. "executed" \in OperationStatus
    BY DEF OperationStatus
  <2>5. QED
    BY <1>4, <2>2, <2>3, <2>4 DEF Kept, Promised, Ledger!PromiseNext, IInv, TypeOK
<1>5. CASE Book(i, m) /\ UNCHANGED <<operation, audits>>
  BY <1>5, BookKeeps
<1>6. CASE UNCHANGED <<rows, operation, audits>>
  BY <1>6, Untouched DEF tables, Stored
<1>7. QED
  BY <1>3, <1>4, <1>5, <1>6 DEF Answer, Apply

-----------------------------------------------------------------------------
(* Every step of every store keeps the tables as the promise allows.       *)
LEMMA TablesStep ==
  ASSUME IInv, [Next]_vars
  PROVE  Kept /\ audits' <= calls'
<1>1. audits \in Nat /\ calls \in Nat /\ audits <= calls
  BY BoundsAssumption DEF IInv, TypeOK
<1>2. ASSUME NEW c \in Callers, MemoryCreate(c) \/ PgCreate(c)
      PROVE  Kept /\ audits' <= calls'
  BY <1>1, <1>2, CreateKeeps DEF MemoryCreate, PgCreate, CountCreate
<1>3. ASSUME NEW c \in Callers, SqliteInsert(c)
      PROVE  Kept /\ audits' <= calls'
  <2>1. CASE Stored # {}
    BY <1>1, <1>3, <2>1, Untouched DEF SqliteInsert, tables
  <2>2. CASE Stored = {}
    <3>1. pc[c].id \in Ids
      BY <1>3 DEF SqliteInsert, IInv, PcInv, Idle, Recovering, Failing, Inserting, Booking
    <3>2. rows' = [rows EXCEPT ![pc[c].id] = Fresh]
      BY <1>3, <2>2 DEF SqliteInsert
    <3>3. /\ rows' \in [Ids -> Row \cup {NoRow}] /\ OneRecord'
          /\ TheRow = NoRow /\ TheRow' = Fresh
      BY <2>2, <3>1, <3>2, Inserted
    <3>4. UNCHANGED <<operation, audits, submitters, calls>>
      BY <1>3 DEF SqliteInsert
    <3>5. Ledger!Create
      BY <3>3, <3>4 DEF Ledger!Create, Ledger!Fresh, Fresh
    <3>6. QED
      BY <1>1, <2>2, <3>3, <3>4, <3>5 DEF Kept, Promised, Ledger!PromiseNext, IInv, TypeOK
  <2>3. QED
    BY <2>1, <2>2
<1>4. ASSUME NEW c \in Callers, NEW i \in Stored,
             MemoryClaim(c, i) \/ SqliteClaim(c, i) \/ PgClaim(c, i)
      PROVE  Kept /\ audits' <= calls'
  BY <1>1, <1>4, GrantKeeps DEF MemoryClaim, SqliteClaim, PgClaim
<1>5. ASSUME NEW c \in Callers, NEW i \in Stored, NEW e \in ExecutionStatus,
             NEW s \in Written,
             MemoryUpdate(c, i, e, s) \/ SqliteUpdate(c, i, e, s) \/ PgUpdate(c, i, e, s)
      PROVE  Kept /\ audits' <= calls'
  BY <1>1, <1>5, WriteKeeps DEF MemoryUpdate, SqliteUpdate, PgUpdate, Call
<1>6. ASSUME NEW c \in Callers, UpdateOperation(c)
      PROVE  Kept /\ audits' <= calls'
  <2>1. operation' \in OperationStatus /\ UNCHANGED <<rows, audits, submitters>>
    BY <1>6 DEF UpdateOperation, OperationStatus
  <2>2. Stored' = Stored /\ TheRow' = TheRow
    BY <2>1 DEF Stored, TheRow
  <2>3. Ledger!WriteOperation
    BY <2>1, <2>2, SamePlan DEF Ledger!WriteOperation
  <2>4. calls' = calls + 1
    BY <1>6 DEF UpdateOperation, Call
  <2>5. QED
    BY <1>1, <2>1, <2>2, <2>3, <2>4
       DEF Kept, Promised, Ledger!PromiseNext, IInv, TypeOK, OneRecord
<1>7. ASSUME NEW c \in Callers, NEW i \in Stored, NEW m \in Message,
             MemoryClaimCallback(c, i, m) \/ SqliteClaimCallback(c, i, m)
      PROVE  Kept /\ audits' <= calls'
  BY <1>1, <1>7, BookKeeps DEF MemoryClaimCallback, SqliteClaimCallback, Call
<1>8. ASSUME NEW c \in Callers, PgBookNonce(c)
      PROVE  Kept /\ audits' <= calls'
  <2>1. pc[c].id \in Stored /\ pc[c].m \in Message
    BY <1>8 DEF PgBookNonce, IInv, PcInv, Idle, Recovering, Failing, Inserting, Booking
  <2>2. UNCHANGED <<operation, audits, submitters, calls>>
    BY <1>8 DEF PgBookNonce
  <2>3. UNCHANGED rows \/ Book(pc[c].id, pc[c].m)
    BY <1>8 DEF PgBookNonce
  <2>4. QED
    BY <1>1, <2>1, <2>2, <2>3, BookKeeps, Untouched DEF tables
<1>9. ASSUME NEW c \in Callers, NEW i \in Stored, NEW m \in Message,
             MemoryCallback(c, i, m) \/ SqliteCallback(c, i, m) \/ PgCallback(c, i, m)
      PROVE  Kept /\ audits' <= calls'
  <2>1. Answer(i, m) /\ UNCHANGED submitters /\ calls' = calls + 1
    BY <1>9 DEF MemoryCallback, SqliteCallback, PgCallback, Call
  <2>2. QED
    BY <1>1, <2>1, AnswerKeeps DEF Kept
<1>10. ASSUME UNCHANGED tables, calls' = calls \/ calls' = calls + 1
       PROVE  Kept /\ audits' <= calls'
  BY <1>1, <1>10, Untouched
<1>11. ASSUME NEW c \in Callers,
              \/ SqliteLook(c) \/ SqliteRecover(c) \/ Raised(c) \/ SqliteBeginFails(c)
              \/ \E i \in Stored, m \in Message : PgReadNonce(c, i, m)
       PROVE  Kept /\ audits' <= calls'
  BY <1>10, <1>11
     DEF SqliteLook, SqliteRecover, Raised, SqliteBeginFails, PgReadNonce, CountCreate, Call
<1>12. CASE Crash \/ UNCHANGED vars
  BY <1>10, <1>12 DEF Crash, vars, tables
<1>13. QED
  BY <1>2, <1>3, <1>4, <1>5, <1>6, <1>7, <1>8, <1>9, <1>11, <1>12 DEF Next, Continue

(* Where the callers are, the connection and the counters.                 *)
Control ==
  /\ PcInv
  /\ backend \in {"memory", "sqlite", "postgres"}
  /\ seeded \in BOOLEAN /\ untouched \in BOOLEAN
  /\ open \in BOOLEAN /\ (open => backend = "sqlite")
  /\ creates \in 0..MaxCreates /\ calls \in 0..MaxCalls
  /\ OpenInWindow

(* Nobody moves, and the connection is left as it was or committed.        *)
LEMMA StandControl ==
  ASSUME IInv, Stored \subseteq Stored', UNCHANGED <<backend, seeded, pc>>,
         UNCHANGED <<open, untouched>> \/ Committed,
         creates' \in 0..MaxCreates, calls' \in 0..MaxCalls
  PROVE  Control'
<1>1. PcInv'
  BY DEF IInv, PcInv
<1>2. OpenInWindow'
  BY DEF IInv, OpenInWindow, Committed
<1>3. CASE UNCHANGED <<open, untouched>>
  BY <1>1, <1>2, <1>3 DEF Control, IInv, TypeOK
<1>4. CASE Committed
  BY <1>1, <1>2, <1>4 DEF Control, IInv, TypeOK, Committed
<1>5. QED
  BY <1>3, <1>4

(* One caller moves.                                                       *)
Moves(c, new) ==
  /\ pc' = [pc EXCEPT ![c] = new]
  /\ new \in {Idle, Recovering, Failing} \cup Inserting \cup Booking
  /\ new.at \in {"insert", "recover", "raised"} => backend = "sqlite"
  /\ new.at = "book" => new.id \in Stored

LEMMA MoveControl ==
  ASSUME IInv, Stored \subseteq Stored', NEW c \in Callers, NEW new, Moves(c, new),
         UNCHANGED <<backend, seeded>>,
         \/ Committed
         \/ UNCHANGED <<open, untouched>> /\ pc[c].at # "recover"
         \/ open' = TRUE /\ UNCHANGED untouched /\ new = Recovering,
         creates' \in 0..MaxCreates, calls' \in 0..MaxCalls
  PROVE  Control'
<1>1. \A d \in Callers : pc'[d] = IF d = c THEN new ELSE pc[d]
  BY DEF Moves, IInv, PcInv
<1>2. PcInv'
  <2>1. pc' \in [Callers -> {Idle, Recovering, Failing} \cup Inserting \cup Booking]'
    BY DEF Moves, IInv, PcInv, Idle, Recovering, Failing, Inserting, Booking, Message, Ids
  <2>2. QED
    BY <1>1, <2>1 DEF Moves, IInv, PcInv
<1>3. CASE Committed
  BY <1>2, <1>3 DEF Control, OpenInWindow, IInv, TypeOK, Committed
<1>4. CASE UNCHANGED <<open, untouched>> /\ pc[c].at # "recover"
  <2>1. ASSUME open' PROVE untouched' \/ \E d \in Callers : pc'[d].at = "recover"
    <3>1. untouched \/ \E d \in Callers : pc[d].at = "recover"
      BY <1>4, <2>1 DEF IInv, OpenInWindow
    <3>2. \A d \in Callers : pc[d].at = "recover" => pc'[d].at = "recover"
      BY <1>1, <1>4
    <3>3. QED
      BY <1>4, <3>1, <3>2
  <2>2. QED
    BY <1>2, <1>4, <2>1 DEF Control, OpenInWindow, IInv, TypeOK
<1>5. CASE open' = TRUE /\ UNCHANGED untouched /\ new = Recovering
  <2>1. pc'[c].at = "recover" /\ backend' = "sqlite"
    BY <1>1, <1>5 DEF Moves, Recovering
  <2>2. QED
    BY <1>2, <1>5, <2>1 DEF Control, OpenInWindow, IInv, TypeOK
<1>6. QED
  BY <1>3, <1>4, <1>5

LEMMA ControlStep ==
  ASSUME IInv, [Next]_vars, Stored \subseteq Stored'
  PROVE  Control'
<1>1. creates' \in 0..MaxCreates /\ calls' \in 0..MaxCalls
  BY BoundsAssumption
     DEF IInv, TypeOK, Next, Continue, MemoryCreate, SqliteLook, PgCreate, SqliteInsert,
         SqliteRecover, PgBookNonce, Raised, UpdateOperation, SqliteBeginFails,
         MemoryClaim, SqliteClaim, PgClaim, MemoryUpdate, SqliteUpdate, PgUpdate,
         MemoryClaimCallback, SqliteClaimCallback, PgReadNonce, MemoryCallback,
         SqliteCallback, PgCallback, Crash, CountCreate, Call, vars
<1>2. ASSUME UNCHANGED <<backend, seeded, pc>>, UNCHANGED <<open, untouched>> \/ Committed
      PROVE  Control'
  BY <1>1, <1>2, StandControl
<1>3. ASSUME NEW c \in Callers,
             \/ MemoryCreate(c) \/ PgCreate(c) \/ UpdateOperation(c)
             \/ \E i \in Stored :
                  \/ MemoryClaim(c, i) \/ SqliteClaim(c, i) \/ PgClaim(c, i)
                  \/ \E e \in ExecutionStatus, s \in Written :
                       \/ MemoryUpdate(c, i, e, s) \/ SqliteUpdate(c, i, e, s)
                       \/ PgUpdate(c, i, e, s)
                  \/ \E m \in Message :
                       \/ MemoryClaimCallback(c, i, m) \/ SqliteClaimCallback(c, i, m)
                       \/ MemoryCallback(c, i, m) \/ SqliteCallback(c, i, m)
                       \/ PgCallback(c, i, m)
      PROVE  Control'
  BY <1>2, <1>3
     DEF MemoryCreate, PgCreate, UpdateOperation, MemoryClaim, SqliteClaim, PgClaim,
         MemoryUpdate, SqliteUpdate, PgUpdate, MemoryClaimCallback, SqliteClaimCallback,
         MemoryCallback, SqliteCallback, PgCallback, Stay, connection
<1>4. ASSUME NEW c \in Callers, SqliteLook(c)
      PROVE  Control'
  <2>1. CASE Stored # {}
    BY <1>2, <1>4, <2>1 DEF SqliteLook
  <2>2. CASE Stored = {}
    <3>1. Moves(c, [at |-> "insert", id |-> creates + 1])
      BY <1>4, <2>2, BoundsAssumption
         DEF SqliteLook, Moves, Inserting, Ids, CountCreate, IInv, TypeOK, On
    <3>2. QED
      BY <1>1, <1>4, <3>1, MoveControl DEF SqliteLook
  <2>3. QED
    BY <2>1, <2>2
<1>5. ASSUME NEW c \in Callers, SqliteInsert(c)
      PROVE  Control'
  <2>1. backend = "sqlite" /\ pc[c].at = "insert"
    BY <1>5 DEF SqliteInsert, IInv, PcInv
  <2>2. CASE Stored = {}
    <3>1. Moves(c, Idle) /\ Committed /\ UNCHANGED <<backend, seeded>>
      BY <1>5, <2>1, <2>2 DEF SqliteInsert, Moves, Idle
    <3>2. QED
      BY <1>1, <3>1, MoveControl
  <2>3. CASE Stored # {}
    <3>1. /\ Moves(c, Recovering) /\ open' = TRUE
          /\ UNCHANGED <<untouched, backend, seeded>>
      BY <1>5, <2>1, <2>3 DEF SqliteInsert, Moves, Recovering
    <3>2. QED
      BY <1>1, <3>1, MoveControl
  <2>4. QED
    BY <2>2, <2>3
<1>6. ASSUME NEW c \in Callers, SqliteRecover(c)
      PROVE  Control'
  <2>1. Moves(c, Idle) /\ Committed /\ UNCHANGED <<backend, seeded>>
    BY <1>6 DEF SqliteRecover, Moves, Idle
  <2>2. QED
    BY <1>1, <2>1, MoveControl
<1>7. ASSUME NEW c \in Callers, SqliteBeginFails(c)
      PROVE  Control'
  <2>1. /\ Moves(c, Failing) /\ pc[c].at # "recover"
        /\ UNCHANGED <<open, untouched, backend, seeded>>
    BY <1>7 DEF SqliteBeginFails, Moves, Failing, On, Idle, connection
  <2>2. QED
    BY <1>1, <2>1, MoveControl
<1>8. ASSUME NEW c \in Callers, Raised(c) \/ PgBookNonce(c)
      PROVE  Control'
  <2>1. /\ Moves(c, Idle) /\ pc[c].at # "recover"
        /\ UNCHANGED <<open, untouched, backend, seeded>>
    BY <1>8 DEF Raised, PgBookNonce, Moves, Idle, connection
  <2>2. QED
    BY <1>1, <2>1, MoveControl
<1>9. ASSUME NEW c \in Callers, NEW i \in Stored, NEW m \in Message, PgReadNonce(c, i, m)
      PROVE  Control'
  <2>1. CASE rows[i].nonce = m.nonce
    BY <1>2, <1>9, <2>1 DEF PgReadNonce, connection
  <2>2. CASE rows[i].nonce # m.nonce
    <3>1. i \in Ids /\ rows[i].nonce \in Nonces \cup {NoNonce}
      BY StoredRow DEF Row
    <3>2. /\ Moves(c, [at |-> "book", id |-> i, m |-> m, seen |-> rows[i].nonce])
          /\ pc[c].at # "recover"
          /\ UNCHANGED <<open, untouched, backend, seeded>>
      BY <1>9, <2>2, <3>1 DEF PgReadNonce, Moves, Booking, On, Idle, connection
    <3>3. QED
      BY <1>1, <3>2, MoveControl
  <2>3. QED
    BY <2>1, <2>2
<1>10. CASE Crash
  <2>1. \A d \in Callers : pc'[d] = Idle
    BY <1>10 DEF Crash
  <2>2. PcInv'
    <3>1. pc' \in [Callers -> {Idle, Recovering, Failing} \cup Inserting \cup Booking]'
      BY <1>10 DEF Crash, Idle, Recovering, Failing, Inserting, Booking, Message, Ids
    <3>2. QED
      BY <2>1, <3>1 DEF PcInv, Idle
  <2>3. QED
    BY <1>1, <1>10, <2>2 DEF Crash, Control, OpenInWindow, IInv, TypeOK
<1>11. CASE UNCHANGED vars
  BY <1>2, <1>11 DEF vars
<1>12. QED
  BY <1>3, <1>4, <1>5, <1>6, <1>7, <1>8, <1>9, <1>10, <1>11 DEF Next, Continue

-----------------------------------------------------------------------------
LEMMA InitInv == Init => IInv
<1> SUFFICES ASSUME Init PROVE IInv
  OBVIOUS
<1>1. Stored = {} /\ \A c \in Callers : pc[c] = Idle
  BY DEF Init, Stored
<1>2. TypeOK
  <2>1. rows \in [Ids -> Row \cup {NoRow}] /\ operation \in OperationStatus
    BY DEF Init, OperationStatus
  <2>2. 0 \in 0..MaxCalls /\ 0 \in 0..MaxCreates
    BY BoundsAssumption
  <2>3. \A c \in Callers : pc[c].at \in {"idle", "insert", "recover", "book", "raised"}
    BY <1>1 DEF Idle
  <2>4. untouched \in BOOLEAN /\ open \in BOOLEAN /\ (open => backend = "sqlite")
    BY DEF Init
  <2>5. QED
    BY <2>1, <2>2, <2>3, <2>4 DEF Init, TypeOK
<1>3. PcInv
  BY <1>1 DEF Init, PcInv, Idle
<1>4. OneRecord /\ OpenInWindow /\ audits <= calls
  BY <1>1 DEF Init, OneRecord, OpenInWindow
<1>5. QED
  BY <1>2, <1>3, <1>4 DEF IInv

LEMMA Invariance == IInv /\ [Next]_vars => IInv'
<1> SUFFICES ASSUME IInv, [Next]_vars PROVE IInv'
  OBVIOUS
<1>1. Kept /\ audits' <= calls'
  BY TablesStep
<1>2. Control'
  BY <1>1, ControlStep DEF Kept
<1>3. audits' \in 0..MaxCalls
  BY <1>1, <1>2, BoundsAssumption DEF Kept, Control
<1>4. \A c \in Callers : pc'[c].at \in {"idle", "insert", "recover", "book", "raised"}
  BY <1>2 DEF Control, PcInv, Idle, Recovering, Failing, Inserting, Booking
<1>5. TypeOK'
  BY <1>1, <1>2, <1>3, <1>4 DEF Kept, Control, TypeOK, Ids, Row
<1>6. QED
  BY <1>1, <1>2, <1>5 DEF Kept, Control, IInv

(* The invariant holds in every reachable state.                           *)
LEMMA Inductive == Spec => []IInv
BY InitInv, Invariance, PTL DEF Spec

-----------------------------------------------------------------------------
(* The stores keep their types: no record is ever half written, and an     *)
(* open transaction is a matter of SQLite alone.                           *)
THEOREM TypeCorrect == Spec => []TypeOK
<1>1. IInv => TypeOK
  BY DEF IInv
<1>2. QED
  BY <1>1, Inductive, PTL

(* create_execution_record leaves one record per operation on every        *)
(* backend, however many callers look before anybody inserts.              *)
THEOREM OneRecordHolds == Spec => []OneRecord
<1>1. IInv => OneRecord
  BY DEF IInv
<1>2. QED
  BY <1>1, Inductive, PTL

(* SQLite has a transaction open, and refuses callbacks, only between a    *)
(* lost insert and its recovery or from a restart to the next statement.   *)
THEOREM WindowHolds == Spec => []OpenInWindow
<1>1. IInv => OpenInWindow
  BY DEF IInv
<1>2. QED
  BY <1>1, Inductive, PTL

LEMMA InitPromised == Init => Ledger!PromiseInit
<1>1. Init => Stored = {}
  BY DEF Init, Stored
<1>2. QED
  BY <1>1 DEF Init, Ledger!PromiseInit, TheRow

LEMMA StepPromised == IInv /\ [Next]_vars => [Ledger!PromiseNext]_(Ledger!promiseVars)
BY TablesStep DEF Kept, Promised

(* Memory, SQLite and PostgreSQL keep the promise the engine relies on:    *)
(* one record, one submitter per claim, and a callback that changes        *)
(* record, operation and audit in one step, through crashes as well.       *)
THEOREM Implements == Spec => ImplementsLedger
<1>1. QED
  BY InitPromised, StepPromised, Inductive, PTL DEF Spec, ImplementsLedger, Ledger!LedgerSpec

-----------------------------------------------------------------------------
(* From the promise: an attempt, once counted, is never taken back, so the *)
(* right to submit is given once.                                          *)
OneSubmitter == \A c, d \in submitters : c = d

Counted == TheRow = NoRow \/ TheRow.attempts = 0 => submitters = {}

LEMMA TheRowType == IInv => TheRow \in Row \cup {NoRow}
<1>1. CASE Stored = {}
  BY <1>1 DEF TheRow
<1>2. ASSUME IInv, NEW i \in Stored PROVE TheRow \in Row
  BY <1>2, StoredRow
<1>3. QED
  BY <1>1, <1>2

LEMMA SubmitterStep ==
  ASSUME IInv, Promised, OneSubmitter, Counted
  PROVE  OneSubmitter' /\ Counted'
<1>1. TheRow # NoRow => TheRow \in Row
  BY TheRowType
<1>2. CASE Ledger!Create
  BY <1>2, FreshIsRow DEF Ledger!Create, Counted, OneSubmitter
<1>3. CASE Ledger!WriteOperation \/ UNCHANGED Ledger!promiseVars
  BY <1>3 DEF Ledger!WriteOperation, Ledger!promiseVars, Counted, OneSubmitter
<1>4. ASSUME NEW c \in Callers, Ledger!Claim(c) PROVE OneSubmitter' /\ Counted'
  <2>1. submitters = {} /\ submitters' = {c}
    BY <1>4 DEF Ledger!Claim, Counted
  <2>2. TheRow' \in Row /\ TheRow'.attempts = 1
    BY <1>1, <1>4 DEF Ledger!Claim, Row
  <2>3. QED
    BY <2>1, <2>2, NoRowAssumption DEF OneSubmitter, Counted
<1>5. ASSUME TheRow \in Row, TheRow'.attempts = TheRow.attempts, UNCHANGED submitters,
             TheRow' \in Row
      PROVE  OneSubmitter' /\ Counted'
  BY <1>5, NoRowAssumption DEF Counted, OneSubmitter
<1>6. CASE Ledger!Write
  <2>1. PICK s \in ExecutionStatus : TheRow' = [TheRow EXCEPT !.status = s]
    BY <1>6, SamePlan DEF Ledger!Write
  <2>2. TheRow \in Row /\ UNCHANGED submitters
    BY <1>1, <1>6 DEF Ledger!Write
  <2>3. TheRow' \in Row /\ TheRow'.attempts = TheRow.attempts
    BY <2>1, <2>2 DEF Row
  <2>4. QED
    BY <1>5, <2>2, <2>3
<1>7. ASSUME NEW m \in Message, Ledger!Book(m) PROVE OneSubmitter' /\ Counted'
  <2>1. TheRow \in Row /\ TheRow' = [TheRow EXCEPT !.nonce = m.nonce] /\ UNCHANGED submitters
    BY <1>1, <1>7 DEF Ledger!Book
  <2>2. TheRow' \in Row /\ TheRow'.attempts = TheRow.attempts
    BY <2>1 DEF Row, Message
  <2>3. QED
    BY <1>5, <2>1, <2>2
<1>8. ASSUME NEW m \in Message, Ledger!Settle(m) PROVE OneSubmitter' /\ Counted'
  <2>1. TheRow \in Row /\ UNCHANGED submitters
    BY <1>1, <1>8 DEF Ledger!Settle
  <2>2. PICK s \in ExecutionStatus : TheRow' = [TheRow EXCEPT !.status = s, !.nonce = m.nonce]
    <3>1. "mismatched" \in ExecutionStatus
      BY DEF ExecutionStatus
    <3>2. NormalizeCallback(TheRow.status, m.status) \in ExecutionStatus
      BY <2>1, NormalizeType DEF Row
    <3>3. QED
      BY <1>8, <3>1, <3>2, SamePlan DEF Ledger!Settle
  <2>3. TheRow' \in Row /\ TheRow'.attempts = TheRow.attempts
    BY <2>1, <2>2 DEF Row, Message
  <2>4. QED
    BY <1>5, <2>1, <2>3
<1>9. QED
  BY <1>2, <1>3, <1>4, <1>6, <1>7, <1>8 DEF Promised, Ledger!PromiseNext

(* No two callers of claim_execution_submit are told TRUE, on any backend. *)
THEOREM OneSubmitterHolds == Spec => []OneSubmitter
<1>1. Init => OneSubmitter /\ Counted
  BY DEF Init, OneSubmitter, Counted
<1>2. IInv /\ OneSubmitter /\ Counted /\ [Next]_vars => OneSubmitter' /\ Counted'
  BY TablesStep, SubmitterStep DEF Kept
<1>3. QED
  BY <1>1, <1>2, Inductive, PTL DEF Spec

-----------------------------------------------------------------------------
(* StoreBackends: the three stores side by side.                           *)

(* The tables of one store, and what a call under t leaves of them.        *)
Sound(db) ==
  /\ db \in Tables
  /\ \A i \in DOMAIN db.streams : db.streams[i].events = 1..db.streams[i].lastSeq

Respects(t, db, new) ==
  /\ Sound(new)
  /\ \A u \in Tenants \ {t} : Rows(new, u) = Rows(db, u)

(* The stores answer alike where PostgreSQL was never called otherwise.    *)
BackendInv == BackendTypeOK /\ StoresAgree

(* Rows are alike that agree in what Rows shows of them.                    *)
LEMMA SameRows ==
  ASSUME NEW db, NEW new, NEW u,
         \A k \in Keys : new.operations[u, k] = db.operations[u, k],
         \A i : Yours(new, i, u) <=> Yours(db, i, u),
         \A i : Yours(db, i, u) => new.approvals[i].status = db.approvals[i].status,
         \A i : Mine(new.streams, i, u) <=> Mine(db.streams, i, u),
         \A i : Mine(db.streams, i, u) => new.streams[i] = db.streams[i]
  PROVE  Rows(new, u) = Rows(db, u)
<1>1. [k \in Keys |-> new.operations[u, k]] = [k \in Keys |-> db.operations[u, k]]
  OBVIOUS
<1>2. {j \in DOMAIN new.approvals : Yours(new, j, u)} = {j \in DOMAIN db.approvals : Yours(db, j, u)}
  BY DEF Yours
<1>3. {j \in DOMAIN new.streams : Mine(new.streams, j, u)}
        = {j \in DOMAIN db.streams : Mine(db.streams, j, u)}
  BY DEF Mine
<1>4. [i \in {j \in DOMAIN new.approvals : Yours(new, j, u)} |-> new.approvals[i].status]
        = [i \in {j \in DOMAIN db.approvals : Yours(db, j, u)} |-> db.approvals[i].status]
  BY <1>2
<1>5. [i \in {j \in DOMAIN new.streams : Mine(new.streams, j, u)} |-> new.streams[i]]
        = [i \in {j \in DOMAIN db.streams : Mine(db.streams, j, u)} |-> db.streams[i]]
  BY <1>3
<1>6. QED
  BY <1>1, <1>4, <1>5 DEF Rows

LEMMA SameStreams ==
  ASSUME NEW db, NEW new, NEW u, new.streams = db.streams
  PROVE  /\ \A i : Mine(new.streams, i, u) <=> Mine(db.streams, i, u)
         /\ \A i : Mine(db.streams, i, u) => new.streams[i] = db.streams[i]
OBVIOUS

LEMMA SameApprovals ==
  ASSUME NEW db, NEW new, NEW u, new.approvals = db.approvals
  PROVE  /\ \A i : Yours(new, i, u) <=> Yours(db, i, u)
         /\ \A i : Yours(db, i, u) => new.approvals[i].status = db.approvals[i].status
BY DEF Yours

LEMMA Unchanged == ASSUME NEW db, Sound(db), NEW t PROVE Respects(t, db, db)
BY DEF Respects

LEMMA OperationSet ==
  ASSUME NEW db, Sound(db), NEW t \in Tenants, NEW k \in Keys, NEW s \in OperationStatus \cup {"none"}
  PROVE  Respects(t, db, [db EXCEPT !.operations[<<t, k>>] = s])
<1> DEFINE new == [db EXCEPT !.operations[<<t, k>>] = s]
<1>1. <<t, k>> \in Accounts /\ db.operations \in [Accounts -> OperationStatus \cup {"none"}]
  BY DEF Sound, Tables, Accounts
<1>2. /\ new.approvals = db.approvals /\ new.streams = db.streams
      /\ new.operations = [db.operations EXCEPT ![<<t, k>>] = s]
      /\ new \in Tables
  BY <1>1 DEF Sound, Tables
<1>3. Sound(new)
  BY <1>2 DEF Sound
<1>4. ASSUME NEW u \in Tenants \ {t} PROVE Rows(new, u) = Rows(db, u)
  <2>1. \A j \in Keys : new.operations[u, j] = db.operations[u, j]
    BY <1>1, <1>2 DEF Accounts
  <2> HIDE DEF new
  <2>2. QED
    BY <2>1, <1>2, SameRows, SameStreams, SameApprovals
<1>5. QED
  BY <1>3, <1>4 DEF Respects

LEMMA ApprovalAdded ==
  ASSUME NEW db, Sound(db), NEW t \in Tenants, NEW k \in Keys
  PROVE  Respects(t, db, [db EXCEPT !.approvals = Append(@, New(<<t, k>>))])
<1> DEFINE new == [db EXCEPT !.approvals = Append(@, New(<<t, k>>))]
           old == db.approvals
<1>1. New(<<t, k>>) \in Approval /\ old \in Seq(Approval)
  BY DEF New, Approval, ApprovalStatus, Accounts, Sound, Tables
<1>2. /\ Append(old, New(<<t, k>>)) \in Seq(Approval)
      /\ Len(Append(old, New(<<t, k>>))) = Len(old) + 1
      /\ \A i \in 1..Len(old) : Append(old, New(<<t, k>>))[i] = old[i]
      /\ Append(old, New(<<t, k>>))[Len(old) + 1] = New(<<t, k>>)
  BY <1>1, AppendProperties
<1>3. /\ new.operations = db.operations /\ new.streams = db.streams
      /\ new.approvals = Append(old, New(<<t, k>>))
      /\ new \in Tables
  BY <1>2 DEF Sound, Tables
<1>4. Sound(new)
  BY <1>3 DEF Sound
<1>5. ASSUME NEW u \in Tenants \ {t} PROVE Rows(new, u) = Rows(db, u)
  <2>1. DOMAIN old = 1..Len(old) /\ DOMAIN new.approvals = 1..(Len(old) + 1) /\ Len(old) \in Nat
    BY <1>1, <1>2, <1>3, LenProperties
  <2>2. New(<<t, k>>).of[1] = t
    BY DEF New
  <2>3. \A i \in DOMAIN old : new.approvals[i] = old[i]
    BY <1>2, <1>3, <2>1
  <2>4. new.approvals[Len(old) + 1].of[1] = t
    BY <1>2, <1>3, <2>2
  <2> HIDE DEF new
  <2>5. \A i : Yours(new, i, u) <=> Yours(db, i, u)
    BY <2>1, <2>3, <2>4 DEF Yours
  <2>6. \A i : Yours(db, i, u) => new.approvals[i].status = db.approvals[i].status
    BY <2>3 DEF Yours
  <2>7. \A j \in Keys : new.operations[u, j] = db.operations[u, j]
    BY <1>3
  <2>8. QED
    BY <2>5, <2>6, <2>7, <1>3, SameStreams, SameRows
<1>6. QED
  BY <1>4, <1>5 DEF Respects

(* The tables with approval i in status v and its operation in status s.   *)
Settled(db, i, v, s) ==
  [operations |-> [db.operations EXCEPT ![db.approvals[i].of] = s],
   approvals |-> [db.approvals EXCEPT ![i] = [db.approvals[i] EXCEPT !.status = v]],
   streams |-> db.streams]

LEMMA DecisionMade ==
  ASSUME NEW db, Sound(db), NEW t \in Tenants, NEW i, Yours(db, i, t),
         NEW v \in ApprovalStatus, NEW s \in OperationStatus \cup {"none"}
  PROVE  Respects(t, db, Settled(db, i, v, s))
<1> DEFINE new == Settled(db, i, v, s)
           old == db.approvals
           of == old[i].of
           row == [old[i] EXCEPT !.status = v]
<1>1. /\ old \in Seq(Approval) /\ DOMAIN old = 1..Len(old) /\ i \in 1..Len(old)
      /\ old[i] \in Approval /\ of[1] = t
  BY LenProperties DEF Yours, Sound, Tables
<1>2. row \in Approval /\ of \in Accounts /\ row.of = of
  BY <1>1 DEF Approval
<1>3. /\ [old EXCEPT ![i] = row] \in Seq(Approval)
      /\ Len([old EXCEPT ![i] = row]) = Len(old)
      /\ \A j \in 1..Len(old) : [old EXCEPT ![i] = row][j] = IF j = i THEN row ELSE old[j]
  BY <1>1, <1>2, ExceptSeq
<1>4. db.operations \in [Accounts -> OperationStatus \cup {"none"}]
  BY DEF Sound, Tables
<1>5. /\ new.operations = [db.operations EXCEPT ![of] = s] /\ new.streams = db.streams
      /\ new.approvals = [old EXCEPT ![i] = row]
      /\ new \in Tables
  <2>1. [db.operations EXCEPT ![of] = s] \in [Accounts -> OperationStatus \cup {"none"}]
    BY <1>4
  <2>2. QED
    BY <2>1, <1>3 DEF Settled, Sound, Tables
<1>6. Sound(new)
  BY <1>5 DEF Sound
<1>7. ASSUME NEW u \in Tenants \ {t} PROVE Rows(new, u) = Rows(db, u)
  <2> HIDE DEF new
  <2>1. DOMAIN new.approvals = DOMAIN old
    BY <1>1, <1>5
  <2>2. \A j \in DOMAIN old : /\ new.approvals[j].of = old[j].of
                              /\ j # i => new.approvals[j] = old[j]
    BY <1>1, <1>2, <1>3, <1>5
  <2>3. \A j : Yours(new, j, u) <=> Yours(db, j, u)
    BY <2>1, <2>2 DEF Yours
  <2>4. \A j : Yours(db, j, u) => j # i
    BY <1>1 DEF Yours
  <2>5. \A k \in Keys : new.operations[u, k] = db.operations[u, k]
    <3>1. \A k \in Keys : <<u, k>> # of
      BY <1>1
    <3>2. QED
      BY <3>1, <1>4, <1>5 DEF Accounts
  <2>6. \A j : Yours(db, j, u) => new.approvals[j].status = db.approvals[j].status
    BY <2>2, <2>4 DEF Yours
  <2>7. /\ \A j : Mine(new.streams, j, u) <=> Mine(db.streams, j, u)
        /\ \A j : Mine(db.streams, j, u) => new.streams[j] = db.streams[j]
    BY <1>5, SameStreams
  <2>8. QED
    BY <2>3, <2>5, <2>6, <2>7, SameRows
<1>8. QED
  BY <1>6, <1>7 DEF Respects

(* A list of as many approvals, each of them an approval.                  *)
LEMMA ApprovalsMapped ==
  ASSUME NEW old \in Seq(Approval), NEW new, DOMAIN new = DOMAIN old,
         new = [i \in DOMAIN new |-> new[i]],
         \A i \in DOMAIN old : new[i] \in Approval
  PROVE  new \in Seq(Approval)
<1>1. DOMAIN old = 1..Len(old) /\ Len(old) \in Nat
  BY LenProperties
<1>2. new \in [1..Len(old) -> Approval]
  BY <1>1
<1>3. QED
  BY <1>1, <1>2

(* The tables with other approvals and operations.                         *)
With(db, approvals, operations) ==
  [operations |-> operations, approvals |-> approvals, streams |-> db.streams]

LEMMA Rewritten ==
  ASSUME NEW db, Sound(db), NEW approvals
  PROVE  [db EXCEPT !.approvals = approvals] = With(db, approvals, db.operations)
<1>1. db \in Tables
  BY DEF Sound
<1>2. PICK o, a, s : db = [operations |-> o, approvals |-> a, streams |-> s]
  BY <1>1 DEF Tables
<1>3. db.operations = o /\ db.streams = s
  BY <1>2
<1>4. [db EXCEPT !.approvals = approvals] = [operations |-> o, approvals |-> approvals, streams |-> s]
  BY <1>2
<1>5. QED
  BY <1>3, <1>4 DEF With

LEMMA ExpiredRespects ==
  ASSUME NEW db, Sound(db), NEW t \in Tenants
  PROVE  Respects(t, db, Expired(db, Due(db, t)))
<1> DEFINE old == db.approvals
           ops == db.operations
           approvals == [i \in DOMAIN old |->
             [old[i] EXCEPT !.status = IF i \in Due(db, t) THEN "timeout" ELSE @]]
           operations == [a \in Accounts |->
             IF (\E i \in Due(db, t) : old[i].of = a) /\ ops[a] \notin {"none", "executed"}
             THEN "human_handoff" ELSE ops[a]]
           new == Expired(db, Due(db, t))
<1>1. /\ old \in Seq(Approval) /\ \A i \in DOMAIN old : old[i] \in Approval
      /\ ops \in [Accounts -> OperationStatus \cup {"none"}]
  BY LenProperties DEF Sound, Tables
<1>2. operations \in [Accounts -> OperationStatus \cup {"none"}]
  BY <1>1 DEF OperationStatus
<1>3. ASSUME NEW i \in DOMAIN old
      PROVE  /\ approvals[i] \in Approval /\ approvals[i].of = old[i].of
             /\ i \notin Due(db, t) => approvals[i].status = old[i].status
  <2>1. old[i] \in Approval
    BY <1>1
  <2>2. PICK s \in ApprovalStatus : /\ s = IF i \in Due(db, t) THEN "timeout" ELSE old[i].status
                                    /\ approvals[i] = [old[i] EXCEPT !.status = s]
    BY <2>1 DEF Approval, ApprovalStatus
  <2>3. QED
    BY <2>1, <2>2 DEF Approval
<1>4. \A a \in Accounts : (~ \E i \in Due(db, t) : old[i].of = a) => operations[a] = ops[a]
  OBVIOUS
<1>5. DOMAIN approvals = DOMAIN old /\ approvals = [i \in DOMAIN approvals |-> approvals[i]]
  OBVIOUS
<1>6. new = With(db, approvals, operations)
  BY DEF Expired, With
<1> HIDE DEF approvals, operations, new
<1>7. new.approvals = approvals /\ new.operations = operations /\ new.streams = db.streams
  BY <1>6 DEF With
<1>8. approvals \in Seq(Approval)
  BY <1>1, <1>3, <1>5, ApprovalsMapped
<1>9. Sound(new)
  BY <1>6, <1>7, <1>2, <1>8 DEF Sound, Tables, With
<1>10. ASSUME NEW u \in Tenants \ {t} PROVE Rows(new, u) = Rows(db, u)
  <2>1. \A i : Yours(new, i, u) <=> Yours(db, i, u)
    BY <1>3, <1>5, <1>7 DEF Yours
  <2>2. \A i : Yours(db, i, u) => new.approvals[i].status = db.approvals[i].status
    BY <1>3, <1>7 DEF Yours, Due
  <2>3. \A k \in Keys : new.operations[u, k] = db.operations[u, k]
    <3>1. \A k \in Keys : ~ \E i \in Due(db, t) : old[i].of = <<u, k>>
      BY DEF Due, Yours
    <3>2. QED
      BY <3>1, <1>4, <1>7 DEF Accounts
  <2>4. /\ \A j : Mine(new.streams, j, u) <=> Mine(db.streams, j, u)
        /\ \A j : Mine(db.streams, j, u) => new.streams[j] = db.streams[j]
    BY <1>7, SameStreams
  <2>5. QED
    BY <2>1, <2>2, <2>3, <2>4, SameRows
<1>11. QED
  BY <1>9, <1>10 DEF Respects, new

LEMMA AgedSound ==
  ASSUME NEW db, Sound(db)
  PROVE  Sound(Aged(db)) /\ \A u : Rows(Aged(db), u) = Rows(db, u)
<1> DEFINE old == db.approvals
           approvals == [i \in DOMAIN old |-> [old[i] EXCEPT !.stale = TRUE]]
           new == Aged(db)
<1>1. old \in Seq(Approval) /\ \A i \in DOMAIN old : old[i] \in Approval
  BY LenProperties DEF Sound, Tables
<1>2. ASSUME NEW i \in DOMAIN old
      PROVE  /\ approvals[i] \in Approval
             /\ approvals[i].of = old[i].of /\ approvals[i].status = old[i].status
  BY <1>1 DEF Approval
<1>3. DOMAIN approvals = DOMAIN old /\ approvals = [i \in DOMAIN approvals |-> approvals[i]]
  OBVIOUS
<1>4. new = [db EXCEPT !.approvals = approvals]
  BY DEF Aged
<1> HIDE DEF approvals, new
<1>5. new = With(db, approvals, db.operations)
  BY <1>4, Rewritten, Zenon
<1>6. new.approvals = approvals /\ new.operations = db.operations /\ new.streams = db.streams
  BY <1>5 DEF With
<1>7. approvals \in Seq(Approval)
  BY <1>1, <1>2, <1>3, ApprovalsMapped
<1>8. Sound(new)
  BY <1>5, <1>6, <1>7 DEF Sound, Tables, With
<1>9. ASSUME NEW u PROVE Rows(new, u) = Rows(db, u)
  <2>1. \A i : Yours(new, i, u) <=> Yours(db, i, u)
    BY <1>2, <1>3, <1>6 DEF Yours
  <2>2. \A i : Yours(db, i, u) => new.approvals[i].status = db.approvals[i].status
    BY <1>2, <1>6 DEF Yours
  <2>3. \A k \in Keys : new.operations[u, k] = db.operations[u, k]
    BY <1>6
  <2>4. /\ \A j : Mine(new.streams, j, u) <=> Mine(db.streams, j, u)
        /\ \A j : Mine(db.streams, j, u) => new.streams[j] = db.streams[j]
    BY <1>6, SameStreams
  <2>5. QED
    BY <2>1, <2>2, <2>3, <2>4, SameRows
<1>10. QED
  BY <1>8, <1>9 DEF new

-----------------------------------------------------------------------------
LEMMA StreamOpened ==
  ASSUME NEW db, Sound(db), NEW t \in Tenants, NEW r \in Requests
  PROVE  Respects(t, db, Opened(db, t, r))
<1> DEFINE row == [tenant |-> t, request |-> r, lastSeq |-> 0, events |-> {}]
           old == db.streams
           streams == Append(old, row)
           new == Opened(db, t, r)
<1>1. old \in Seq(Stream) /\ DOMAIN old = 1..Len(old) /\ Len(old) \in Nat
  BY LenProperties DEF Sound, Tables
<1>2. row \in Stream /\ row.events = 1..row.lastSeq /\ row.tenant = t
  BY TablesAssumption DEF Stream
<1> HIDE DEF row
<1>3. /\ streams \in Seq(Stream) /\ DOMAIN streams = 1..(Len(old) + 1)
      /\ \A i \in DOMAIN old : streams[i] = old[i]
      /\ streams[Len(old) + 1] = row
  <2>1. /\ streams \in Seq(Stream) /\ Len(streams) = Len(old) + 1
        /\ \A i \in 1..Len(old) : streams[i] = old[i]
        /\ streams[Len(old) + 1] = row
    BY <1>1, <1>2, AppendProperties
  <2>2. DOMAIN streams = 1..Len(streams)
    BY <2>1, LenProperties
  <2>3. QED
    BY <1>1, <2>1, <2>2
<1>4. /\ new.operations = db.operations /\ new.approvals = db.approvals
      /\ new.streams = streams /\ new \in Tables
  BY <1>3 DEF Opened, Sound, Tables, row
<1> HIDE DEF streams, new
<1>5. Sound(new)
  <2>1. \A i \in DOMAIN old : old[i].events = 1..old[i].lastSeq
    BY DEF Sound
  <2>2. \A i \in DOMAIN streams : i \in DOMAIN old \/ i = Len(old) + 1
    BY <1>1, <1>3
  <2>3. QED
    BY <1>2, <1>3, <1>4, <2>1, <2>2 DEF Sound
<1>6. ASSUME NEW u \in Tenants \ {t} PROVE Rows(new, u) = Rows(db, u)
  <2>1. /\ \A j : Mine(new.streams, j, u) <=> Mine(db.streams, j, u)
        /\ \A j : Mine(db.streams, j, u) => new.streams[j] = db.streams[j]
    BY <1>1, <1>2, <1>3, <1>4 DEF Mine
  <2>2. \A k \in Keys : new.operations[u, k] = db.operations[u, k]
    BY <1>4
  <2>3. QED
    BY <2>1, <2>2, <1>4, SameApprovals, SameRows
<1>7. QED
  BY <1>5, <1>6 DEF Respects, new

(* The tables with one more event.                                         *)
Numbered(db, i, seq) ==
  [operations |-> db.operations, approvals |-> db.approvals,
   streams |-> [db.streams EXCEPT ![i] =
     [db.streams[i] EXCEPT !.lastSeq = seq, !.events = db.streams[i].events \cup {seq}]]]

LEMMA EventAdded ==
  ASSUME NEW db, Sound(db), NEW t \in Tenants, NEW i, Mine(db.streams, i, t),
         db.streams[i].lastSeq < MaxEvents
  PROVE  Respects(t, db, Numbered(db, i, db.streams[i].lastSeq + 1))
<1> DEFINE old == db.streams
           seq == old[i].lastSeq + 1
           row == [old[i] EXCEPT !.lastSeq = seq, !.events = old[i].events \cup {seq}]
           streams == [old EXCEPT ![i] = row]
           new == Numbered(db, i, seq)
<1>1. /\ old \in Seq(Stream) /\ DOMAIN old = 1..Len(old) /\ i \in 1..Len(old)
      /\ old[i] \in Stream /\ old[i].tenant = t /\ old[i].events = 1..old[i].lastSeq
  BY LenProperties DEF Mine, Sound, Tables
<1>2. row \in Stream /\ row.events = 1..row.lastSeq /\ row.tenant = t
  <2>1. old[i].lastSeq \in 0..MaxEvents /\ seq \in 1..MaxEvents /\ seq \in 0..MaxEvents
    BY <1>1, TablesAssumption DEF Stream
  <2>2. old[i].events \cup {seq} = 1..seq
    BY <1>1, <2>1
  <2>3. old[i].events \cup {seq} \in SUBSET (1..MaxEvents)
    <3>1. 1..seq \subseteq 1..MaxEvents
      BY <2>1, TablesAssumption
    <3>2. QED
      BY <2>2, <3>1
  <2> DEFINE s == seq  e == old[i].events \cup {seq}
  <2>4. row = [old[i] EXCEPT !.lastSeq = s, !.events = e] /\ e = 1..s
    BY <2>2
  <2>5. s \in 0..MaxEvents /\ e \in SUBSET (1..MaxEvents)
    BY <2>1, <2>3
  <2> HIDE DEF s, e
  <2>6. QED
    BY <1>1, <2>4, <2>5 DEF Stream
<1>3. /\ streams \in Seq(Stream) /\ DOMAIN streams = DOMAIN old
      /\ \A j \in DOMAIN old : streams[j] = IF j = i THEN row ELSE old[j]
  BY <1>1, <1>2, ExceptSeq
<1>4. new = [operations |-> db.operations, approvals |-> db.approvals, streams |-> streams]
  BY DEF Numbered
<1> HIDE DEF row, streams, new
<1>5. /\ new.operations = db.operations /\ new.approvals = db.approvals
      /\ new.streams = streams /\ new \in Tables
  BY <1>3, <1>4 DEF Sound, Tables
<1>6. Sound(new)
  <2>1. \A j \in DOMAIN old : old[j].events = 1..old[j].lastSeq
    BY DEF Sound
  <2>2. QED
    BY <2>1, <1>2, <1>3, <1>5 DEF Sound
<1>7. ASSUME NEW u \in Tenants \ {t} PROVE Rows(new, u) = Rows(db, u)
  <2>1. /\ \A j : Mine(new.streams, j, u) <=> Mine(db.streams, j, u)
        /\ \A j : Mine(db.streams, j, u) => new.streams[j] = db.streams[j]
    BY <1>1, <1>2, <1>3, <1>5 DEF Mine
  <2>2. \A k \in Keys : new.operations[u, k] = db.operations[u, k]
    BY <1>5
  <2>3. QED
    BY <2>1, <2>2, <1>5, SameApprovals, SameRows
<1>8. QED
  BY <1>6, <1>7 DEF Respects, new

-----------------------------------------------------------------------------
(* What each call leaves, and where the stores agree on it.                *)

LEMMA CreateOperationCalls ==
  ASSUME NEW db, Sound(db), NEW t \in Tenants, NEW k \in Keys
  PROVE  /\ Respects(t, db, MCreateOperation(db, <<t, k>>).db)
         /\ SCreateOperation(db, <<t, k>>) = MCreateOperation(db, <<t, k>>)
         /\ PCreateOperation(db, <<t, k>>) = MCreateOperation(db, <<t, k>>)
<1> DEFINE a == <<t, k>>
           new == [db EXCEPT !.operations[a] = "pending"]
<1>1. Respects(t, db, new)
  BY OperationSet DEF OperationStatus
<1>2. CASE db.operations[a] # "none"
  <2>1. [db EXCEPT !.operations[a] = @] = db
    BY DEF Sound, Tables
  <2>2. QED
    BY <1>2, <2>1, Unchanged DEF MCreateOperation, SCreateOperation, PCreateOperation, Result
<1>3. CASE db.operations[a] = "none"
  <2>1. new.operations[a] = "pending"
    BY DEF Sound, Tables, Accounts
  <2>2. QED
    BY <1>1, <1>3, <2>1 DEF MCreateOperation, SCreateOperation, PCreateOperation, Result
<1>4. QED
  BY <1>2, <1>3

LEMMA SetOperationCalls ==
  ASSUME NEW db, Sound(db), NEW t \in Tenants, NEW k \in Keys, NEW s \in OperationStatus
  PROVE  /\ Respects(t, db, MUpdateOperation(db, <<t, k>>, s).db)
         /\ SUpdateOperation(db, <<t, k>>, s) = MUpdateOperation(db, <<t, k>>, s)
         /\ PUpdateOperation(db, <<t, k>>, s) = MUpdateOperation(db, <<t, k>>, s)
<1> DEFINE a == <<t, k>>
           found == {x \in {a} : db.operations[x] # "none"}
<1>1. Cardinality(found) = 0 <=> db.operations[a] = "none"
  <2>1. found = IF db.operations[a] = "none" THEN {} ELSE {a}
    OBVIOUS
  <2>2. Cardinality({}) = 0 /\ Cardinality({a}) = 1
    BY FS_EmptySet, FS_Singleton
  <2>3. QED
    BY <2>1, <2>2
<1>2. Updated(db, a, s) = MUpdateOperation(db, a, s)
  BY <1>1 DEF Updated, MUpdateOperation
<1>3. Respects(t, db, [db EXCEPT !.operations[a] = s])
  BY OperationSet
<1>4. Respects(t, db, MUpdateOperation(db, a, s).db)
  BY <1>3, Unchanged DEF MUpdateOperation, Result
<1>5. QED
  BY <1>2, <1>4 DEF SUpdateOperation, PUpdateOperation

LEMMA CreateApprovalCalls ==
  ASSUME NEW db, Sound(db), NEW t \in Tenants, NEW k \in Keys
  PROVE  /\ Respects(t, db, MCreateApproval(db, <<t, k>>).db)
         /\ Respects(t, db, PCreateApproval(db, <<t, k>>).db)
         /\ SCreateApproval(db, <<t, k>>) = MCreateApproval(db, <<t, k>>)
         /\ (~ \E i \in DOMAIN db.approvals : db.approvals[i].of = <<t, k>>)
              => PCreateApproval(db, <<t, k>>) = MCreateApproval(db, <<t, k>>)
<1>1. Respects(t, db, [db EXCEPT !.approvals = Append(@, New(<<t, k>>))])
  BY ApprovalAdded
<1>2. QED
  BY <1>1, Unchanged DEF MCreateApproval, SCreateApproval, PCreateApproval, Result

LEMMA ExpireCalls ==
  ASSUME NEW db, Sound(db), NEW t \in Tenants
  PROVE  /\ Respects(t, db, MExpire(db, t).db)
         /\ SExpire(db, t) = MExpire(db, t)
         /\ PExpire(db, t) = MExpire(db, t)
BY ExpiredRespects DEF MExpire, SExpire, PExpire, Listing

LEMMA CreateStreamCalls ==
  ASSUME NEW db, Sound(db), NEW t \in Tenants, NEW r \in Requests
  PROVE  /\ Respects(t, db, MCreateStream(db, t, r).db)
         /\ Respects(t, db, PCreateStream(db, t, r).db)
         /\ SCreateStream(db, t, r) = MCreateStream(db, t, r)
         /\ Find(db, t, r) = {} => PCreateStream(db, t, r) = MCreateStream(db, t, r)
BY StreamOpened, Unchanged DEF MCreateStream, SCreateStream, PCreateStream, Result

LEMMA EventsAfterCalls ==
  ASSUME NEW db, Sound(db), NEW t \in Tenants, NEW i, NEW n
  PROVE  /\ Respects(t, db, MEventsAfter(db, t, i, n).db)
         /\ SEventsAfter(db, t, i, n) = MEventsAfter(db, t, i, n)
         /\ PEventsAfter(db, t, i, n) = MEventsAfter(db, t, i, n)
BY Unchanged DEF MEventsAfter, SEventsAfter, PEventsAfter, Result, Listing

LEMMA AppendEventCalls ==
  ASSUME NEW db, Sound(db), NEW t \in Tenants, NEW i,
         i \in DOMAIN db.streams => db.streams[i].lastSeq < MaxEvents
  PROVE  /\ Respects(t, db, MAppendEvent(db, t, i).db)
         /\ SAppendEvent(db, t, i) = MAppendEvent(db, t, i)
         /\ PAppendEvent(db, t, i) = MAppendEvent(db, t, i)
<1>1. CASE ~ Mine(db.streams, i, t)
  BY <1>1, Unchanged DEF MAppendEvent, SAppendEvent, PAppendEvent, Result
<1>2. CASE Mine(db.streams, i, t)
  <2> DEFINE seq == db.streams[i].lastSeq + 1
             new == [db EXCEPT !.streams[i].lastSeq = seq]
  <2>1. /\ i \in DOMAIN db.streams /\ db.streams[i].tenant = t
        /\ db.streams[i] \in Stream
    BY <1>2, LenProperties DEF Mine, Sound, Tables
  <2>2. Respects(t, db, Numbered(db, i, seq))
    BY <1>2, <2>1, EventAdded
  <2>3. new.streams[i].lastSeq = seq /\ new.streams[i].events = db.streams[i].events
    BY <2>1 DEF Sound, Tables, Stream
  <2> DEFINE events == db.streams[i].events \cup {seq}
  <2> HIDE DEF seq, events
  <2>4. [new EXCEPT !.streams[i].events = events]
          = [db EXCEPT !.streams = [@ EXCEPT ![i] =
              [db.streams[i] EXCEPT !.lastSeq = seq, !.events = events]]]
    <3>1. PICK o, p, s : db = [operations |-> o, approvals |-> p, streams |-> s]
      BY DEF Sound, Tables
    <3>2. db.streams = s /\ s \in Seq(Stream) /\ i \in DOMAIN s
      BY <3>1, <2>1 DEF Sound, Tables
    <3>3. [db EXCEPT !.streams[i].lastSeq = seq]
            = [operations |-> o, approvals |-> p,
               streams |-> [s EXCEPT ![i] = [s[i] EXCEPT !.lastSeq = seq]]]
      BY <3>1
    <3>4. [[s EXCEPT ![i] = [s[i] EXCEPT !.lastSeq = seq]] EXCEPT ![i].events = events]
            = [s EXCEPT ![i] = [s[i] EXCEPT !.lastSeq = seq, !.events = events]]
      BY <3>2
    <3>5. QED
      BY <3>1, <3>3, <3>4
  <2>5. [db EXCEPT !.streams = [@ EXCEPT ![i] = [db.streams[i] EXCEPT !.lastSeq = seq, !.events = events]]]
          = Numbered(db, i, seq)
    <3>1. PICK o, p, s : db = [operations |-> o, approvals |-> p, streams |-> s]
      BY DEF Sound, Tables
    <3>2. QED
      BY <3>1 DEF Numbered, events
  <2>6. [new EXCEPT !.streams[i].events = events] = Numbered(db, i, seq)
    BY <2>4, <2>5
  <2>7. [db EXCEPT !.streams[i].lastSeq = seq, !.streams[i].events = events] = Numbered(db, i, seq)
    BY <2>6
  <2>8. MAppendEvent(db, t, i) = Result(Numbered(db, i, seq), seq)
    BY <1>2, <2>3, <2>6 DEF MAppendEvent, seq, events
  <2>9. SAppendEvent(db, t, i) = Result(Numbered(db, i, seq), seq)
    BY <1>2, <2>7 DEF SAppendEvent, seq, events
  <2>10. PAppendEvent(db, t, i) = Result(Numbered(db, i, seq), seq)
    BY <1>2, <2>1, <2>3, <2>6 DEF PAppendEvent, seq, events
  <2>11. QED
    BY <2>2, <2>8, <2>9, <2>10 DEF Result, seq
<1>3. QED
  BY <1>1, <1>2

LEMMA ApprovalFound ==
  ASSUME NEW db, Sound(db), NEW t, NEW i, Yours(db, i, t)
  PROVE  /\ i \in DOMAIN db.approvals /\ db.approvals[i] \in Approval
         /\ db.approvals[i].of \in Accounts
         /\ db.operations[db.approvals[i].of] \in OperationStatus \cup {"none"}
         /\ db.approvals[i].status \in ApprovalStatus
<1>1. i \in DOMAIN db.approvals /\ db.approvals[i] \in Approval
  BY LenProperties DEF Yours, Sound, Tables
<1>2. db.approvals[i].of \in Accounts /\ db.approvals[i].status \in ApprovalStatus
  BY <1>1 DEF Approval
<1>3. QED
  BY <1>1, <1>2 DEF Sound, Tables

LEMMA SettledAsBefore ==
  ASSUME NEW db, Sound(db), NEW i \in DOMAIN db.approvals
  PROVE  Settled(db, i, db.approvals[i].status, db.operations[db.approvals[i].of]) = db
<1>1. PICK o, p, s : db = [operations |-> o, approvals |-> p, streams |-> s]
  BY DEF Sound, Tables
<1>2. /\ db.approvals = p /\ db.operations = o /\ db.streams = s
      /\ p \in Seq(Approval) /\ p[i] \in Approval
      /\ o \in [Accounts -> OperationStatus \cup {"none"}]
  BY <1>1, LenProperties DEF Sound, Tables
<1>3. [p[i] EXCEPT !.status = p[i].status] = p[i]
  BY <1>2 DEF Approval
<1>4. [p EXCEPT ![i] = p[i]] = p
  BY <1>2
<1>5. [o EXCEPT ![p[i].of] = o[p[i].of]] = o
  BY <1>2 DEF Approval
<1>6. QED
  BY <1>1, <1>2, <1>3, <1>4, <1>5 DEF Settled

(* What memory makes of the operation of an approval that is decided.      *)
Follows(db, i, approved, feedback) ==
  LET op == db.operations[db.approvals[i].of] IN
  IF ~approved /\ op \notin {"executed", "human_handoff"} THEN Refused(feedback) ELSE op

LEMMA MemoryClaims ==
  ASSUME NEW db, Sound(db), NEW t \in Tenants, NEW i, Yours(db, i, t), NEW approved \in BOOLEAN,
         NEW feedback \in Feedback
  PROVE  MClaim(db, t, i, approved, feedback)
           = IF Pending(db, i)
             THEN Decided(Settled(db, i, Verdict(approved), Follows(db, i, approved, feedback)), i, TRUE)
             ELSE Decided(db, i, FALSE)
<1> DEFINE of == db.approvals[i].of
           v == Verdict(approved)
           linked == ~approved /\ db.operations[of] \notin {"executed", "human_handoff"}
           m == IF linked THEN Refused(feedback) ELSE db.operations[of]
           ruled == [db EXCEPT !.approvals[i].status = v]
<1>1. PICK o, p, s : db = [operations |-> o, approvals |-> p, streams |-> s]
  BY DEF Sound, Tables
<1>2. MClaim(db, t, i, approved, feedback)
        = IF Pending(db, i)
          THEN Decided([db EXCEPT !.approvals[i].status = v, !.operations[of] = m], i, TRUE)
          ELSE Decided(db, i, FALSE)
  BY DEF MClaim
<1>3. m = Follows(db, i, approved, feedback)
  BY DEF Follows
<1> HIDE DEF v, m
<1> DEFINE q == [p EXCEPT ![i] = [p[i] EXCEPT !.status = v]]
<1>4. ruled = [operations |-> o, approvals |-> q, streams |-> s]
  BY <1>1
<1>5. db.operations = o /\ db.approvals = p /\ db.streams = s
  BY <1>1
<1>6. [ruled EXCEPT !.operations[of] = m] = Settled(db, i, v, m)
  <2> HIDE DEF q, ruled
  <2>1. [ruled EXCEPT !.operations[of] = m]
          = [operations |-> [o EXCEPT ![of] = m], approvals |-> q, streams |-> s]
    BY <1>4
  <2>2. QED
    BY <2>1, <1>5 DEF Settled, q
<1>7. [db EXCEPT !.approvals[i].status = v, !.operations[of] = m] = Settled(db, i, v, m)
  BY <1>6
<1>8. QED
  BY <1>2, <1>3, <1>7 DEF v

LEMMA ClaimCalls ==
  ASSUME NEW db, Sound(db), NEW t \in Tenants, NEW i, NEW approved \in BOOLEAN,
         NEW feedback \in Feedback
  PROVE  /\ Respects(t, db, MClaim(db, t, i, approved, feedback).db)
         /\ Respects(t, db, PClaim(db, t, i, approved, feedback).db)
         /\ SClaim(db, t, i, approved, feedback) = MClaim(db, t, i, approved, feedback)
         /\ ~ (/\ Links(db, t, i, approved)
               /\ db.operations[db.approvals[i].of] = "human_handoff"
               /\ feedback = "plain")
              => PClaim(db, t, i, approved, feedback) = MClaim(db, t, i, approved, feedback)
<1> DEFINE of == db.approvals[i].of
           op == db.operations[of]
           M == MClaim(db, t, i, approved, feedback)
           S == SClaim(db, t, i, approved, feedback)
           P == PClaim(db, t, i, approved, feedback)
<1>1. CASE ~Yours(db, i, t)
  BY <1>1, Unchanged DEF MClaim, SClaim, PClaim, Result, Links
<1>2. CASE Yours(db, i, t)
  <2>1. /\ i \in DOMAIN db.approvals /\ db.approvals[i] \in Approval
        /\ of \in Accounts /\ op \in OperationStatus \cup {"none"}
        /\ db.approvals[i].status \in ApprovalStatus
    BY <1>2, ApprovalFound
  <2>2. PICK o, p, s : db = [operations |-> o, approvals |-> p, streams |-> s]
    BY DEF Sound, Tables
  <2> DEFINE v == Verdict(approved)
             m == Follows(db, i, approved, feedback)
             w == IF Pending(db, i) THEN v ELSE db.approvals[i].status
             decided == [db EXCEPT !.approvals[i].status = w]
             x == IF approved \/ ~Pending(db, i) \/ op \in {"executed", "human_handoff"}
                  THEN decided.operations[of] ELSE Refused(feedback)
             ruled == [db EXCEPT !.approvals[i].status = v]
             y == IF approved \/ op = "executed" THEN ruled.operations[of] ELSE Refused(feedback)
  <2>3. M = IF Pending(db, i)
            THEN Decided(Settled(db, i, v, m), i, TRUE) ELSE Decided(db, i, FALSE)
    BY <1>2, MemoryClaims
  <2>4. m = IF ~approved /\ op \notin {"executed", "human_handoff"} THEN Refused(feedback) ELSE op
    BY DEF Follows
  <2>5. S = Decided([decided EXCEPT !.operations[of] = x], i, Pending(db, i))
    BY <1>2 DEF SClaim
  <2>6. P = IF ~Pending(db, i) THEN Decided(db, i, FALSE)
            ELSE Decided([ruled EXCEPT !.operations[of] = y], i, TRUE)
    BY <1>2 DEF PClaim
  <2>7. decided.operations = db.operations /\ ruled.operations = db.operations
    BY <2>2
  <2>8. m \in OperationStatus \cup {"none"} /\ y \in OperationStatus \cup {"none"}
        /\ v \in ApprovalStatus
    BY <2>1, <2>7, <2>4 DEF Verdict, Refused, ApprovalStatus, OperationStatus
  <2>9. /\ Pending(db, i) => w = v /\ x = m
        /\ ~Pending(db, i) => w = db.approvals[i].status /\ x = op
    BY <2>7, <2>4
  <2>10. ASSUME ~ (/\ Links(db, t, i, approved) /\ op = "human_handoff" /\ feedback = "plain"),
               Pending(db, i)
        PROVE  y = m
    <3>1. y = IF approved \/ op = "executed" THEN op ELSE Refused(feedback)
      BY <2>7
    <3> HIDE DEF y
    <3>2. approved \/ op # "human_handoff" \/ Refused(feedback) = "human_handoff"
      BY <1>2, <2>10 DEF Links, Refused
    <3>3. QED
      BY <3>1, <3>2, <2>4
  <2> HIDE DEF v, m, w, x, y
  <2> DEFINE before(st) == [operations |-> o, approvals |-> [p EXCEPT ![i] = [p[i] EXCEPT !.status = st]],
                            streams |-> s]
  <2>11. decided = before(w) /\ ruled = before(v)
    BY <2>2
  <2>12. db.operations = o /\ db.approvals = p /\ db.streams = s
    BY <2>2
  <2>13. [decided EXCEPT !.operations[of] = x] = Settled(db, i, w, x)
    <3> DEFINE q == [p EXCEPT ![i] = [p[i] EXCEPT !.status = w]]
    <3>1. decided = [operations |-> o, approvals |-> q, streams |-> s]
      BY <2>11
    <3> HIDE DEF q, decided
    <3>2. [decided EXCEPT !.operations[of] = x]
            = [operations |-> [o EXCEPT ![of] = x], approvals |-> q, streams |-> s]
      BY <3>1
    <3>3. QED
      BY <3>2, <2>12 DEF Settled, q
  <2>14. [ruled EXCEPT !.operations[of] = y] = Settled(db, i, v, y)
    <3> DEFINE q == [p EXCEPT ![i] = [p[i] EXCEPT !.status = v]]
    <3>1. ruled = [operations |-> o, approvals |-> q, streams |-> s]
      BY <2>11
    <3> HIDE DEF q, ruled
    <3>2. [ruled EXCEPT !.operations[of] = y]
            = [operations |-> [o EXCEPT ![of] = y], approvals |-> q, streams |-> s]
      BY <3>1
    <3>3. QED
      BY <3>2, <2>12 DEF Settled, q
  <2> HIDE DEF decided, ruled
  <2>15. /\ Respects(t, db, Settled(db, i, v, m)) /\ Respects(t, db, Settled(db, i, v, y))
         /\ Settled(db, i, db.approvals[i].status, op) = db
    BY <1>2, <2>1, <2>8, DecisionMade, SettledAsBefore
  <2>16. CASE Pending(db, i)
    <3>1. M = Decided(Settled(db, i, v, m), i, TRUE) /\ S = Decided(Settled(db, i, v, m), i, TRUE)
      BY <2>3, <2>5, <2>9, <2>13, <2>16
    <3>2. P = Decided(Settled(db, i, v, y), i, TRUE)
      BY <2>6, <2>14, <2>16
    <3>3. Respects(t, db, M.db) /\ Respects(t, db, P.db) /\ S = M
      BY <3>1, <3>2, <2>15 DEF Decided
    <3>4. ~ (Links(db, t, i, approved) /\ op = "human_handoff" /\ feedback = "plain") => P = M
      BY <3>1, <3>2, <2>10, <2>16
    <3>5. QED
      BY <3>3, <3>4
  <2>17. CASE ~Pending(db, i)
    <3>1. M = Decided(db, i, FALSE) /\ P = Decided(db, i, FALSE)
      BY <2>3, <2>6, <2>17
    <3>2. S = Decided(db, i, FALSE)
      <4>1. Pending(db, i) = FALSE
        BY <2>17 DEF Pending
      <4>2. QED
        BY <4>1, <2>5, <2>9, <2>13, <2>15
    <3>3. Decided(db, i, FALSE).db = db
      BY DEF Decided
    <3>4. QED
      BY <3>1, <3>2, <3>3, Unchanged
  <2>18. QED
    BY <2>16, <2>17
<1>3. QED
  BY <1>1, <1>2

LEMMA DecideCalls ==
  ASSUME NEW db, Sound(db), NEW t \in Tenants, NEW i, NEW approved \in BOOLEAN,
         NEW feedback \in Feedback
  PROVE  /\ Respects(t, db, MDecide(db, t, i, approved, feedback).db)
         /\ Respects(t, db, PDecide(db, t, i, approved).db)
         /\ SDecide(db, t, i, approved, feedback) = MDecide(db, t, i, approved, feedback)
         /\ ~ (/\ Links(db, t, i, approved)
               /\ db.operations[db.approvals[i].of]
                    \notin {"executed", "human_handoff", Refused(feedback)})
              => PDecide(db, t, i, approved) = MDecide(db, t, i, approved, feedback)
<1> DEFINE of == db.approvals[i].of
           op == db.operations[of]
           M == MClaim(db, t, i, approved, feedback)
<1>1. Respects(t, db, M.db) /\ SClaim(db, t, i, approved, feedback) = M
  BY ClaimCalls
<1>2. /\ Respects(t, db, MDecide(db, t, i, approved, feedback).db)
      /\ SDecide(db, t, i, approved, feedback) = MDecide(db, t, i, approved, feedback)
  BY <1>1 DEF MDecide, SDecide, Result
<1>3. CASE ~Yours(db, i, t)
  <2>1. M = Result(db, "404")
    BY <1>3 DEF MClaim
  <2>2. MDecide(db, t, i, approved, feedback) = Result(db, "404")
    BY <2>1 DEF MDecide, Result
  <2>3. PDecide(db, t, i, approved) = Result(db, "404")
    BY <1>3 DEF PDecide
  <2>4. QED
    BY <1>2, <2>2, <2>3, Unchanged DEF Result
<1>4. CASE Yours(db, i, t)
  <2>1. /\ i \in DOMAIN db.approvals /\ db.approvals[i] \in Approval
        /\ of \in Accounts /\ op \in OperationStatus \cup {"none"}
        /\ db.approvals[i].status \in ApprovalStatus
    BY <1>4, ApprovalFound
  <2> DEFINE v == Verdict(approved)
             w == IF db.approvals[i].status = "pending" THEN v ELSE db.approvals[i].status
             new == [db EXCEPT !.approvals[i].status = w]
  <2>2. PDecide(db, t, i, approved) = Result(new, new.approvals[i].status)
    BY <1>4 DEF PDecide
  <2>3. w \in ApprovalStatus
    BY <2>1 DEF Verdict, ApprovalStatus
  <2>4. Pending(db, i) => w = v
    BY DEF Pending
  <2>5. ~Pending(db, i) => w = db.approvals[i].status
    BY DEF Pending
  <2> HIDE DEF v, w
  <2>6. new = Settled(db, i, w, op)
    <3>1. PICK o, p, s : db = [operations |-> o, approvals |-> p, streams |-> s]
      BY DEF Sound, Tables
    <3>2. [o EXCEPT ![of] = o[of]] = o
      BY <3>1, <2>1 DEF Sound, Tables
    <3>3. new = [operations |-> o, approvals |-> [p EXCEPT ![i] = [p[i] EXCEPT !.status = w]],
                 streams |-> s]
      BY <3>1
    <3>4. QED
      BY <3>1, <3>2, <3>3 DEF Settled
  <2> HIDE DEF new
  <2>7. Respects(t, db, new)
    BY <1>4, <2>1, <2>3, <2>6, DecisionMade
  <2>8. Settled(db, i, db.approvals[i].status, op) = db
    BY <2>1, SettledAsBefore
  <2>9. M = IF Pending(db, i)
            THEN Decided(Settled(db, i, v, Follows(db, i, approved, feedback)), i, TRUE)
            ELSE Decided(db, i, FALSE)
    BY <1>4, MemoryClaims DEF v
  <2>10. ASSUME ~ (Links(db, t, i, approved) /\ op \notin {"executed", "human_handoff", Refused(feedback)})
         PROVE  PDecide(db, t, i, approved) = MDecide(db, t, i, approved, feedback)
    <3>1. M.db = new
      <4>1. CASE Pending(db, i)
        <5>1. Follows(db, i, approved, feedback) = op
          BY <1>4, <2>10, <4>1 DEF Follows, Links
        <5>2. QED
          BY <4>1, <5>1, <2>4, <2>6, <2>9 DEF Decided
      <4>2. CASE ~Pending(db, i)
        BY <4>2, <2>5, <2>6, <2>8, <2>9 DEF Decided
      <4>3. QED
        BY <4>1, <4>2
    <3>2. M.answer.value = M.db.approvals[i].status
      BY <2>9 DEF Decided
    <3>3. M.db.approvals[i].status \in ApprovalStatus
      <4>1. M.db.approvals \in Seq(Approval) /\ i \in DOMAIN M.db.approvals
        BY <3>1, <2>1, <2>6, <2>7 DEF Settled, Respects, Sound, Tables
      <4>2. M.db.approvals[i] \in Approval
        BY <4>1, LenProperties
      <4>3. QED
        BY <4>2 DEF Approval
    <3>4. M.answer.value # "404"
      BY <3>2, <3>3 DEF ApprovalStatus
    <3>5. QED
      BY <2>2, <3>1, <3>4 DEF MDecide
  <2>11. QED
    BY <1>2, <2>2, <2>7, <2>10 DEF Result
<1>5. QED
  BY <1>2, <1>3, <1>4

-----------------------------------------------------------------------------
(* The steps.                                                              *)
Reasons == {"second approval", "refused after handover", "refused without claim", "second stream"}

(* A step by t leaves everybody else's rows as they are.                   *)
Apart(t) ==
  \A u \in Tenants \ {t} :
    /\ Rows(memory', u) = Rows(memory, u)
    /\ Rows(sqlite', u) = Rows(sqlite, u)
    /\ Rows(postgres', u) = Rows(postgres, u)

LEMMA CalledOnAll ==
  ASSUME BackendInv, NEW t, NEW m, NEW s, NEW p, NEW why \in SUBSET Reasons,
         OnAll(m, s, p, why), s = m,
         Respects(t, memory, m.db), Respects(t, postgres, p.db),
         parted = {} /\ why = {} => p = m
  PROVE  BackendInv' /\ Apart(t)
<1>1. /\ memory' = m.db /\ sqlite' = m.db /\ postgres' = p.db
      /\ answers' = [memory |-> m.answer, sqlite |-> m.answer, postgres |-> p.answer]
      /\ parted' = parted \cup why /\ area' = area
  BY DEF OnAll
<1>2. BackendTypeOK'
  BY <1>1 DEF BackendInv, BackendTypeOK, Respects, Sound, Reasons
<1>3. StoresAgree'
  BY <1>1 DEF StoresAgree, SqliteLikeMemory, PostgresAlike
<1>4. Apart(t)
  BY <1>1 DEF Apart, Respects, BackendInv, StoresAgree, SqliteLikeMemory
<1>5. QED
  BY <1>2, <1>3, <1>4 DEF BackendInv

LEMMA StoresSound ==
  ASSUME BackendInv
  PROVE  /\ Sound(memory) /\ Sound(postgres) /\ sqlite = memory
         /\ parted = {} => postgres = memory
BY DEF BackendInv, BackendTypeOK, Sound, StoresAgree, SqliteLikeMemory, PostgresAlike

LEMMA Reason ==
  ASSUME NEW why \in Reasons, NEW condition \in BOOLEAN
  PROVE  /\ When(why, condition) \in SUBSET Reasons
         /\ When(why, condition) = {} <=> ~condition
BY DEF When

LEMMA CallStep ==
  ASSUME BackendInv, NEW t \in Tenants, By(t)
  PROVE  BackendInv' /\ Apart(t)
<1>1. /\ Sound(memory) /\ Sound(postgres) /\ sqlite = memory
      /\ parted = {} => postgres = memory
  BY StoresSound
<1>2. ASSUME NEW k \in Keys, CreateOperation(t, k) PROVE BackendInv' /\ Apart(t)
  BY <1>1, <1>2, CreateOperationCalls, CalledOnAll DEF CreateOperation
<1>3. ASSUME NEW k \in Keys, NEW s \in OperationStatus, SetOperation(t, k, s)
      PROVE  BackendInv' /\ Apart(t)
  BY <1>1, <1>3, SetOperationCalls, CalledOnAll DEF SetOperation
<1>4. ASSUME NEW k \in Keys, CreateApproval(t, k) PROVE BackendInv' /\ Apart(t)
  <2> DEFINE again == \E i \in DOMAIN memory.approvals : memory.approvals[i].of = <<t, k>>
             why == When("second approval", again)
  <2>1. why \in SUBSET Reasons /\ (why = {} <=> ~again)
    BY Reason DEF Reasons
  <2>2. OnAll(MCreateApproval(memory, <<t, k>>), SCreateApproval(sqlite, <<t, k>>),
              PCreateApproval(postgres, <<t, k>>), why)
    BY <1>4 DEF CreateApproval
  <2> HIDE DEF why
  <2>3. QED
    BY <1>1, <2>1, <2>2, CreateApprovalCalls, CalledOnAll
<1>5. ASSUME NEW i \in Approvals, NEW approved \in BOOLEAN, NEW feedback \in Feedback,
             ClaimDecision(t, i, approved, feedback)
      PROVE  BackendInv' /\ Apart(t)
  <2> DEFINE late == /\ Links(memory, t, i, approved)
                     /\ memory.operations[memory.approvals[i].of] = "human_handoff"
                     /\ feedback = "plain"
             why == When("refused after handover", late)
  <2>1. why \in SUBSET Reasons /\ (why = {} <=> ~late)
    BY Reason DEF Reasons
  <2>2. OnAll(MClaim(memory, t, i, approved, feedback), SClaim(sqlite, t, i, approved, feedback),
              PClaim(postgres, t, i, approved, feedback), why)
    BY <1>5 DEF ClaimDecision
  <2>3. ~late => PClaim(memory, t, i, approved, feedback) = MClaim(memory, t, i, approved, feedback)
    BY <1>1, ClaimCalls
  <2> HIDE DEF why, late
  <2>4. /\ Respects(t, memory, MClaim(memory, t, i, approved, feedback).db)
        /\ Respects(t, postgres, PClaim(postgres, t, i, approved, feedback).db)
        /\ SClaim(sqlite, t, i, approved, feedback) = MClaim(memory, t, i, approved, feedback)
    BY <1>1, ClaimCalls
  <2>5. parted = {} /\ why = {}
          => PClaim(postgres, t, i, approved, feedback) = MClaim(memory, t, i, approved, feedback)
    BY <1>1, <2>1, <2>3
  <2>6. QED
    BY <2>1, <2>2, <2>4, <2>5, CalledOnAll
<1>6. ASSUME NEW i \in Approvals, NEW approved \in BOOLEAN, NEW feedback \in Feedback,
             Decide(t, i, approved, feedback)
      PROVE  BackendInv' /\ Apart(t)
  <2> DEFINE late == /\ Links(memory, t, i, approved)
                     /\ memory.operations[memory.approvals[i].of]
                          \notin {"executed", "human_handoff", Refused(feedback)}
             why == When("refused without claim", late)
  <2>1. why \in SUBSET Reasons /\ (why = {} <=> ~late)
    BY Reason DEF Reasons
  <2>2. OnAll(MDecide(memory, t, i, approved, feedback), SDecide(sqlite, t, i, approved, feedback),
              PDecide(postgres, t, i, approved), why)
    BY <1>6 DEF Decide
  <2>3. ~late => PDecide(memory, t, i, approved) = MDecide(memory, t, i, approved, feedback)
    BY <1>1, DecideCalls
  <2> HIDE DEF why, late
  <2>4. /\ Respects(t, memory, MDecide(memory, t, i, approved, feedback).db)
        /\ Respects(t, postgres, PDecide(postgres, t, i, approved).db)
        /\ SDecide(sqlite, t, i, approved, feedback) = MDecide(memory, t, i, approved, feedback)
    BY <1>1, DecideCalls
  <2>5. parted = {} /\ why = {}
          => PDecide(postgres, t, i, approved) = MDecide(memory, t, i, approved, feedback)
    BY <1>1, <2>1, <2>3
  <2>6. QED
    BY <2>1, <2>2, <2>4, <2>5, CalledOnAll
<1>7. CASE Expire(t)
  BY <1>1, <1>7, ExpireCalls, CalledOnAll DEF Expire
<1>8. ASSUME NEW r \in Requests, CreateStream(t, r) PROVE BackendInv' /\ Apart(t)
  <2> DEFINE again == Find(memory, t, r) # {}
             why == When("second stream", again)
  <2>1. why \in SUBSET Reasons /\ (why = {} <=> ~again)
    BY Reason DEF Reasons
  <2>2. OnAll(MCreateStream(memory, t, r), SCreateStream(sqlite, t, r),
              PCreateStream(postgres, t, r), why)
    BY <1>8 DEF CreateStream
  <2> HIDE DEF why
  <2>3. QED
    BY <1>1, <2>1, <2>2, CreateStreamCalls, CalledOnAll
<1>9. ASSUME NEW i \in Streams, AppendEvent(t, i) PROVE BackendInv' /\ Apart(t)
  BY <1>1, <1>9, AppendEventCalls, CalledOnAll DEF AppendEvent
<1>10. ASSUME NEW i \in Streams, NEW n \in 0..MaxEvents, EventsAfter(t, i, n)
       PROVE  BackendInv' /\ Apart(t)
  BY <1>1, <1>10, EventsAfterCalls, CalledOnAll DEF EventsAfter
<1>11. QED
  BY <1>2, <1>3, <1>4, <1>5, <1>6, <1>7, <1>8, <1>9, <1>10 DEF By

LEMMA TimeStep ==
  ASSUME BackendInv, TimePasses
  PROVE  BackendInv' /\ \A t : Apart(t)
<1>1. /\ Sound(memory) /\ Sound(postgres) /\ sqlite = memory
      /\ parted = {} => postgres = memory
  BY StoresSound
<1>2. /\ Sound(memory') /\ Sound(postgres') /\ sqlite' = memory'
      /\ parted' = {} => postgres' = memory'
  BY <1>1, AgedSound DEF TimePasses
<1>3. BackendInv'
  <2>1. BackendTypeOK'
    <3>1. area' = area /\ parted' = parted
      BY DEF TimePasses
    <3>2. \A db \in {memory', sqlite', postgres'} : Sound(db)
      BY <1>2
    <3>3. QED
      BY <3>1, <3>2 DEF BackendInv, BackendTypeOK, Sound
  <2>2. StoresAgree'
    BY <1>2 DEF BackendInv, StoresAgree, SqliteLikeMemory, PostgresAlike, TimePasses
  <2>3. QED
    BY <2>1, <2>2 DEF BackendInv
<1>4. \A t : Apart(t)
  BY <1>1, AgedSound DEF Apart, TimePasses
<1>5. QED
  BY <1>3, <1>4

LEMMA NoRows == Sound(Empty)
<1>1. Empty.operations \in [Accounts -> OperationStatus \cup {"none"}]
  BY DEF Empty
<1>2. QED
  BY <1>1 DEF Empty, Sound, Tables

LEMMA BackendInductive == BackendSpec => []BackendInv
<1>1. BackendInit => BackendInv
  BY NoRows DEF BackendInit, BackendInv, BackendTypeOK, Sound, StoresAgree, SqliteLikeMemory, PostgresAlike
<1>2. BackendInv /\ [BackendNext]_backendVars => BackendInv'
  <2>1. CASE UNCHANGED backendVars
    BY <2>1 DEF backendVars, BackendInv, BackendTypeOK, StoresAgree, SqliteLikeMemory, PostgresAlike
  <2>2. QED
    BY <2>1, CallStep, TimeStep DEF BackendNext
<1>3. QED
  BY <1>1, <1>2, PTL DEF BackendSpec

(* Every store keeps its tables in their type, and numbers the events of a *)
(* stream without a gap, whatever sequence of calls it serves.             *)
THEOREM BackendTypes == BackendSpec => []BackendTypeOK
BY BackendInductive, PTL DEF BackendInv

(* SqliteStore holds and answers what MemoryStore does, and so does        *)
(* PostgresStore as long as none of the four calls was made on which its   *)
(* statements differ.                                                      *)
THEOREM StoresAlike == BackendSpec => []StoresAgree
BY BackendInductive, PTL DEF BackendInv

(* No call made under one tenant changes a row of another, in any store.   *)
THEOREM TenantsKeptApart == BackendSpec => TenantsApart
<1>1. BackendInv /\ [BackendNext]_backendVars
        => [\A t \in Tenants \ {caller'} :
              /\ Rows(memory', t) = Rows(memory, t)
              /\ Rows(sqlite', t) = Rows(sqlite, t)
              /\ Rows(postgres', t) = Rows(postgres, t)]_<<memory, sqlite, postgres, caller>>
  <2>1. CASE UNCHANGED backendVars
    BY <2>1 DEF backendVars
  <2>2. ASSUME BackendInv, NEW t \in Tenants, caller' = t, By(t) PROVE Apart(caller')
    BY <2>2, CallStep
  <2>3. ASSUME BackendInv, TimePasses PROVE Apart(caller')
    BY <2>3, TimeStep
  <2>4. QED
    BY <2>1, <2>2, <2>3 DEF BackendNext, Apart
<1>2. QED
  BY <1>1, BackendInductive, PTL DEF BackendSpec, TenantsApart
=============================================================================
