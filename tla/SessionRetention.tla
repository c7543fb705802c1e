---------------------------- MODULE SessionRetention ----------------------------
(***************************************************************************)
(* How long a conversation is kept: its session, its checkpoint scope and  *)
(* its checkpoints, the graph runs that use them and the clean-up that     *)
(* removes them (src/infrastructure/session_retention.py, checkpointer.py, *)
(* postgres_store.py, src/service/chat.py).                                *)
(*                                                                         *)
(* Session and scope carry an expiry each.  They are kept as relations:    *)
(* due, the scope's has passed; and for the session, whether its expiry is *)
(* the scope's, is later, or has passed too.  A run takes seconds and the  *)
(* time to live is days, so an expiry that a run in flight has slid does   *)
(* not pass before the run ends.                                           *)
(***************************************************************************)
EXTENDS Naturals

CONSTANTS
  Chats,          \* thread ids; each is generated once
  Runners,        \* API handlers that run the graph
  Cleaners,       \* clean-up tasks
  NoChat,
  DeleteFails,    \* the database may fail a deletion
  TasksDie        \* a clean-up may die half-way

ASSUME NoChatAssumption == NoChat \notin Chats
ASSUME FlagsAssumption == DeleteFails \in BOOLEAN /\ TasksDie \in BOOLEAN

VARIABLES
  session,     \* sessions: the row's expiry against the scope's
  scope,       \* checkpoint_thread_scopes.status
  due,         \* scopes whose expires_at has passed
  ckpt,        \* threads with checkpoints
  runner, cleaner,
  overlapped,  \* threads that were claimed under a run let in before (history)
  failed,      \* threads whose clean-up has recorded a failure (history)
  saver,       \* the clean-up is given a checkpointer; never changes
  sees         \* its claims run as a role that bypasses RLS; never changes

retentionVars == <<session, scope, due, ckpt, runner, cleaner, overlapped, failed,
          saver, sees>>
aside == <<overlapped, failed, saver, sees>>

SessionRow == {"unborn", "fresh", "ahead", "expired", "gone"}
HasSession(c) == session[c] \in {"fresh", "ahead", "expired"}
ScopeStatus == {"none", "active", "deleting"}
Run == [pc: {"idle", "touch", "readSession", "readScope", "slide", "graph"},
        chat: Chats \cup {NoChat}, touched: BOOLEAN]
Cleanup == [pc: {"idle", "delete", "finish", "recordFailure"},
            chat: Chats \cup {NoChat}, todo: SUBSET Chats]

NoRunner == [pc |-> "idle", chat |-> NoChat, touched |-> FALSE]
NoCleanup == [pc |-> "idle", chat |-> NoChat, todo |-> {}]

RetentionInit ==
  /\ session = [c \in Chats |-> "unborn"]
  /\ scope = [c \in Chats |-> "none"]
  /\ due = {}
  /\ ckpt = {}
  /\ runner = [p \in Runners |-> NoRunner]
  /\ cleaner = [k \in Cleaners |-> NoCleanup]
  /\ overlapped = {}
  /\ failed = {}
  /\ saver \in BOOLEAN /\ sees \in BOOLEAN

-----------------------------------------------------------------------------
(* Session and scope are born in one transaction.                          *)
CreateSession(c) ==
  /\ session[c] = "unborn"
  /\ session' = [session EXCEPT ![c] = "fresh"]
  /\ scope' = [scope EXCEPT ![c] = "active"]
  /\ UNCHANGED <<due, ckpt, runner, cleaner, aside>>

(* Time passes: the scope expires, and with it a session of equal expiry.  *)
Lapse(c) ==
  /\ scope[c] = "active" /\ c \notin due
  /\ \A p \in Runners : runner[p].pc = "graph" => runner[p].chat # c
  /\ due' = due \cup {c}
  /\ session' = [session EXCEPT ![c] = IF @ = "fresh" THEN "expired" ELSE @]
  /\ UNCHANGED <<scope, ckpt, runner, cleaner, aside>>

(* A session that was slid further than its scope expires later.           *)
LapseAhead(c) ==
  /\ session[c] = "ahead" /\ c \in due
  /\ \A p \in Runners :
       runner[p].chat = c => runner[p].pc # "graph" /\ ~runner[p].touched
  /\ session' = [session EXCEPT ![c] = "expired"]
  /\ UNCHANGED <<scope, due, ckpt, runner, cleaner, aside>>

-----------------------------------------------------------------------------
(* A run of the graph, from validate_session_owner to the last checkpoint. *)
RunAt(p, pc) == runner[p].pc = pc
Chat(p) == runner[p].chat
RunTo(p, pc) == runner' = [runner EXCEPT ![p].pc = pc]
Leave(p) == runner' = [runner EXCEPT ![p] = NoRunner]

(* An expired session is refused.  A chat touches the session first; a     *)
(* resumed approval or a history read does not.                            *)
StartRun(p, c) ==
  /\ RunAt(p, "idle")
  /\ session[c] \in {"fresh", "ahead"}
  /\ \E pc \in {"touch", "readSession"} :
       runner' = [runner EXCEPT ![p] = [pc |-> pc, chat |-> c, touched |-> FALSE]]
  /\ UNCHANGED <<session, scope, due, ckpt, cleaner, aside>>

(* touch_session slides the session, in a transaction without the scope.   *)
Touch(p) ==
  /\ RunAt(p, "touch")
  /\ IF HasSession(Chat(p))
       THEN /\ session' = [session EXCEPT ![Chat(p)] = "ahead"]
            /\ runner' = [runner EXCEPT ![p] =
                            [pc |-> "readSession", chat |-> Chat(p), touched |-> TRUE]]
       ELSE Leave(p) /\ UNCHANGED session
  /\ UNCHANGED <<scope, due, ckpt, cleaner, aside>>

(* authorize_checkpoint_access: three transactions.                        *)
ReadSession(p) ==
  /\ RunAt(p, "readSession")
  /\ IF HasSession(Chat(p)) THEN RunTo(p, "readScope") ELSE Leave(p)
  /\ UNCHANGED <<session, scope, due, ckpt, cleaner, aside>>

(* Mutant: a scope that is being deleted is good enough.                   *)
ReadScope_AnyStatus(p) ==
  /\ RunAt(p, "readScope")
  /\ IF scope[Chat(p)] # "none" THEN RunTo(p, "slide") ELSE Leave(p)
  /\ UNCHANGED <<session, scope, due, ckpt, cleaner, aside>>

ReadScope(p) ==
  /\ RunAt(p, "readScope")
  /\ IF scope[Chat(p)] = "active" THEN RunTo(p, "slide") ELSE Leave(p)
  /\ UNCHANGED <<session, scope, due, ckpt, cleaner, aside>>

(* Both expiries slide, the scope's if it is still active; that neither    *)
(* update may have found its row is not looked at.                         *)
Slide(p) ==
  LET c == Chat(p)
      renewed == scope[c] = "active"
  IN
  /\ RunAt(p, "slide")
  /\ session' = [session EXCEPT ![c] =
                   IF ~HasSession(c) THEN @ ELSE IF renewed THEN "fresh" ELSE "ahead"]
  /\ due' = IF renewed THEN due \ {c} ELSE due
  /\ RunTo(p, "graph")
  /\ UNCHANGED <<scope, ckpt, cleaner, aside>>

(* The row level policy lets a checkpoint in if the thread has a scope row *)
(* of the tenant, whatever its status.                                     *)
Admits(c) == scope[c] # "none"

(* The checkpointer works for the thread of the request's context only,    *)
(* which is set while the graph runs.                                      *)
InContext(p) == RunAt(p, "graph")

(* aput, aput_writes: a write the policy does not let in raises.           *)
SaveCheckpoint(p) ==
  /\ InContext(p)
  /\ IF Admits(Chat(p))
       THEN ckpt' = ckpt \cup {Chat(p)} /\ UNCHANGED runner
       ELSE Leave(p) /\ UNCHANGED ckpt
  /\ UNCHANGED <<session, scope, due, cleaner, aside>>

(* The run is over, or its handler dies at any point.                      *)
EndRun(p) ==
  /\ ~RunAt(p, "idle")
  /\ Leave(p)
  /\ UNCHANGED <<session, scope, due, ckpt, cleaner, aside>>

-----------------------------------------------------------------------------
(* cleanup_expired_threads.                                                *)
CleanAt(k, pc) == cleaner[k].pc = pc
Cleaned(k) == cleaner[k].chat
Holds(k) == cleaner[k].todo \cup ({Cleaned(k)} \ {NoChat})
CleanTo(k, pc) == cleaner' = [cleaner EXCEPT ![k].pc = pc]

(* The candidate that follows in the batch, in any order.                  *)
Proceed(k, batch) ==
  \/ batch = {} /\ cleaner' = [cleaner EXCEPT ![k] = NoCleanup]
  \/ \E c \in batch :
       cleaner' = [cleaner EXCEPT ![k] =
                     [pc |-> "delete", chat |-> c, todo |-> batch \ {c}]]

(* Runs that have passed the test of the scope's status.                   *)
LetIn(c) == \E p \in Runners : Chat(p) = c /\ runner[p].pc \in {"slide", "graph"}

(* Mutant: what an earlier task left in deleting is claimed again.         *)
Claim_Deleting(k) ==
  /\ saver
  /\ CleanAt(k, "idle")
  /\ \E batch \in SUBSET {c \in due : sees /\ scope[c] # "none"} \ {{}} :
       /\ scope' = [c \in Chats |-> IF c \in batch THEN "deleting" ELSE scope[c]]
       /\ overlapped' = overlapped \cup {c \in batch : LetIn(c)}
       /\ Proceed(k, batch)
  /\ UNCHANGED <<session, due, ckpt, runner, failed, saver, sees>>

(* Whoever calls the clean-up gives it a checkpointer.  The task of the    *)
(* worker, cleanup_expired_sessions, ends where its own store has none.    *)
TaskRuns == saver

(* The scopes of all tenants are in reach of a system engine only: under   *)
(* row level security the store's own role, which no tenant is set for,    *)
(* is shown none.                                                          *)
Visible(c) == sees

(* claim_expired_scopes_for_cleanup: some of the active scopes that are    *)
(* due, in one statement.                                                  *)
Claim(k) ==
  /\ TaskRuns
  /\ CleanAt(k, "idle")
  /\ \E batch \in SUBSET {c \in due : Visible(c) /\ scope[c] = "active"} \ {{}} :
       /\ scope' = [c \in Chats |-> IF c \in batch THEN "deleting" ELSE scope[c]]
       /\ overlapped' = overlapped \cup {c \in batch : LetIn(c)}
       /\ Proceed(k, batch)
  /\ UNCHANGED <<session, due, ckpt, runner, failed, saver, sees>>

(* Bound: the clean-up of a thread fails once.                             *)
MayFail(k) == DeleteFails /\ Cleaned(k) \notin failed

(* adelete_thread, one transaction.                                        *)
DeleteThread(k) ==
  /\ CleanAt(k, "delete")
  /\ \/ ckpt' = ckpt \ {Cleaned(k)} /\ CleanTo(k, "finish")
     \/ MayFail(k) /\ CleanTo(k, "recordFailure") /\ UNCHANGED ckpt
  /\ UNCHANGED <<session, scope, due, runner, aside>>

(* finish_cleanup_scope: session and scope go together, and with the       *)
(* session everything that refers to it.                                   *)
FinishScope(k) ==
  LET c == Cleaned(k) IN
  /\ CleanAt(k, "finish")
  /\ \/ /\ session' = [session EXCEPT ![c] = "gone"]
        /\ scope' = [scope EXCEPT ![c] = "none"]
        /\ due' = due \ {c}
        /\ Proceed(k, cleaner[k].todo)
     \/ /\ MayFail(k)
        /\ CleanTo(k, "recordFailure")
        /\ UNCHANGED <<session, scope, due>>
  /\ UNCHANGED <<ckpt, runner, aside>>

(* record_cleanup_failure leaves the scope in deleting; nothing reads the  *)
(* attempts it counts.                                                     *)
RecordFailure(k) ==
  /\ CleanAt(k, "recordFailure")
  /\ failed' = failed \cup {Cleaned(k)}
  /\ Proceed(k, cleaner[k].todo)
  /\ UNCHANGED <<session, scope, due, ckpt, runner, overlapped, saver, sees>>

(* The task dies; acks_late has it delivered again, to claim from scratch. *)
CrashCleaner(k) ==
  /\ TasksDie
  /\ ~CleanAt(k, "idle")
  /\ cleaner' = [cleaner EXCEPT ![k] = NoCleanup]
  /\ UNCHANGED <<session, scope, due, ckpt, runner, aside>>

-----------------------------------------------------------------------------
CleanerStep(k) == DeleteThread(k) \/ FinishScope(k) \/ RecordFailure(k)
RunStep(p) ==
  \/ Touch(p) \/ ReadSession(p) \/ ReadScope(p) \/ Slide(p)
  \/ SaveCheckpoint(p) \/ EndRun(p)

RetentionNext ==
  \/ \E c \in Chats : CreateSession(c) \/ Lapse(c) \/ LapseAhead(c)
  \/ \E p \in Runners : RunStep(p)
  \/ \E p \in Runners, c \in Chats : StartRun(p, c)
  \/ \E k \in Cleaners : Claim(k) \/ CleanerStep(k) \/ CrashCleaner(k)

RetentionSpec == RetentionInit /\ [][RetentionNext]_retentionVars

-----------------------------------------------------------------------------
(* Every variable stays in its type; a session and its scope are there     *)
(* together, and a thread a clean-up works on is being deleted.            *)
RetentionTypeOK ==
  /\ session \in [Chats -> SessionRow]
  /\ scope \in [Chats -> ScopeStatus]
  /\ due \subseteq Chats /\ ckpt \subseteq Chats
  /\ overlapped \subseteq Chats /\ failed \subseteq Chats
  /\ runner \in [Runners -> Run]
  /\ cleaner \in [Cleaners -> Cleanup]
  /\ saver \in BOOLEAN /\ sees \in BOOLEAN
  /\ \A c \in Chats : HasSession(c) <=> scope[c] # "none"

(* Two clean-up tasks never work on the same thread, so neither deletes    *)
(* what the other has finished with, nor reports its failure.              *)
OneCleaner ==
  \A j, k \in Cleaners : j # k => Holds(j) \cap Holds(k) = {}

(* Checkpoints outlive their scope, where neither a tenant nor a clean-up  *)
(* can see them any more, only if the claim met a run that had already     *)
(* been let in: marking a scope deleting blocks every run after it.        *)
OrphanOnlyByOverlap ==
  \A c \in ckpt : scope[c] = "none" => c \in overlapped

(* What session_retention.py says of a failure: the scope stays deleting   *)
(* and the next round takes it up again.                                   *)
FailedRetried ==
  saver /\ sees => \A c \in Chats : c \in failed ~> scope[c] = "none"
=============================================================================
