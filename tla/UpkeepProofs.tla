----------------------------- MODULE UpkeepProofs -----------------------------
(***************************************************************************)
(* Theorems of the two modules about keeping the service in place.         *)
(* SessionRetention: for any conversations, API handlers and clean-up      *)
(* tasks, with or without failing deletions.  Deployment: for any          *)
(* processes, operators, configurations and lists of tenants.              *)
(***************************************************************************)
EXTENDS SessionRetention, Deployment, SequenceTheorems, WellFoundedInduction, TLAPS

-----------------------------------------------------------------------------
(* SessionRetention.                                                       *)

(* What a clean-up task holds is being deleted, and once it has deleted    *)
(* the checkpoints of a thread, they come back only under an overlap.      *)
HeldInv ==
  \A k \in Cleaners :
    /\ cleaner[k].pc = "idle" => cleaner[k] = NoCleanup
    /\ cleaner[k].pc # "idle" => Cleaned(k) \in Chats /\ Cleaned(k) \notin cleaner[k].todo
    /\ \A c \in Holds(k) : scope[c] = "deleting"
    /\ cleaner[k].pc = "finish" /\ Cleaned(k) \in ckpt => Cleaned(k) \in overlapped

(* A run that was let in and now meets a deletion was there before it.     *)
EntryInv ==
  \A p \in Runners :
    /\ runner[p].pc # "idle" => Chat(p) \in Chats
    /\ runner[p].pc \in {"slide", "graph"} /\ scope[Chat(p)] = "deleting" =>
         Chat(p) \in overlapped

RetentionInv == RetentionTypeOK /\ HeldInv /\ EntryInv /\ OneCleaner /\ OrphanOnlyByOverlap

LEMMA RetentionInitInv == RetentionInit => RetentionInv
<1> SUFFICES ASSUME RetentionInit PROVE RetentionInv
  OBVIOUS
<1>1. NoRunner \in Run /\ NoCleanup \in Cleanup
  BY DEF NoRunner, Run, NoCleanup, Cleanup
<1>2. RetentionTypeOK
  BY <1>1 DEF RetentionInit, RetentionTypeOK, SessionRow, ScopeStatus, HasSession
<1>3. \A k \in Cleaners : cleaner[k] = NoCleanup /\ Holds(k) = {}
  BY DEF RetentionInit, NoCleanup, Holds, Cleaned
<1>4. HeldInv /\ OneCleaner
  BY <1>3 DEF HeldInv, OneCleaner, NoCleanup
<1>5. EntryInv /\ OrphanOnlyByOverlap
  BY DEF RetentionInit, EntryInv, OrphanOnlyByOverlap, NoRunner
<1>6. QED
  BY <1>2, <1>4, <1>5 DEF RetentionInv

-----------------------------------------------------------------------------
(* Runs and clocks: the cleaners stay where they are.                      *)

(* A step that leaves cleaners, scopes, checkpoints and history alone, and *)
(* lets a run in only through an active scope.                             *)
LEMMA CalmStep ==
  ASSUME RetentionInv, RetentionTypeOK', UNCHANGED <<cleaner, scope, ckpt, overlapped>>,
         \A p \in Runners :
           \/ runner'[p] = runner[p]
           \/ runner'[p].pc \notin {"slide", "graph"}
                /\ (runner'[p].pc # "idle" => runner'[p].chat \in Chats)
           \/ runner'[p].chat = Chat(p) /\ Chat(p) \in Chats
                /\ (scope[Chat(p)] = "active" \/ runner[p].pc \in {"slide", "graph"})
  PROVE  RetentionInv'
<1>1. \A k \in Cleaners : Holds(k)' = Holds(k) /\ Cleaned(k)' = Cleaned(k)
  BY DEF Holds, Cleaned
<1>2. HeldInv' /\ OneCleaner' /\ OrphanOnlyByOverlap'
  BY <1>1 DEF RetentionInv, HeldInv, OneCleaner, OrphanOnlyByOverlap
<1>3. EntryInv'
  BY DEF RetentionInv, EntryInv, Chat
<1>4. QED
  BY <1>2, <1>3 DEF RetentionInv

LEMMA MoveType ==
  ASSUME RetentionTypeOK, NEW p \in Runners,
         NEW pc \in {"touch", "readSession", "readScope", "slide", "graph"},
         RunTo(p, pc)
  PROVE  /\ runner' \in [Runners -> Run]
         /\ runner'[p].pc = pc /\ runner'[p].chat = Chat(p)
         /\ \A q \in Runners : q # p => runner'[q] = runner[q]
BY DEF RunTo, RetentionTypeOK, Run, Chat

LEMMA LeaveType ==
  ASSUME RetentionTypeOK, NEW p \in Runners, Leave(p)
  PROVE  /\ runner' \in [Runners -> Run]
         /\ runner'[p] = NoRunner
         /\ \A q \in Runners : q # p => runner'[q] = runner[q]
BY DEF Leave, RetentionTypeOK, Run, NoRunner

LEMMA ClockInv ==
  ASSUME RetentionInv, NEW c \in Chats, Lapse(c) \/ LapseAhead(c)
  PROVE  RetentionInv'
<1>1. RetentionTypeOK'
  BY DEF Lapse, LapseAhead, aside, RetentionInv, RetentionTypeOK, SessionRow, HasSession
<1>2. QED
  BY <1>1, CalmStep DEF Lapse, LapseAhead, aside

(* Session and scope are born where no clean-up has been.                  *)
LEMMA CreateInv ==
  ASSUME RetentionInv, NEW c \in Chats, CreateSession(c)
  PROVE  RetentionInv'
<1>1. scope[c] = "none" /\ scope'[c] = "active" /\ \A d \in Chats : d # c => scope'[d] = scope[d]
  BY DEF CreateSession, RetentionInv, RetentionTypeOK, HasSession
<1>2. RetentionTypeOK'
  BY DEF CreateSession, aside, RetentionInv, RetentionTypeOK, SessionRow, ScopeStatus, HasSession
<1>3. \A k \in Cleaners : Holds(k)' = Holds(k) /\ Cleaned(k)' = Cleaned(k)
  BY DEF CreateSession, Holds, Cleaned
<1>4. \A k \in Cleaners : Holds(k) \subseteq Chats
  BY DEF RetentionInv, RetentionTypeOK, Cleanup, Holds, Cleaned
<1>5. HeldInv' /\ OneCleaner'
  BY <1>1, <1>3, <1>4 DEF CreateSession, aside, RetentionInv, HeldInv, OneCleaner
<1>6. OrphanOnlyByOverlap'
  BY <1>1 DEF CreateSession, aside, RetentionInv, RetentionTypeOK, OrphanOnlyByOverlap
<1>7. EntryInv'
  BY <1>1 DEF CreateSession, aside, RetentionInv, EntryInv, Chat
<1>8. QED
  BY <1>2, <1>5, <1>6, <1>7 DEF RetentionInv

LEMMA StartRunInv ==
  ASSUME RetentionInv, NEW p \in Runners, NEW c \in Chats, StartRun(p, c)
  PROVE  RetentionInv'
<1>1. PICK pc \in {"touch", "readSession"} :
        runner' = [runner EXCEPT ![p] = [pc |-> pc, chat |-> c, touched |-> FALSE]]
  BY DEF StartRun
<1>2. [pc |-> pc, chat |-> c, touched |-> FALSE] \in Run
  BY DEF Run
<1>3. RetentionTypeOK'
  BY <1>1, <1>2 DEF StartRun, aside, RetentionInv, RetentionTypeOK, HasSession
<1>4. \A q \in Runners : \/ runner'[q] = runner[q]
                         \/ runner'[q].pc \notin {"slide", "graph"} /\ runner'[q].chat \in Chats
  BY <1>1 DEF RetentionInv, RetentionTypeOK
<1>5. QED
  BY <1>3, <1>4, CalmStep DEF StartRun, aside

LEMMA TouchInv ==
  ASSUME RetentionInv, NEW p \in Runners, Touch(p)
  PROVE  RetentionInv'
<1>1. Chat(p) \in Chats
  BY DEF Touch, RunAt, RetentionInv, EntryInv
<1>2. CASE HasSession(Chat(p))
  <2>1. session' = [session EXCEPT ![Chat(p)] = "ahead"]
    BY <1>2 DEF Touch
  <2>3. runner' = [runner EXCEPT ![p] =
                     [pc |-> "readSession", chat |-> Chat(p), touched |-> TRUE]]
    BY <1>2 DEF Touch
  <2>4. [pc |-> "readSession", chat |-> Chat(p), touched |-> TRUE] \in Run
    BY <1>1 DEF Run
  <2>5. RetentionTypeOK'
    BY <1>1, <1>2, <2>1, <2>3, <2>4
    DEF Touch, aside, RetentionInv, RetentionTypeOK, HasSession, SessionRow
  <2>6. \A q \in Runners : \/ runner'[q] = runner[q]
                           \/ runner'[q].pc = "readSession" /\ runner'[q].chat \in Chats
    BY <1>1, <2>3 DEF RetentionInv, RetentionTypeOK
  <2>7. QED
    BY <2>5, <2>6, CalmStep DEF Touch, aside
<1>3. CASE ~HasSession(Chat(p))
  <2>1. Leave(p) /\ UNCHANGED <<session, scope, due, ckpt, cleaner, aside>>
    BY <1>3 DEF Touch
  <2>2. RetentionTypeOK'
    BY <2>1, LeaveType DEF aside, RetentionInv, RetentionTypeOK, HasSession
  <2>3. \A q \in Runners : runner'[q] = runner[q] \/ runner'[q] = NoRunner
    BY <2>1, LeaveType DEF RetentionInv
  <2>4. QED
    BY <2>1, <2>2, <2>3, CalmStep DEF aside, NoRunner
<1>4. QED
  BY <1>2, <1>3

(* The two reads and the end of a run.                                     *)
LEMMA ReadInv ==
  ASSUME RetentionInv, NEW p \in Runners, ReadSession(p) \/ ReadScope(p) \/ EndRun(p)
  PROVE  RetentionInv'
<1>1. Chat(p) \in Chats
  BY DEF ReadSession, ReadScope, EndRun, RunAt, RetentionInv, EntryInv
<1>2. UNCHANGED <<session, scope, due, ckpt, cleaner, aside>>
  BY DEF ReadSession, ReadScope, EndRun
<1>3. CASE Leave(p)
  <2>1. RetentionTypeOK'
    BY <1>2, <1>3, LeaveType DEF aside, RetentionInv, RetentionTypeOK, HasSession
  <2>2. \A q \in Runners : runner'[q] = runner[q] \/ runner'[q] = NoRunner
    BY <1>3, LeaveType DEF RetentionInv
  <2>3. QED
    BY <1>2, <2>1, <2>2, CalmStep DEF aside, NoRunner
<1>4. CASE RunTo(p, "readScope") \/ (RunTo(p, "slide") /\ scope[Chat(p)] = "active")
  <2>1. PICK pc \in {"readScope", "slide"} : RunTo(p, pc)
    BY <1>4
  <2>2. RetentionTypeOK'
    BY <1>2, <2>1, MoveType DEF aside, RetentionInv, RetentionTypeOK, HasSession
  <2>3. CASE RunTo(p, "readScope")
    <3>1. \A q \in Runners : \/ runner'[q] = runner[q]
                             \/ runner'[q].pc = "readScope" /\ runner'[q].chat \in Chats
      BY <1>1, <2>3, MoveType DEF RetentionInv
    <3>2. QED
      BY <1>2, <2>2, <3>1, CalmStep DEF aside
  <2>4. CASE RunTo(p, "slide") /\ scope[Chat(p)] = "active"
    <3>1. \A q \in Runners : \/ runner'[q] = runner[q]
                             \/ q = p /\ runner'[q].chat = Chat(q)
      BY <2>4, MoveType DEF RetentionInv
    <3>2. QED
      BY <1>1, <1>2, <2>2, <2>4, <3>1, CalmStep DEF aside
  <2>5. QED
    BY <1>4, <2>3, <2>4
<1>5. QED
  BY <1>3, <1>4 DEF ReadSession, ReadScope, EndRun

LEMMA SlideInv ==
  ASSUME RetentionInv, NEW p \in Runners, Slide(p)
  PROVE  RetentionInv'
<1>1. Chat(p) \in Chats /\ RunTo(p, "graph") /\ runner[p].pc = "slide"
  BY DEF Slide, RunAt, RetentionInv, EntryInv
<1>2. \A d \in Chats : HasSession(d)' <=> HasSession(d)
  BY <1>1 DEF Slide, RetentionInv, RetentionTypeOK, HasSession, SessionRow
<1>3. session' \in [Chats -> SessionRow] /\ due' \subseteq Chats
  BY DEF Slide, RetentionInv, RetentionTypeOK, SessionRow
<1>4. UNCHANGED <<scope, ckpt, cleaner, overlapped, failed, saver, sees>>
  BY DEF Slide, aside
<1>5. RetentionTypeOK'
  BY <1>1, <1>2, <1>3, <1>4, MoveType DEF RetentionInv, RetentionTypeOK
<1>6. \A q \in Runners : runner'[q] = runner[q] \/ (q = p /\ runner'[q].chat = Chat(q))
  BY <1>1, MoveType DEF RetentionInv
<1>7. QED
  BY <1>1, <1>4, <1>5, <1>6, CalmStep

(* A checkpoint that is saved while its thread is being deleted is saved   *)
(* by a run that overlaps the clean-up.                                    *)
LEMMA SaveInv ==
  ASSUME RetentionInv, NEW p \in Runners, SaveCheckpoint(p)
  PROVE  RetentionInv'
<1>1. Chat(p) \in Chats /\ runner[p].pc = "graph"
  BY DEF SaveCheckpoint, InContext, Admits, RunAt, RetentionInv, EntryInv
<1>2. CASE scope[Chat(p)] = "none"
  <2>1. Leave(p) /\ UNCHANGED <<session, scope, due, ckpt, cleaner, aside>>
    BY <1>2 DEF SaveCheckpoint, InContext, Admits
  <2>2. RetentionTypeOK'
    BY <2>1, LeaveType DEF aside, RetentionInv, RetentionTypeOK, HasSession
  <2>3. \A q \in Runners : runner'[q] = runner[q] \/ runner'[q] = NoRunner
    BY <2>1, LeaveType DEF RetentionInv
  <2>4. QED
    BY <2>1, <2>2, <2>3, CalmStep DEF aside, NoRunner
<1>3. CASE scope[Chat(p)] # "none"
  <2>1. /\ ckpt' = ckpt \cup {Chat(p)}
        /\ UNCHANGED <<session, scope, due, runner, cleaner, overlapped, failed, saver, sees>>
    BY <1>3 DEF SaveCheckpoint, InContext, Admits, aside
  <2>2. RetentionTypeOK' /\ EntryInv'
    BY <1>1, <2>1 DEF RetentionInv, RetentionTypeOK, EntryInv, Chat, HasSession
  <2>3. \A k \in Cleaners : Holds(k)' = Holds(k) /\ Cleaned(k)' = Cleaned(k)
    BY <2>1 DEF Holds, Cleaned
  <2>4. \A k \in Cleaners : cleaner[k].pc = "finish" => Cleaned(k) \in Holds(k)
    BY NoChatAssumption DEF RetentionInv, HeldInv, Holds
  <2>5. scope[Chat(p)] = "deleting" => Chat(p) \in overlapped
    BY <1>1 DEF RetentionInv, EntryInv
  <2>6. HeldInv'
    BY <2>1, <2>3, <2>4, <2>5 DEF RetentionInv, HeldInv
  <2>7. OneCleaner' /\ OrphanOnlyByOverlap'
    BY <1>3, <2>1, <2>3 DEF RetentionInv, OneCleaner, OrphanOnlyByOverlap
  <2>8. QED
    BY <2>2, <2>6, <2>7 DEF RetentionInv
<1>4. QED
  BY <1>2, <1>3

-----------------------------------------------------------------------------
(* The clean-up.                                                           *)

(* The next candidate, or none.                                            *)
LEMMA ProceedMove ==
  ASSUME RetentionInv, NEW k \in Cleaners, NEW batch \in SUBSET Chats, Proceed(k, batch)
  PROVE  /\ cleaner' \in [Cleaners -> Cleanup]
         /\ \A j \in Cleaners : j # k => cleaner'[j] = cleaner[j]
         /\ \A j \in Cleaners : j # k => Holds(j)' = Holds(j)
         /\ cleaner'[k].pc = "idle" => cleaner'[k] = NoCleanup
         /\ cleaner'[k].pc # "idle" => /\ cleaner'[k].chat \in Chats
                                      /\ cleaner'[k].chat \notin cleaner'[k].todo
         /\ cleaner'[k].pc # "finish"
         /\ Holds(k)' \subseteq batch
<1>1. CASE cleaner' = [cleaner EXCEPT ![k] = NoCleanup]
  <2>1. NoCleanup \in Cleanup
    BY DEF NoCleanup, Cleanup
  <2>2. QED
    BY <1>1, <2>1 DEF RetentionInv, RetentionTypeOK, NoCleanup, Holds, Cleaned
<1>2. ASSUME NEW c \in batch,
             cleaner' = [cleaner EXCEPT ![k] =
                           [pc |-> "delete", chat |-> c, todo |-> batch \ {c}]]
      PROVE  /\ cleaner' \in [Cleaners -> Cleanup]
             /\ \A j \in Cleaners : j # k => cleaner'[j] = cleaner[j]
             /\ \A j \in Cleaners : j # k => Holds(j)' = Holds(j)
             /\ cleaner'[k] = [pc |-> "delete", chat |-> c, todo |-> batch \ {c}]
             /\ Holds(k)' \subseteq batch
  <2>1. [pc |-> "delete", chat |-> c, todo |-> batch \ {c}] \in Cleanup
    BY DEF Cleanup
  <2>2. QED
    BY <1>2, <2>1 DEF RetentionInv, RetentionTypeOK, Holds, Cleaned
<1>3. QED
  BY <1>1, <1>2 DEF Proceed

(* The claim takes active scopes only, which nobody holds.                 *)
LEMMA ClaimInv ==
  ASSUME RetentionInv, NEW k \in Cleaners, Claim(k)
  PROVE  RetentionInv'
<1>1. PICK batch \in SUBSET {c \in due : scope[c] = "active"} \ {{}} :
        /\ scope' = [c \in Chats |-> IF c \in batch THEN "deleting" ELSE scope[c]]
        /\ overlapped' = overlapped \cup {c \in batch : LetIn(c)}
        /\ Proceed(k, batch)
  BY DEF Claim
<1>2. batch \in SUBSET Chats /\ \A c \in batch : scope[c] = "active"
  BY DEF RetentionInv, RetentionTypeOK
<1>3. UNCHANGED <<session, due, ckpt, runner, failed, saver, sees>>
  BY DEF Claim
<1>4. /\ cleaner' \in [Cleaners -> Cleanup]
      /\ \A j \in Cleaners : j # k => cleaner'[j] = cleaner[j]
      /\ \A j \in Cleaners : j # k => Holds(j)' = Holds(j)
      /\ cleaner'[k].pc = "idle" => cleaner'[k] = NoCleanup
      /\ cleaner'[k].pc # "idle" => /\ cleaner'[k].chat \in Chats
                                   /\ cleaner'[k].chat \notin cleaner'[k].todo
      /\ cleaner'[k].pc # "finish"
      /\ Holds(k)' \subseteq batch
  BY <1>1, <1>2, ProceedMove
<1>5. RetentionTypeOK'
  BY <1>1, <1>2, <1>3, <1>4 DEF RetentionInv, RetentionTypeOK, ScopeStatus, HasSession
<1>6. \A j \in Cleaners : Holds(j) \cap batch = {} /\ Holds(j) \subseteq Chats
  BY <1>2 DEF RetentionInv, HeldInv, RetentionTypeOK, Cleanup, Holds, Cleaned
<1>7. HeldInv'
  BY <1>1, <1>2, <1>3, <1>4, <1>6 DEF RetentionInv, HeldInv, Cleaned
<1>8. OneCleaner'
  BY <1>4, <1>6 DEF RetentionInv, OneCleaner
<1>9. EntryInv'
  BY <1>1, <1>2, <1>3 DEF RetentionInv, EntryInv, LetIn, Chat
<1>10. OrphanOnlyByOverlap'
  BY <1>1, <1>2, <1>3 DEF RetentionInv, RetentionTypeOK, OrphanOnlyByOverlap
<1>11. QED
  BY <1>5, <1>7, <1>8, <1>9, <1>10 DEF RetentionInv

(* A task goes on without touching the scopes, and drops what it drops.    *)
LEMMA CleanerMove ==
  ASSUME RetentionInv, NEW k \in Cleaners, cleaner' \in [Cleaners -> Cleanup],
         UNCHANGED <<session, scope, due, runner, overlapped, saver, sees>>,
         ckpt' \subseteq ckpt, failed' \subseteq Chats,
         \A j \in Cleaners : j # k => cleaner'[j] = cleaner[j],
         Holds(k)' \subseteq Holds(k),
         cleaner'[k].pc = "idle" => cleaner'[k] = NoCleanup,
         cleaner'[k].pc # "idle" => /\ cleaner'[k].chat \in Chats
                                    /\ cleaner'[k].chat \notin cleaner'[k].todo,
         cleaner'[k].pc = "finish" => cleaner'[k].chat \notin ckpt'
  PROVE  RetentionInv'
<1>1. \A j \in Cleaners : j # k => Holds(j)' = Holds(j)
  BY DEF Holds, Cleaned
<1>2. RetentionTypeOK'
  BY DEF RetentionInv, RetentionTypeOK, HasSession
<1>3. HeldInv'
  BY <1>1 DEF RetentionInv, HeldInv, Cleaned
<1>4. OneCleaner'
  BY <1>1 DEF RetentionInv, OneCleaner
<1>5. EntryInv' /\ OrphanOnlyByOverlap'
  BY DEF RetentionInv, RetentionTypeOK, EntryInv, OrphanOnlyByOverlap, Chat
<1>6. QED
  BY <1>2, <1>3, <1>4, <1>5 DEF RetentionInv

LEMMA CleanToMove ==
  ASSUME RetentionInv, NEW k \in Cleaners, cleaner[k].pc # "idle",
         NEW pc \in {"delete", "finish", "recordFailure"}, CleanTo(k, pc)
  PROVE  /\ cleaner' \in [Cleaners -> Cleanup]
         /\ \A j \in Cleaners : j # k => cleaner'[j] = cleaner[j]
         /\ Holds(k)' = Holds(k)
         /\ cleaner'[k].pc = pc /\ cleaner'[k].chat = Cleaned(k)
         /\ cleaner'[k].chat \in Chats /\ cleaner'[k].chat \notin cleaner'[k].todo
BY DEF CleanTo, RetentionInv, RetentionTypeOK, HeldInv, Cleanup, Holds, Cleaned

LEMMA DeleteThreadInv ==
  ASSUME RetentionInv, NEW k \in Cleaners, DeleteThread(k)
  PROVE  RetentionInv'
<1>1. cleaner[k].pc # "idle" /\ UNCHANGED <<session, scope, due, runner, overlapped, failed, saver, sees>>
  BY DEF DeleteThread, CleanAt, aside
<1>2. failed' \subseteq Chats
  BY <1>1 DEF RetentionInv, RetentionTypeOK
<1>3. CASE ckpt' = ckpt \ {Cleaned(k)} /\ CleanTo(k, "finish")
  <2>1. ckpt' \subseteq ckpt /\ Cleaned(k) \notin ckpt'
    BY <1>3
  <2>2. QED
    BY <1>1, <1>2, <1>3, <2>1, CleanToMove, CleanerMove
<1>4. CASE CleanTo(k, "recordFailure") /\ UNCHANGED ckpt
  BY <1>1, <1>2, <1>4, CleanToMove, CleanerMove
<1>5. QED
  BY <1>3, <1>4 DEF DeleteThread

(* A failure is recorded, or the task dies: it lets go of what it held.    *)
LEMMA GiveUpInv ==
  ASSUME RetentionInv, NEW k \in Cleaners, RecordFailure(k) \/ CrashCleaner(k)
  PROVE  RetentionInv'
<1>1. /\ cleaner[k].pc # "idle"
      /\ UNCHANGED <<session, scope, due, ckpt, runner, overlapped, saver, sees>>
  BY DEF RecordFailure, CrashCleaner, CleanAt, aside
<1>2. Holds(k) \subseteq Chats /\ Cleaned(k) \in Chats /\ cleaner[k].todo \in SUBSET Chats
  BY <1>1 DEF RetentionInv, RetentionTypeOK, HeldInv, Cleanup, Holds, Cleaned
<1>3. failed' \subseteq Chats
  BY <1>2 DEF RecordFailure, CrashCleaner, aside, RetentionInv, RetentionTypeOK
<1>4. CASE RecordFailure(k)
  <2>1. Proceed(k, cleaner[k].todo)
    BY <1>4 DEF RecordFailure
  <2>2. cleaner[k].todo \subseteq Holds(k)
    BY DEF Holds
  <2>3. QED
    BY <1>1, <1>2, <1>3, <2>1, <2>2, ProceedMove, CleanerMove
<1>5. CASE CrashCleaner(k)
  <2>1. cleaner' = [cleaner EXCEPT ![k] = NoCleanup] /\ NoCleanup \in Cleanup
    BY <1>5 DEF CrashCleaner, NoCleanup, Cleanup
  <2>2. /\ cleaner' \in [Cleaners -> Cleanup] /\ cleaner'[k] = NoCleanup
        /\ \A j \in Cleaners : j # k => cleaner'[j] = cleaner[j]
    BY <2>1 DEF RetentionInv, RetentionTypeOK
  <2>3. Holds(k)' = {} /\ cleaner'[k].pc = "idle"
    BY <2>2 DEF Holds, Cleaned, NoCleanup
  <2>4. QED
    BY <1>1, <1>3, <2>2, <2>3, CleanerMove
<1>6. QED
  BY <1>4, <1>5

(* Session and scope go; what is left of the thread is an overlap.         *)
LEMMA FinishScopeInv ==
  ASSUME RetentionInv, NEW k \in Cleaners, FinishScope(k)
  PROVE  RetentionInv'
<1> DEFINE c == Cleaned(k)
<1>1. cleaner[k].pc = "finish" /\ c \in Chats /\ c \notin cleaner[k].todo /\ c \in Holds(k)
  BY NoChatAssumption DEF FinishScope, CleanAt, RetentionInv, HeldInv, Holds
<1>2. CASE CleanTo(k, "recordFailure") /\ UNCHANGED <<session, scope, due>>
  <2>1. UNCHANGED <<ckpt, runner, overlapped, failed, saver, sees>>
    BY DEF FinishScope, aside
  <2>2. failed' \subseteq Chats
    BY <2>1 DEF RetentionInv, RetentionTypeOK
  <2>3. QED
    BY <1>1, <1>2, <2>1, <2>2, CleanToMove, CleanerMove
<1>3. CASE /\ session' = [session EXCEPT ![c] = "gone"]
           /\ scope' = [scope EXCEPT ![c] = "none"]
           /\ due' = due \ {c}
           /\ Proceed(k, cleaner[k].todo)
  <2>1. UNCHANGED <<ckpt, runner, overlapped, failed, saver, sees>>
    BY DEF FinishScope, aside
  <2>2. cleaner[k].todo \in SUBSET Chats /\ cleaner[k].todo \subseteq Holds(k)
    BY DEF RetentionInv, RetentionTypeOK, Cleanup, Holds
  <2>3. /\ cleaner' \in [Cleaners -> Cleanup]
        /\ \A j \in Cleaners : j # k => cleaner'[j] = cleaner[j]
        /\ \A j \in Cleaners : j # k => Holds(j)' = Holds(j)
        /\ cleaner'[k].pc = "idle" => cleaner'[k] = NoCleanup
        /\ cleaner'[k].pc # "idle" => /\ cleaner'[k].chat \in Chats
                                     /\ cleaner'[k].chat \notin cleaner'[k].todo
        /\ cleaner'[k].pc # "finish"
        /\ Holds(k)' \subseteq cleaner[k].todo
    BY <1>3, <2>2, ProceedMove
  <2>4. RetentionTypeOK'
    BY <1>1, <1>3, <2>1, <2>3 DEF RetentionInv, RetentionTypeOK, SessionRow, ScopeStatus, HasSession
  <2>5. \A j \in Cleaners : c \notin Holds(j)'
    BY <1>1, <2>3 DEF RetentionInv, OneCleaner
  <2>6. \A d \in Chats : d # c => scope'[d] = scope[d]
    BY <1>3 DEF RetentionInv, RetentionTypeOK
  <2>7. \A j \in Cleaners : Holds(j)' \subseteq Holds(j) /\ Holds(j) \subseteq Chats
    BY <2>2, <2>3 DEF RetentionInv, RetentionTypeOK, Cleanup, Holds, Cleaned
  <2>8. HeldInv'
    BY <2>1, <2>3, <2>5, <2>6, <2>7 DEF RetentionInv, HeldInv, Cleaned
  <2>9. OneCleaner'
    BY <2>7 DEF RetentionInv, OneCleaner
  <2>10. EntryInv'
    BY <1>1, <1>3, <2>1 DEF RetentionInv, RetentionTypeOK, EntryInv, Chat
  <2>11. OrphanOnlyByOverlap'
    BY <1>1, <1>3, <2>1, <2>6 DEF RetentionInv, RetentionTypeOK, OrphanOnlyByOverlap, HeldInv
  <2>12. QED
    BY <2>4, <2>8, <2>9, <2>10, <2>11 DEF RetentionInv
<1>4. QED
  BY <1>2, <1>3 DEF FinishScope

-----------------------------------------------------------------------------
LEMMA RetentionNextInv == RetentionInv /\ [RetentionNext]_retentionVars => RetentionInv'
<1> SUFFICES ASSUME RetentionInv, [RetentionNext]_retentionVars PROVE RetentionInv'
  OBVIOUS
<1>1. CASE \E c \in Chats : CreateSession(c) \/ Lapse(c) \/ LapseAhead(c)
  BY <1>1, CreateInv, ClockInv
<1>2. CASE \E p \in Runners : RunStep(p)
  BY <1>2, TouchInv, ReadInv, SlideInv, SaveInv DEF RunStep
<1>3. CASE \E p \in Runners, c \in Chats : StartRun(p, c)
  BY <1>3, StartRunInv
<1>4. CASE \E k \in Cleaners : Claim(k) \/ CleanerStep(k) \/ CrashCleaner(k)
  BY <1>4, ClaimInv, DeleteThreadInv, FinishScopeInv, GiveUpInv DEF CleanerStep
<1>5. CASE UNCHANGED retentionVars
  <2>1. \A k \in Cleaners : Holds(k)' = Holds(k) /\ Cleaned(k)' = Cleaned(k)
    BY <1>5 DEF retentionVars, Holds, Cleaned
  <2>2. QED
    BY <1>5, <2>1 DEF retentionVars, RetentionInv, RetentionTypeOK, HeldInv, EntryInv, OneCleaner,
       OrphanOnlyByOverlap, HasSession, Chat
<1>6. QED
  BY <1>1, <1>2, <1>3, <1>4, <1>5 DEF RetentionNext

LEMMA RetentionInvAlways == RetentionSpec => []RetentionInv
  BY RetentionInitInv, RetentionNextInv, PTL DEF RetentionSpec

(* Session and scope are there together, whatever clocks, runs and         *)
(* clean-ups do.                                                           *)
THEOREM SessionWithScope == RetentionSpec => []RetentionTypeOK
<1>1. RetentionInv => RetentionTypeOK
  BY DEF RetentionInv
<1>2. QED
  BY <1>1, RetentionInvAlways, PTL

(* No thread is ever worked on by two clean-up tasks, however many run,    *)
(* fail and die: a claimed scope is not active and is not claimed again.   *)
THEOREM NoSecondCleaner == RetentionSpec => []OneCleaner
<1>1. RetentionInv => OneCleaner
  BY DEF RetentionInv
<1>2. QED
  BY <1>1, RetentionInvAlways, PTL

(* For any number of runs and clean-ups: checkpoints outlive their scope   *)
(* only where the claim met a run that had been let in before.             *)
THEOREM OrphansNeedOverlap == RetentionSpec => []OrphanOnlyByOverlap
<1>1. RetentionInv => OrphanOnlyByOverlap
  BY DEF RetentionInv
<1>2. QED
  BY <1>1, RetentionInvAlways, PTL

-----------------------------------------------------------------------------
(* Deployment.                                                             *)

Database ==
  [tables : SUBSET Tables, forced : SUBSET Tables, roles : SUBSET Roles,
   login : SUBSET Roles, granted : [Roles -> SUBSET Tables], defaults : BOOLEAN]

(* What the first n transactions of the migration have brought, whoever    *)
(* ran them and however often.                                             *)
Passed(d, n) ==
  /\ n >= 1 => Business \cup Journal \cup Data \subseteq d.tables /\ Scoped \subseteq d.forced
  /\ n >= 2 => Checkpoint \subseteq d.tables
  /\ n >= 3 => ScopedCheckpoint \subseteq d.forced
  /\ n >= 4 => "app_runtime" \in d.roles /\ Tables \subseteq d.granted["app_runtime"]
  /\ n >= 5 => "backup_role" \in d.roles /\ Tables \subseteq d.granted["backup_role"]

(* The roles' rights keep up with the tables.                              *)
Guarded(d) ==
  d.granted["app_runtime"] \cap (Scoped \cup ScopedCheckpoint) \subseteq d.forced
Dumped(d) == "backup_role" \in d.roles => d.defaults /\ d.tables \subseteq d.granted["backup_role"]
Usable(d) == "app_runtime" \in d.login => "sessions" \in d.granted["app_runtime"]

Sound(d) ==
  /\ d \in Database
  /\ d.forced \subseteq d.tables /\ d.login \subseteq d.roles
  /\ Guarded(d) /\ Dumped(d) /\ Usable(d)

(* Nothing is ever dropped, revoked or taken out from behind its policy.   *)
Grows(d, e) ==
  /\ d.tables \subseteq e.tables /\ d.forced \subseteq e.forced
  /\ d.login \subseteq e.login /\ d.roles \subseteq e.roles
  /\ \A r \in Roles : d.granted[r] \subseteq e.granted[r]

StepName == <<"business", "checkpoint", "checkpoint_rls", "runtime", "backup">>

Names == {"business", "checkpoint", "checkpoint_rls", "runtime", "backup"}

(* What is left when n of the transactions up to the last are done.        *)
Ahead(left, n, last) ==
  /\ left \in Seq(Names)
  /\ Len(left) = last - n
  /\ \A i \in 1..Len(left) : left[i] = StepName[n + i]

LEMMA AllAhead == Ahead(Steps, 0, 5) /\ Ahead(InitializeAll, 0, 3)
  <1> DEFINE tail == <<"runtime", "backup">>
  <1>1. InitializeAll \in Seq(Names) /\ tail \in Seq(Names)
    BY DEF InitializeAll, Names
  <1>2. Len(InitializeAll) = 3 /\ Len(tail) = 2
    BY DEF InitializeAll
  <1>4. \A i \in 1..3 : InitializeAll[i] = StepName[i]
    BY DEF InitializeAll, StepName
  <1>5. tail[1] = StepName[4] /\ tail[2] = StepName[5]
    BY DEF StepName
  <1>7. Steps = InitializeAll \o tail
    BY DEF Steps
  <1> HIDE DEF tail
  <1>3. /\ Steps \in Seq(Names) /\ Len(Steps) = 5
        /\ \A i \in 1..5 : Steps[i] = IF i <= 3 THEN InitializeAll[i] ELSE tail[i - 3]
    <2>1. /\ InitializeAll \o tail \in Seq(Names)
          /\ Len(InitializeAll \o tail) = Len(InitializeAll) + Len(tail)
          /\ \A i \in 1..(Len(InitializeAll) + Len(tail)) :
               (InitializeAll \o tail)[i] =
                 IF i <= Len(InitializeAll) THEN InitializeAll[i] ELSE tail[i - Len(InitializeAll)]
      BY <1>1, ConcatProperties
    <2> QED
      BY <1>2, <1>7, <2>1
  <1>6. ASSUME NEW i \in 1..5 PROVE Steps[i] = StepName[i]
    <2>1. CASE i <= 3
      BY <1>3, <1>4, <2>1
    <2>2. CASE i = 4
      BY <1>3, <1>5, <2>2
    <2>3. CASE i = 5
      BY <1>3, <1>5, <2>3
    <2> QED
      BY <2>1, <2>2, <2>3
  <1> QED
    BY <1>1, <1>2, <1>3, <1>4, <1>6 DEF Ahead

LEMMA AheadStep ==
  ASSUME NEW left, NEW last \in Nat, NEW n \in 0..(last - 1), Ahead(left, n, last)
  PROVE  /\ Head(left) = StepName[n + 1]
         /\ Len(left) = 1 <=> n + 1 = last
         /\ n + 1 < last => Ahead(Tail(left), n + 1, last)
  <1>1. left \in Seq(Names) /\ left # <<>> /\ Len(left) = last - n
    BY DEF Ahead
  <1>2. /\ Tail(left) \in Seq(Names) /\ Len(Tail(left)) = Len(left) - 1
        /\ \A i \in 1..Len(Tail(left)) : Tail(left)[i] = left[i + 1]
    BY <1>1, HeadTailProperties
  <1>3. Head(left) = left[1] /\ left[1] = StepName[n + 1]
    BY <1>1 DEF Ahead
  <1>4. ASSUME NEW i \in 1..Len(Tail(left)) PROVE Tail(left)[i] = StepName[n + 1 + i]
    BY <1>1, <1>2 DEF Ahead
  <1> QED
    BY <1>1, <1>2, <1>3, <1>4 DEF Ahead

LEMMA PassedGrows ==
  ASSUME NEW d, NEW e, NEW n \in Nat, Grows(d, e), Passed(d, n)
  PROVE  Passed(e, n)
  <1>1. /\ d.granted["app_runtime"] \subseteq e.granted["app_runtime"]
        /\ d.granted["backup_role"] \subseteq e.granted["backup_role"]
    BY DEF Grows, Roles
  <1> QED
    BY <1>1 DEF Grows, Passed

LEMMA TablesBelong ==
  /\ Business \cup Journal \cup Data \subseteq Tables /\ Checkpoint \subseteq Tables
  /\ Scoped \subseteq Business \cup Journal \cup Data
  /\ ScopedCheckpoint \subseteq Checkpoint
  /\ "sessions" \in Business /\ "sessions" \in Scoped
  /\ Tables = Business \cup Journal \cup Data \cup Checkpoint
  BY DEF Tables, Scoped, ScopedCheckpoint, Business, Journal, Data, Checkpoint

LEMMA WithTablesSound ==
  ASSUME NEW d, Sound(d), NEW new \in SUBSET Tables
  PROVE  /\ Sound(WithTables(d, new)) /\ Grows(d, WithTables(d, new))
         /\ new \subseteq WithTables(d, new).tables
  <1> DEFINE e == WithTables(d, new)
  <1>1. /\ e \in Database
        /\ e.tables = d.tables \cup new /\ e.forced = d.forced /\ e.roles = d.roles
        /\ e.login = d.login /\ e.defaults = d.defaults
        /\ e.granted["app_runtime"] = d.granted["app_runtime"]
        /\ d.defaults => e.granted["backup_role"] = d.granted["backup_role"] \cup new
    BY DEF Sound, WithTables, Database, Roles
  <1> HIDE DEF e
  <1>2. d.granted["backup_role"] \subseteq e.granted["backup_role"]
    BY DEF WithTables, Sound, Database, Roles, e
  <1>3. Grows(d, e)
    BY <1>1, <1>2 DEF Grows, Roles
  <1> QED
    BY <1>1, <1>3 DEF Sound, Guarded, Dumped, Usable, e

LEMMA ForceSound ==
  ASSUME NEW d, Sound(d), NEW some \in SUBSET d.tables
  PROVE  /\ Sound(ForceRls(d, some)) /\ Grows(d, ForceRls(d, some))
         /\ some \subseteq ForceRls(d, some).forced
  <1> DEFINE e == ForceRls(d, some)
  <1>1. /\ e \in Database
        /\ e.tables = d.tables /\ e.forced = d.forced \cup some /\ e.roles = d.roles
        /\ e.login = d.login /\ e.defaults = d.defaults /\ e.granted = d.granted
    BY DEF Sound, ForceRls, Database
  <1> HIDE DEF e
  <1> QED
    BY <1>1 DEF Sound, Guarded, Dumped, Usable, Grows, e

(* The runtime role comes when all its tables are behind policies.         *)
LEMMA RuntimeSound ==
  ASSUME NEW d, Sound(d), Passed(d, 3), NEW password \in BOOLEAN
  PROVE  /\ Sound(RuntimeRole(d, password)) /\ Grows(d, RuntimeRole(d, password))
         /\ Passed(RuntimeRole(d, password), 4)
  <1> DEFINE e == RuntimeRole(d, password)
  <1>1. /\ e \in Database
        /\ e.tables = d.tables /\ e.forced = d.forced
        /\ e.roles = d.roles \cup {"app_runtime"}
        /\ d.login \subseteq e.login /\ e.login \subseteq d.login \cup {"app_runtime"}
        /\ e.defaults = d.defaults
        /\ e.granted["app_runtime"] = d.granted["app_runtime"] \cup d.tables
        /\ e.granted["backup_role"] = d.granted["backup_role"]
    BY DEF Sound, RuntimeRole, Role, Database, Roles
  <1> HIDE DEF e
  <1>2. Guarded(e) /\ Usable(e)
    BY <1>1, TablesBelong DEF Passed, Guarded, Usable
  <1>3. Dumped(e)
    BY <1>1 DEF Sound, Dumped
  <1>4. Grows(d, e)
    BY <1>1 DEF Grows, Roles
  <1>5. Passed(e, 4)
    BY <1>1, <1>4, TablesBelong DEF Passed, Grows
  <1> QED
    BY <1>1, <1>2, <1>3, <1>4, <1>5 DEF Sound, e

LEMMA BackupSound ==
  ASSUME NEW d, Sound(d), Passed(d, 4), NEW password \in BOOLEAN
  PROVE  /\ Sound(BackupRole(d, password)) /\ Grows(d, BackupRole(d, password))
         /\ Passed(BackupRole(d, password), 5)
  <1> DEFINE e == BackupRole(d, password)
  <1>1. /\ e \in Database
        /\ e.tables = d.tables /\ e.forced = d.forced
        /\ e.roles = d.roles \cup {"backup_role"}
        /\ d.login \subseteq e.login /\ e.login \subseteq d.login \cup {"backup_role"}
        /\ e.defaults
        /\ e.granted["backup_role"] = d.granted["backup_role"] \cup d.tables
        /\ e.granted["app_runtime"] = d.granted["app_runtime"]
    BY DEF Sound, BackupRole, Role, Database, Roles
  <1> HIDE DEF e
  <1>2. Grows(d, e)
    BY <1>1 DEF Grows, Roles
  <1>3. Passed(e, 5)
    BY <1>1, <1>2, TablesBelong DEF Passed, Grows
  <1> QED
    BY <1>1, <1>2, <1>3 DEF Sound, Guarded, Dumped, Usable, e

(* The n-th transaction finds what those before it brought, and brings     *)
(* what is its own.                                                        *)
LEMMA ApplySound ==
  ASSUME NEW d, Sound(d), NEW n \in 0..4, Passed(d, n), NEW password \in BOOLEAN
  PROVE  /\ Sound(Apply(d, StepName[n + 1], password))
         /\ Grows(d, Apply(d, StepName[n + 1], password))
         /\ Passed(Apply(d, StepName[n + 1], password), n + 1)
  <1> DEFINE all == Business \cup Journal \cup Data
  <1>1. CASE n = 0
    <2>1. Apply(d, StepName[n + 1], password) = ForceRls(WithTables(d, all), Scoped)
      BY <1>1 DEF StepName, Apply, BusinessSchema
    <2> DEFINE e == WithTables(d, all)
               f == ForceRls(e, Scoped)
    <2>2. Sound(e) /\ Grows(d, e) /\ all \subseteq e.tables
      BY WithTablesSound, TablesBelong
    <2> HIDE DEF e
    <2>3. Sound(f) /\ Grows(e, f) /\ Scoped \subseteq f.forced
      BY <2>2, ForceSound, TablesBelong
    <2>4. Apply(d, StepName[n + 1], password) = f
      BY <2>1 DEF e
    <2> HIDE DEF f
    <2>5. Grows(d, f) /\ Passed(f, 1)
      BY <2>2, <2>3 DEF Grows, Passed
    <2> QED
      BY <1>1, <2>3, <2>4, <2>5
  <1>2. CASE n = 1
    <2>1. Apply(d, StepName[n + 1], password) = WithTables(d, Checkpoint)
      BY <1>2 DEF StepName, Apply, CheckpointSchema
    <2>2. /\ Sound(WithTables(d, Checkpoint)) /\ Grows(d, WithTables(d, Checkpoint))
          /\ Checkpoint \subseteq WithTables(d, Checkpoint).tables
      BY WithTablesSound, TablesBelong
    <2> QED
      BY <1>2, <2>1, <2>2 DEF Grows, Passed
  <1>3. CASE n = 2
    <2>1. Apply(d, StepName[n + 1], password) = ForceRls(d, ScopedCheckpoint)
      BY <1>3 DEF StepName, Apply, CheckpointRls
    <2>2. ScopedCheckpoint \subseteq d.tables
      BY <1>3, TablesBelong DEF Passed
    <2>3. /\ Sound(ForceRls(d, ScopedCheckpoint)) /\ Grows(d, ForceRls(d, ScopedCheckpoint))
          /\ ScopedCheckpoint \subseteq ForceRls(d, ScopedCheckpoint).forced
      BY <2>2, ForceSound
    <2> QED
      BY <1>3, <2>1, <2>3 DEF Grows, Passed
  <1>4. CASE n = 3
    <2>1. Apply(d, StepName[n + 1], password) = RuntimeRole(d, password)
      BY <1>4 DEF StepName, Apply
    <2> QED
      BY <1>4, <2>1, RuntimeSound DEF Grows, Passed
  <1>5. CASE n = 4
    <2>1. Apply(d, StepName[n + 1], password) = BackupRole(d, password)
      BY <1>5 DEF StepName, Apply
    <2> QED
      BY <1>5, <2>1, BackupSound DEF Grows, Passed
  <1> QED
    BY <1>1, <1>2, <1>3, <1>4, <1>5

-----------------------------------------------------------------------------
(* Induction over the numbers, by the least element of a set of them.      *)
LEMMA Least ==
  ASSUME NEW T \in SUBSET Nat, T # {}
  PROVE  \E x \in T : \A y \in T : x <= y
  <1> DEFINE R == OpToRel(<, Nat)
  <1>1. IsWellFoundedOn(R, Nat)
    BY NatLessThanWellFounded
  <1> HIDE DEF R
  <1>2. PICK x \in T : \A y \in T : <<y, x>> \notin R
    BY <1>1, WFMin
  <1>3. ASSUME NEW y \in T PROVE x <= y
    <2>1. <<y, x>> \notin {s \in Nat \X Nat : s[1] < s[2]}
      BY <1>2 DEF R, OpToRel
    <2> QED
      BY <2>1
  <1> QED
    BY <1>3

LEMMA Induction ==
  ASSUME NEW T, 0 \in T, \A n \in Nat : n \in T => n + 1 \in T
  PROVE  Nat \subseteq T
  <1> SUFFICES ASSUME Nat \ T # {} PROVE FALSE
    OBVIOUS
  <1>1. PICK x \in Nat \ T : \A y \in Nat \ T : x <= y
    BY Least
  <1>2. x # 0
    OBVIOUS
  <1>3. x - 1 \in Nat /\ ~(x <= x - 1)
    BY <1>2
  <1>4. x - 1 \in T
    BY <1>1, <1>3
  <1> QED
    BY <1>3, <1>4

(* The concatenation of sequences is a sequence.                           *)
LEMMA FlattenType ==
  ASSUME NEW S, NEW seqs \in Seq(Seq(S))
  PROVE  FlattenSeq(seqs) \in Seq(S)
  <1> DEFINE N == Len(seqs)
             Fits(f, n) == \A i \in 1..n : f[i] = IF i = 1 THEN seqs[i] ELSE f[i - 1] \o seqs[i]
             T == {n \in Nat : n <= N => \E f \in [1..n -> Seq(S)] : Fits(f, n)}
  <1>1. N \in Nat /\ \A i \in 1..N : seqs[i] \in Seq(S)
    OBVIOUS
  <1>2. 0 \in T
    <2> DEFINE f == [i \in 1..0 |-> seqs]
    <2>1. f \in [1..0 -> Seq(S)] /\ Fits(f, 0)
      OBVIOUS
    <2> QED
      BY <2>1
  <1>3. ASSUME NEW n \in Nat, n \in T PROVE n + 1 \in T
    <2> SUFFICES ASSUME n + 1 <= N
                 PROVE  \E f \in [1..(n + 1) -> Seq(S)] : Fits(f, n + 1)
      <3> HIDE DEF Fits, N
      <3>1. n + 1 \in Nat
        OBVIOUS
      <3> QED
        BY <3>1
    <2>1. n <= N
      BY <1>1
    <2>2. PICK f \in [1..n -> Seq(S)] : Fits(f, n)
      BY <1>3, <2>1
    <2> DEFINE x == IF n = 0 THEN seqs[1] ELSE f[n] \o seqs[n + 1]
               g == [i \in 1..(n + 1) |-> IF i <= n THEN f[i] ELSE x]
    <2>3. x \in Seq(S)
      BY <1>1, ConcatProperties
    <2>4. g \in [1..(n + 1) -> Seq(S)]
      BY <2>3
    <2>5. Fits(g, n + 1)
      <3> SUFFICES ASSUME NEW i \in 1..(n + 1)
                   PROVE  g[i] = IF i = 1 THEN seqs[i] ELSE g[i - 1] \o seqs[i]
        OBVIOUS
      <3>1. CASE i <= n
        <4>1. g[i] = f[i] /\ (i # 1 => g[i - 1] = f[i - 1])
          BY <3>1
        <4>0. i \in 1..n
          BY <3>1
        <4>2. f[i] = IF i = 1 THEN seqs[i] ELSE f[i - 1] \o seqs[i]
          <5> HIDE DEF g, x
          <5> QED
            BY <2>2, <4>0
        <4> HIDE DEF g, x
        <4>3. CASE i = 1
          BY <4>1, <4>2, <4>3
        <4>4. CASE i # 1
          BY <4>1, <4>2, <4>4
        <4> QED
          BY <4>3, <4>4
      <3>2. CASE i = n + 1
        <4>1. g[i] = x /\ (i # 1 => g[i - 1] = f[n])
          BY <3>2
        <4> HIDE DEF g
        <4> QED
          BY <3>2, <4>1
      <3> QED
        BY <3>1, <3>2
    <2> QED
      BY <2>4, <2>5
  <1>4. N \in T
    <2> HIDE DEF T, N
    <2> QED
      BY <1>1, <1>2, <1>3, Induction
  <1>5. PICK f \in [1..N -> Seq(S)] : Fits(f, N)
    BY <1>1, <1>4
  <1>6. CASE N = 0
    BY <1>6 DEF FlattenSeq
  <1>7. CASE N # 0
    <2> DEFINE Flatten(g) == g = [i \in 1..N |-> IF i = 1 THEN seqs[i] ELSE g[i - 1] \o seqs[i]]
               h == CHOOSE g : Flatten(g)
               U == {n \in Nat : n \in 1..N => h[n] \in Seq(S)}
    <2>1. Flatten(f)
      BY <1>5
    <2>2. Flatten(h)
      BY <2>1
    <2>3. FlattenSeq(seqs) = h[N]
      BY <1>7 DEF FlattenSeq
    <2>4. \A i \in 1..N : h[i] = IF i = 1 THEN seqs[i] ELSE h[i - 1] \o seqs[i]
      BY <2>2
    <2> HIDE DEF h
    <2>5. 0 \in U
      BY <1>1
    <2>6. ASSUME NEW n \in Nat, n \in U PROVE n + 1 \in U
      <3> SUFFICES ASSUME n + 1 \in 1..N PROVE h[n + 1] \in Seq(S)
        OBVIOUS
      <3>1. CASE n = 0
        BY <1>1, <2>4, <3>1
      <3>2. CASE n # 0
        <4>1. n \in 1..N /\ n + 1 # 1 /\ (n + 1) - 1 = n
          BY <1>1, <3>2
        <4>2. h[n] \in Seq(S) /\ seqs[n + 1] \in Seq(S)
          BY <1>1, <2>6, <4>1
        <4>3. h[n + 1] = h[n] \o seqs[n + 1]
          BY <2>4, <4>1
        <4> QED
          BY <4>2, <4>3, ConcatProperties
      <3> QED
        BY <3>1, <3>2
    <2>7. N \in U
      <3> HIDE DEF U, N
      <3> QED
        BY <1>1, <2>5, <2>6, Induction
    <2> QED
      BY <1>1, <1>7, <2>3, <2>7
  <1> QED
    BY <1>6, <1>7

LEMMA OwnRange ==
  ASSUME NEW S, NEW s \in Seq(S)
  PROVE  s \in Seq(ToSet(s))
  BY DEF ToSet

(* What the bootstrap script is given is a list of rows.                   *)
LEMMA ItemsType ==
  ASSUME NEW tenants \in {Real, Demo \o Real}
  PROVE  ItemsOf(tenants) \in Seq(ToSet(ItemsOf(tenants)))
  <1> DEFINE T == ToSet(Real) \cup ToSet(Demo)
             Own(t) == [j \in 1..Len(Members[t]) |-> MemberOf(t, Members[t][j])]
             S == {Tenant(t) : t \in T} \cup UNION {{Own(t)[j] : j \in 1..Len(Members[t])} : t \in T}
             seqs == [i \in 1..Len(tenants) |-> <<Tenant(tenants[i])>> \o Own(tenants[i])]
  <1>1. tenants \in Seq(T)
    <2>1. Real \in Seq(T) /\ Demo \in Seq(T)
      BY ListsAssumption, SeqMonotonic
    <2> HIDE DEF T
    <2> QED
      BY <2>1, ConcatProperties
  <1>2. ASSUME NEW t \in T PROVE Own(t) \in Seq(S) /\ <<Tenant(t)>> \in Seq(S)
    <2>1. Len(Members[t]) \in Nat
      BY ListsAssumption, <1>2
    <2>2. \A j \in 1..Len(Members[t]) : Own(t)[j] \in S
      OBVIOUS
    <2>3. Tenant(t) \in S
      OBVIOUS
    <2>4. Own(t) \in [1..Len(Members[t]) -> S]
      BY <2>2
    <2> HIDE DEF S, Own
    <2> QED
      BY <2>1, <2>3, <2>4
  <1> HIDE DEF S, T, Own
  <1>3. ASSUME NEW i \in 1..Len(tenants) PROVE seqs[i] \in Seq(S)
    <2>1. tenants[i] \in T
      BY <1>1
    <2> QED
      BY <1>2, <2>1, ConcatProperties
  <1>4. seqs \in Seq(Seq(S))
    <2>1. Len(tenants) \in Nat
      BY <1>1
    <2>2. seqs \in [1..Len(tenants) -> Seq(S)]
      BY <1>3
    <2> HIDE DEF seqs
    <2> QED
      BY <2>1, <2>2
  <1>5. ItemsOf(tenants) = FlattenSeq(seqs)
    BY DEF ItemsOf, Own
  <1> HIDE DEF seqs
  <1> QED
    BY <1>4, <1>5, FlattenType, OwnRange

-----------------------------------------------------------------------------
(* The inductive invariant.                                                *)
(*                                                                         *)
(* A migration, by the service or by a process that starts, is at the      *)
(* transaction before which the earlier ones have done their work.         *)
MigrationOK(left, last, d) ==
  \E n \in 0..(last - 1) : Ahead(left, n, last) /\ Passed(d, n)

(* What it reports as done is done.                                        *)
CliOK(c, e, d) ==
  /\ c \in [at : {"idle", "running", "done", "failed"}, passwords : BOOLEAN, left : Seq(Names)]
  /\ c.at = "running" => MigrationOK(c.left, 5, d)
  /\ c.at = "done" => Passed(d, 3) /\ (Restricted(e) => Passed(d, 5))

Ready(url, d) ==
  (url = "owner" \/ (url = "app_runtime" /\ url \in d.login)) /\ "sessions" \in d.forced

(* A process that is up was let in by the gates, and one that serves from  *)
(* Postgres found it ready.                                                *)
ApiOK(a, e, d) ==
  /\ DOMAIN a = {"at", "s", "left"}
  /\ a.at \in {"down", "migrate", "ready", "seed", "serving"}
  /\ a.at # "down" => a.s \in Configs /\ a.s.env = e /\ MayStart(a.s)
  /\ a.at = "migrate" => MigrationOK(a.left, 3, d)
  /\ a.at \in {"seed", "serving"} /\ a.s.storage = "postgres" => Ready(a.s.url, d)

In(item, r) == \E x \in r : x.tenant = item.tenant /\ x.member = item.member

(* Of a script's list what is not in the database is still to come.        *)
ScriptOK(x, r) ==
  /\ DOMAIN x = {"at", "url", "left", "spec"}
  /\ x.at \in {"idle", "check", "create", "done", "failed"}
  /\ x.at \in {"check", "create"} =>
       \A i \in ToSet(x.spec) :
         In(i, r) \/ (x.left \in Seq(ToSet(x.spec)) /\ i \in ToSet(x.left))
  /\ x.at = "done" => \A i \in ToSet(x.spec) : In(i, r)

IInv ==
  /\ env \in Environments
  /\ Sound(db)
  /\ CliOK(cli, env, db)
  /\ DOMAIN api = Replicas /\ \A r \in Replicas : ApiOK(api[r], env, db)
  /\ DOMAIN script = Operators /\ \A o \in Operators : ScriptOK(script[o], rows)
  /\ faults \in 0..MaxFaults

LEMMA ReadyIs == \A url : RlsReady(url) <=> Ready(url, db)
  BY DEF RlsReady, CanLogin, Ready

LEMMA ExistsIs == \A i : Exists(i) <=> In(i, rows)
  BY DEF Exists, In

LEMMA MigrationGrows ==
  ASSUME NEW d, NEW e, Grows(d, e), NEW left, NEW last \in Nat, MigrationOK(left, last, d)
  PROVE  MigrationOK(left, last, e)
  BY PassedGrows DEF MigrationOK

LEMMA CliGrows ==
  ASSUME NEW d, NEW e, Grows(d, e), NEW c, NEW v, CliOK(c, v, d)
  PROVE  CliOK(c, v, e)
  BY MigrationGrows, PassedGrows DEF CliOK

LEMMA ApiGrows ==
  ASSUME NEW d, NEW e, Grows(d, e), NEW a, NEW v, ApiOK(a, v, d)
  PROVE  ApiOK(a, v, e)
  <1>1. a.at = "migrate" => MigrationOK(a.left, 3, e)
    BY MigrationGrows DEF ApiOK
  <1>2. Ready(a.s.url, d) => Ready(a.s.url, e)
    BY DEF Grows, Ready
  <1> QED
    BY <1>1, <1>2 DEF ApiOK

LEMMA ScriptGrows ==
  ASSUME NEW r, NEW q, \A i : In(i, r) => In(i, q), NEW x, ScriptOK(x, r)
  PROVE  ScriptOK(x, q)
  BY DEF ScriptOK

(* A row that is written over is still there.                              *)
LEMMA PutKeeps ==
  ASSUME NEW item, rows' = Put(item)
  PROVE  /\ \A i : In(i, rows) => In(i, rows')
         /\ In(item, rows')
  <1>1. item \in rows'
    BY DEF Put
  <1>2. ASSUME NEW i, In(i, rows) PROVE In(i, rows')
    <2>1. PICK x \in rows : x.tenant = i.tenant /\ x.member = i.member
      BY <1>2 DEF In
    <2>2. CASE x.tenant # item.tenant \/ x.member # item.member
      <3>1. x \in rows'
        BY <2>2 DEF Put
      <3> QED
        BY <2>1, <3>1 DEF In
    <2>3. CASE x.tenant = item.tenant /\ x.member = item.member
      BY <1>1, <2>1, <2>3 DEF In
    <2> QED
      BY <2>2, <2>3
  <1> QED
    BY <1>1, <1>2 DEF In

(* The transaction a migration is at, and what is left after it.           *)
LEMMA MigrationApplies ==
  ASSUME NEW d, Sound(d), NEW left, NEW last \in {3, 5}, MigrationOK(left, last, d),
         NEW password \in BOOLEAN
  PROVE  /\ Sound(Apply(d, Head(left), password))
         /\ Grows(d, Apply(d, Head(left), password))
         /\ Len(left) # 1 => MigrationOK(Tail(left), last, Apply(d, Head(left), password))
         /\ Len(left) = 1 => Passed(Apply(d, Head(left), password), last)
  <1>1. PICK n \in 0..(last - 1) : Ahead(left, n, last) /\ Passed(d, n)
    BY DEF MigrationOK
  <1>2. /\ Head(left) = StepName[n + 1]
        /\ Len(left) = 1 <=> n + 1 = last
        /\ n + 1 < last => Ahead(Tail(left), n + 1, last)
    BY <1>1, AheadStep
  <1>3. n \in 0..4
    OBVIOUS
  <1> DEFINE e == Apply(d, Head(left), password)
  <1>4. Sound(e) /\ Grows(d, e) /\ Passed(e, n + 1)
    BY <1>1, <1>2, <1>3, ApplySound
  <1> HIDE DEF e
  <1>5. ASSUME Len(left) # 1 PROVE MigrationOK(Tail(left), last, e)
    <2>1. n + 1 \in 0..(last - 1) /\ n + 1 < last
      BY <1>2, <1>5
    <2> QED
      BY <1>2, <1>4, <2>1 DEF MigrationOK
  <1>6. ASSUME Len(left) = 1 PROVE Passed(e, last)
    BY <1>2, <1>4, <1>6
  <1> QED
    BY <1>4, <1>5, <1>6 DEF e

(* Only the transactions of the roles come after the schema is complete.   *)
LEMMA RolesLast ==
  ASSUME NEW d, NEW left, MigrationOK(left, 5, d), Head(left) \notin ToSet(InitializeAll)
  PROVE  Passed(d, 3)
  <1>1. PICK n \in 0..4 : Ahead(left, n, 5) /\ Passed(d, n)
    BY DEF MigrationOK
  <1>2. Head(left) = StepName[n + 1]
    BY <1>1, AheadStep
  <1>3. \A i \in 1..3 : StepName[i] \in ToSet(InitializeAll)
    BY DEF StepName, InitializeAll, ToSet
  <1>4. n >= 3
    BY <1>2, <1>3
  <1> QED
    BY <1>1, <1>4 DEF Passed

-----------------------------------------------------------------------------
LEMMA EmptySound == Sound(Empty)
  <1>1. Empty \in Database
    BY DEF Empty, Database
  <1>2. Empty.granted["app_runtime"] = {}
    BY DEF Empty, Roles
  <1>3. Empty.forced = {} /\ Empty.tables = {} /\ Empty.login = {} /\ Empty.roles = {}
    BY DEF Empty
  <1> QED
    BY <1>1, <1>2, <1>3 DEF Sound, Guarded, Dumped, Usable

LEMMA EarlierSound ==
  ASSUME NEW backup \in BOOLEAN
  PROVE  Sound(Earlier(backup))
  <1> DEFINE d == Earlier(backup)
             old == Tables \ Later
             present == IF backup THEN Roles ELSE {"app_runtime"}
  <1>1. /\ d.tables = old /\ d.forced = (Scoped \cup ScopedCheckpoint) \ Later
        /\ d.roles = present /\ d.login = present /\ d.defaults = backup
        /\ d.granted = [r \in Roles |-> IF r \in present THEN old ELSE {}]
    BY DEF Earlier
  <1>2. present \subseteq Roles /\ ("backup_role" \in present => backup)
    BY DEF Roles
  <1>3. d \in Database
    <2>1. (Scoped \cup ScopedCheckpoint) \ Later \subseteq Tables
      BY TablesBelong
    <2> HIDE DEF present
    <2>2. [r \in Roles |-> IF r \in present THEN old ELSE {}] \in [Roles -> SUBSET Tables]
      OBVIOUS
    <2> QED
      BY <1>2, <2>1, <2>2 DEF Earlier, Database, present
  <1>4. "app_runtime" \in Roles /\ "backup_role" \in Roles /\ "app_runtime" \in present
    BY DEF Roles
  <1>5. "sessions" \in old
    BY TablesAssumption DEF Tables, Business, Data
  <1>6. d.forced \subseteq d.tables
    BY <1>1, TablesBelong
  <1> HIDE DEF d, old, present
  <1>7. d.granted["app_runtime"] = old
    BY <1>1, <1>4
  <1>8. "backup_role" \in present => d.granted["backup_role"] = old
    BY <1>1, <1>4
  <1>9. old \cap (Scoped \cup ScopedCheckpoint) \subseteq d.forced
    BY <1>1 DEF old
  <1> QED
    BY <1>1, <1>2, <1>3, <1>5, <1>6, <1>7, <1>8, <1>9 DEF Sound, Guarded, Dumped, Usable, d

LEMMA InitInv == Init => IInv
  <1> SUFFICES ASSUME Init PROVE IInv
    OBVIOUS
  <1>1. env \in Environments
    BY ConfigsAssumption DEF Init, Settings
  <1>2. Sound(db)
    BY EmptySound, EarlierSound DEF Init
  <1>3. CliOK(cli, env, db)
    BY DEF Init, Idle, CliOK
  <1>4. DOMAIN api = Replicas /\ \A r \in Replicas : ApiOK(api[r], env, db)
    BY DEF Init, Down, ApiOK
  <1>5. DOMAIN script = Operators /\ \A o \in Operators : ScriptOK(script[o], rows)
    BY DEF Init, NoRun, ScriptOK
  <1>6. faults \in 0..MaxFaults
    BY BoundsAssumption DEF Init
  <1> QED
    BY <1>1, <1>2, <1>3, <1>4, <1>5, <1>6 DEF IInv

-----------------------------------------------------------------------------
(* The migration service.                                                  *)
LEMMA MigrateStartInv ==
  ASSUME IInv, MigrateStart
  PROVE  IInv'
  <1>1. PICK s \in Configs :
          cli' = [at |-> "running", passwords |-> s.passwords, left |-> Steps]
    BY DEF MigrateStart
  <1>2. s.passwords \in BOOLEAN
    BY ConfigsAssumption DEF Settings
  <1>3. Passed(db, 0) /\ Ahead(Steps, 0, 5)
    BY AllAhead DEF Passed
  <1>4. MigrationOK(Steps, 5, db)
    BY <1>3 DEF MigrationOK
  <1>5. Steps \in Seq(Names)
    BY AllAhead DEF Ahead
  <1>6. CliOK(cli', env, db)
    BY <1>1, <1>2, <1>4, <1>5 DEF CliOK
  <1> QED
    BY <1>6 DEF MigrateStart, IInv

LEMMA MigrateStepInv ==
  ASSUME IInv, MigrateStep
  PROVE  IInv'
  <1>1. /\ cli.at = "running" /\ db' = Apply(db, Head(cli.left), cli.passwords)
        /\ cli' = [cli EXCEPT !.at = IF Len(cli.left) = 1 THEN "done" ELSE @, !.left = Tail(@)]
        /\ UNCHANGED <<env, rows, api, script, faults>>
    BY DEF MigrateStep
  <1>2. MigrationOK(cli.left, 5, db) /\ cli.passwords \in BOOLEAN /\ cli.left \in Seq(Names)
    BY <1>1 DEF IInv, CliOK
  <1>3. /\ Sound(db') /\ Grows(db, db')
        /\ Len(cli.left) # 1 => MigrationOK(Tail(cli.left), 5, db')
        /\ Len(cli.left) = 1 => Passed(db', 5)
    BY <1>1, <1>2, MigrationApplies DEF IInv
  <1>4. Tail(cli.left) \in Seq(Names)
    <2>1. cli.left # <<>>
      BY <1>2 DEF MigrationOK, Ahead
    <2> QED
      BY <1>2, <2>1
  <1>7. Passed(db', 5) => Passed(db', 3)
    BY DEF Passed
  <1>5. CliOK(cli', env, db')
    BY <1>1, <1>3, <1>4, <1>7 DEF IInv, CliOK
  <1>6. \A r \in Replicas : ApiOK(api[r], env, db')
    BY <1>3, ApiGrows DEF IInv
  <1> QED
    BY <1>1, <1>3, <1>5, <1>6 DEF IInv

LEMMA MigrateFailInv ==
  ASSUME IInv, MigrateFail
  PROVE  IInv'
  <1>1. PICK code \in {"failed", "done"} :
          /\ cli' = [cli EXCEPT !.at = code, !.left = <<>>]
          /\ code = "done" => Head(cli.left) \notin ToSet(InitializeAll) /\ ~Restricted(env)
    BY DEF MigrateFail, ExitCode
  <1>5. code = "done" => Passed(db, 3)
    BY <1>1, RolesLast DEF MigrateFail, IInv, CliOK
  <1>2. <<>> \in Seq(Names)
    OBVIOUS
  <1>3. CliOK(cli', env, db)
    BY <1>1, <1>2, <1>5 DEF IInv, CliOK
  <1>4. faults' \in 0..MaxFaults
    BY BoundsAssumption DEF MigrateFail, Fault, IInv
  <1> QED
    BY <1>3, <1>4 DEF MigrateFail, IInv

-----------------------------------------------------------------------------
(* The API processes.  One of them moves, and the others see no more than  *)
(* a database that grew.                                                   *)
LEMMA OneApi ==
  ASSUME IInv, NEW r \in Replicas, NEW a, api' = [api EXCEPT ![r] = a],
         ApiOK(a, env, db'), Sound(db'), Grows(db, db'), NEW more, rows' = more,
         \A i : In(i, rows) => In(i, more),
         UNCHANGED <<env, cli, script>>, faults' \in 0..MaxFaults
  PROVE  IInv'
  <1>1. CliOK(cli, env, db')
    BY CliGrows DEF IInv
  <1>2. DOMAIN api' = Replicas
    BY DEF IInv
  <1>3. ASSUME NEW q \in Replicas PROVE ApiOK(api'[q], env, db')
    <2>1. api'[q] = IF q = r THEN a ELSE api[q]
      BY DEF IInv
    <2> QED
      BY <2>1, ApiGrows DEF IInv
  <1>4. ASSUME NEW o \in Operators PROVE ScriptOK(script[o], rows')
    BY ScriptGrows DEF IInv
  <1> QED
    BY <1>1, <1>2, <1>3, <1>4 DEF IInv

LEMMA GrowsNot ==
  ASSUME UNCHANGED db
  PROVE  Grows(db, db')
  BY DEF Grows

LEMMA StartInv ==
  ASSUME IInv, NEW r \in Replicas, Start(r)
  PROVE  IInv'
  <1>1. PICK s \in Configs :
          /\ s.env = env /\ MayStart(s)
          /\ api' = [api EXCEPT ![r] =
               [at |-> IF s.storage # "postgres" THEN "serving"
                       ELSE IF s.on_startup THEN "migrate" ELSE "ready",
                s |-> s, left |-> InitializeAll]]
    BY DEF Start
  <1> DEFINE at == IF s.storage # "postgres" THEN "serving"
                   ELSE IF s.on_startup THEN "migrate" ELSE "ready"
             a == [at |-> at, s |-> s, left |-> InitializeAll]
  <1>2. at \in {"migrate", "ready", "serving"} /\ (at = "serving" => s.storage # "postgres")
    OBVIOUS
  <1>3. MigrationOK(InitializeAll, 3, db)
    BY AllAhead DEF MigrationOK, Passed
  <1> HIDE DEF at
  <1>4. DOMAIN a = {"at", "s", "left"} /\ a.at = at /\ a.s = s /\ a.left = InitializeAll
    OBVIOUS
  <1>5. api' = [api EXCEPT ![r] = a]
    BY <1>1 DEF at
  <1> HIDE DEF a
  <1>6. ApiOK(a, env, db)
    BY <1>1, <1>2, <1>3, <1>4 DEF ApiOK
  <1>7. UNCHANGED <<env, db, rows, cli, script, faults>>
    BY DEF Start
  <1> QED
    BY <1>5, <1>6, <1>7, GrowsNot, OneApi DEF IInv

LEMMA DownOK == \A e, d : ApiOK(Down, e, d)
  BY DEF ApiOK, Down

LEMMA StartupMigrationInv ==
  ASSUME IInv, NEW r \in Replicas, StartupMigration(r)
  PROVE  IInv'
  <1> DEFINE a == api[r]
  <1>1. ApiOK(a, env, db) /\ a.at = "migrate" /\ UNCHANGED <<env, rows, cli, script, faults>>
    BY DEF StartupMigration, IInv
  <1>2. CASE a.s.url # "owner"
    <2>1. api' = [api EXCEPT ![r] = Down] /\ UNCHANGED db
      BY <1>2 DEF StartupMigration
    <2> QED
      BY <1>1, <2>1, DownOK, GrowsNot, OneApi DEF IInv
  <1>3. CASE a.s.url = "owner"
    <2> DEFINE b == [a EXCEPT !.at = IF Len(a.left) = 1 THEN "ready" ELSE @, !.left = Tail(@)]
    <2>1. db' = Apply(db, Head(a.left), FALSE)
      BY <1>3 DEF StartupMigration
    <2>2. api' = [api EXCEPT ![r] = b]
      <3>1. api' = [api EXCEPT ![r].at = IF Len(a.left) = 1 THEN "ready" ELSE @,
                               ![r].left = Tail(@)]
        BY <1>3 DEF StartupMigration
      <3> QED
        BY <3>1 DEF IInv
    <2>3. /\ Sound(db') /\ Grows(db, db')
          /\ Len(a.left) # 1 => MigrationOK(Tail(a.left), 3, db')
      BY <1>1, <2>1, MigrationApplies DEF IInv, ApiOK
    <2>4. /\ DOMAIN b = {"at", "s", "left"} /\ b.s = a.s /\ b.left = Tail(a.left)
          /\ b.at = IF Len(a.left) = 1 THEN "ready" ELSE "migrate"
      BY <1>1 DEF ApiOK
    <2> HIDE DEF a, b
    <2>5. ApiOK(b, env, db')
      BY <1>1, <2>3, <2>4 DEF ApiOK
    <2> QED
      BY <1>1, <2>2, <2>3, <2>5, OneApi DEF IInv
  <1> QED
    BY <1>2, <1>3

LEMMA RequirePostgresReadyInv ==
  ASSUME IInv, NEW r \in Replicas, RequirePostgresReady(r)
  PROVE  IInv'
  <1> DEFINE a == api[r]
             seeding == [a EXCEPT !.at = "seed", !.left = SeedItems]
             serving == [a EXCEPT !.at = "serving", !.left = <<>>]
  <1>1. ApiOK(a, env, db) /\ a.at = "ready" /\ UNCHANGED <<env, db, rows, cli, script, faults>>
    BY DEF RequirePostgresReady, IInv
  <1>2. PICK b : /\ api' = [api EXCEPT ![r] = b]
                 /\ \/ b = Down
                    \/ Ready(a.s.url, db) /\ b \in {seeding, serving}
    BY ReadyIs DEF RequirePostgresReady
  <1>3. ASSUME Ready(a.s.url, db), b \in {seeding, serving} PROVE ApiOK(b, env, db)
    <2>1. DOMAIN b = {"at", "s", "left"} /\ b.s = a.s /\ b.at \in {"seed", "serving"}
      BY <1>1, <1>3 DEF ApiOK
    <2> HIDE DEF a, seeding, serving
    <2> QED
      BY <1>1, <1>3, <2>1 DEF ApiOK
  <1>4. ApiOK(b, env, db)
    BY <1>2, <1>3, DownOK
  <1> QED
    BY <1>1, <1>2, <1>4, GrowsNot, OneApi DEF IInv

LEMMA SeedInv ==
  ASSUME IInv, NEW r \in Replicas, Seed(r)
  PROVE  IInv'
  <1> DEFINE a == api[r]
             serving == [a EXCEPT !.at = "serving", !.left = <<>>]
             seeding == [a EXCEPT !.left = Tail(@)]
  <1>1. ApiOK(a, env, db) /\ a.at = "seed" /\ UNCHANGED <<env, db, cli, script, faults>>
    BY DEF Seed, IInv
  <1>2. PICK b \in {serving, seeding} : api' = [api EXCEPT ![r] = b]
    BY DEF Seed
  <1>3. rows' = rows \/ rows' = Put(Head(a.left))
    BY DEF Seed
  <1>4. \A i : In(i, rows) => In(i, rows')
    BY <1>3, PutKeeps
  <1>5. DOMAIN b = {"at", "s", "left"} /\ b.s = a.s /\ b.at \in {"seed", "serving"}
    BY <1>1 DEF ApiOK
  <1> HIDE DEF a, serving, seeding
  <1>6. ApiOK(b, env, db)
    BY <1>1, <1>5 DEF ApiOK
  <1> QED
    BY <1>1, <1>2, <1>4, <1>6, GrowsNot, OneApi DEF IInv

LEMMA CrashInv ==
  ASSUME IInv, NEW r \in Replicas, Crash(r)
  PROVE  IInv'
  <1>1. api' = [api EXCEPT ![r] = Down] /\ UNCHANGED <<env, db, rows, cli, script>>
    BY DEF Crash
  <1>2. faults' \in 0..MaxFaults
    BY BoundsAssumption DEF Crash, Fault, IInv
  <1> QED
    BY <1>1, <1>2, DownOK, GrowsNot, OneApi DEF IInv

-----------------------------------------------------------------------------
(* The bootstrap script.                                                   *)
LEMMA OneScript ==
  ASSUME IInv, NEW o \in Operators, NEW x, script' = [script EXCEPT ![o] = x],
         ScriptOK(x, rows'), \A i : In(i, rows) => In(i, rows'),
         UNCHANGED <<env, db, cli, api>>, faults' \in 0..MaxFaults
  PROVE  IInv'
  <1>1. DOMAIN script' = Operators
    BY DEF IInv
  <1>2. ASSUME NEW p \in Operators PROVE ScriptOK(script'[p], rows')
    <2>1. script'[p] = IF p = o THEN x ELSE script[p]
      BY DEF IInv
    <2>2. ScriptOK(script[p], rows')
      BY ScriptGrows DEF IInv
    <2> QED
      BY <2>1, <2>2
  <1> QED
    BY <1>1, <1>2 DEF IInv

LEMMA BootstrapInv ==
  ASSUME IInv, NEW o \in Operators, Bootstrap(o)
  PROVE  IInv'
  <1>1. PICK s \in Configs, tenants \in {Real, Demo \o Real} :
          script' = [script EXCEPT ![o] =
            [at |-> "check", url |-> s.url, left |-> ItemsOf(tenants), spec |-> ItemsOf(tenants)]]
    BY DEF Bootstrap
  <1> DEFINE items == ItemsOf(tenants)
             x == [at |-> "check", url |-> s.url, left |-> items, spec |-> items]
  <1>2. items \in Seq(ToSet(items))
    BY ItemsType
  <1>3. script' = [script EXCEPT ![o] = x]
    BY <1>1
  <1> HIDE DEF items
  <1>4. ScriptOK(x, rows)
    BY <1>2 DEF ScriptOK
  <1>5. UNCHANGED <<env, db, rows, cli, api, faults>>
    BY DEF Bootstrap
  <1> HIDE DEF x
  <1> QED
    BY <1>3, <1>4, <1>5, OneScript DEF IInv

LEMMA FailedOK ==
  ASSUME NEW x, NEW r, ScriptOK(x, r)
  PROVE  ScriptOK(Failed(x), r)
  BY DEF ScriptOK, Failed

(* The head of the list is in the database: the rest goes on.              *)
LEMMA GoesOK ==
  ASSUME NEW x, NEW r, ScriptOK(x, r), x.at \in {"check", "create"}, NEW q,
         \A i : In(i, r) => In(i, q), In(Head(x.left), q)
  PROVE  ScriptOK(Goes(x, Tail(x.left)), q)
  <1> DEFINE y == Goes(x, Tail(x.left))
             S == ToSet(x.spec)
  <1>1. /\ DOMAIN y = {"at", "url", "left", "spec"} /\ y.spec = x.spec
        /\ y.left = Tail(x.left)
        /\ y.at = IF Tail(x.left) = <<>> THEN "done" ELSE "check"
    BY DEF ScriptOK, Goes
  <1>2. ASSUME NEW i \in S
        PROVE  In(i, q) \/ (Tail(x.left) \in Seq(S) /\ i \in ToSet(Tail(x.left)))
    <2>1. CASE In(i, r)
      BY <2>1
    <2>2. CASE x.left \in Seq(S) /\ i \in ToSet(x.left)
      <3>1. PICK j \in DOMAIN x.left : x.left[j] = i
        BY <2>2 DEF ToSet
      <3>2. Len(x.left) \in Nat /\ DOMAIN x.left = 1..Len(x.left) /\ x.left # <<>>
        BY <2>2, <3>1
      <3>3. CASE j = 1
        BY <2>2, <3>1, <3>2, <3>3
      <3>4. CASE j # 1
        <4>1. /\ Tail(x.left) \in Seq(S) /\ Len(Tail(x.left)) = Len(x.left) - 1
              /\ \A k \in 1..Len(Tail(x.left)) : Tail(x.left)[k] = x.left[k + 1]
          BY <2>2, <3>2, HeadTailProperties
        <4>2. j - 1 \in 1..Len(Tail(x.left)) /\ (j - 1) + 1 = j
          BY <3>1, <3>2, <3>4, <4>1
        <4>3. Tail(x.left)[j - 1] = i
          BY <3>1, <4>1, <4>2
        <4>4. DOMAIN Tail(x.left) = 1..Len(Tail(x.left))
          BY <4>1
        <4> QED
          BY <4>1, <4>2, <4>3, <4>4 DEF ToSet
      <3> QED
        BY <3>3, <3>4
    <2> QED
      BY <1>2, <2>1, <2>2 DEF ScriptOK
  <1>3. ToSet(<<>>) = {}
    BY DEF ToSet
  <1> HIDE DEF y
  <1>4. CASE Tail(x.left) = <<>>
    BY <1>1, <1>2, <1>3, <1>4 DEF ScriptOK, y
  <1>5. CASE Tail(x.left) # <<>>
    BY <1>1, <1>2, <1>5 DEF ScriptOK, y
  <1> QED
    BY <1>4, <1>5

LEMMA CheckItemInv ==
  ASSUME IInv, NEW o \in Operators, CheckItem(o)
  PROVE  IInv'
  <1> DEFINE x == script[o]
             creating == [x EXCEPT !.at = "create"]
  <1>1. ScriptOK(x, rows) /\ x.at = "check" /\ UNCHANGED <<env, db, rows, cli, api, faults>>
    BY DEF CheckItem, IInv
  <1>2. PICK y : /\ script' = [script EXCEPT ![o] = y]
                 /\ \/ y = Failed(x) \/ y = creating
                    \/ In(Head(x.left), rows) /\ y = Goes(x, Tail(x.left))
    BY ExistsIs DEF CheckItem, Skipped
  <1>3. ScriptOK(creating, rows)
    BY <1>1 DEF ScriptOK
  <1> HIDE DEF x, creating
  <1>4. ScriptOK(y, rows)
    BY <1>1, <1>2, <1>3, FailedOK, GoesOK
  <1> QED
    BY <1>1, <1>2, <1>4, OneScript DEF IInv

LEMMA CreateItemInv ==
  ASSUME IInv, NEW o \in Operators, CreateItem(o)
  PROVE  IInv'
  <1> DEFINE x == script[o]
  <1>1. ScriptOK(x, rows) /\ x.at = "create" /\ UNCHANGED <<env, db, cli, api, faults>>
    BY DEF CreateItem, IInv
  <1>2. \/ rows' = rows /\ script' = [script EXCEPT ![o] = Failed(x)]
        \/ rows' = Put(Head(x.left)) /\ script' = [script EXCEPT ![o] = Goes(x, Tail(x.left))]
    BY DEF CreateItem
  <1> HIDE DEF x
  <1>3. CASE rows' = rows /\ script' = [script EXCEPT ![o] = Failed(x)]
    BY <1>1, <1>3, FailedOK, OneScript DEF IInv
  <1>4. CASE rows' = Put(Head(x.left)) /\ script' = [script EXCEPT ![o] = Goes(x, Tail(x.left))]
    <2>1. (\A i : In(i, rows) => In(i, rows')) /\ In(Head(x.left), rows')
      BY <1>4, PutKeeps
    <2>2. ScriptOK(Goes(x, Tail(x.left)), rows')
      BY <1>1, <2>1, GoesOK
    <2> QED
      BY <1>1, <1>4, <2>1, <2>2, OneScript DEF IInv
  <1> QED
    BY <1>2, <1>3, <1>4

LEMMA ScriptFailInv ==
  ASSUME IInv, NEW o \in Operators, ScriptFail(o)
  PROVE  IInv'
  <1>1. script' = [script EXCEPT ![o] = Failed(script[o])] /\ UNCHANGED <<env, db, rows, cli, api>>
    BY DEF ScriptFail
  <1>2. faults' \in 0..MaxFaults
    BY BoundsAssumption DEF ScriptFail, Fault, IInv
  <1>3. ScriptOK(Failed(script[o]), rows)
    BY FailedOK DEF IInv
  <1> QED
    BY <1>1, <1>2, <1>3, OneScript

-----------------------------------------------------------------------------
LEMMA NextInv == IInv /\ [Next]_vars => IInv'
  <1> SUFFICES ASSUME IInv, [Next]_vars PROVE IInv'
    OBVIOUS
  <1>1. CASE MigrateStart \/ MigrateStep \/ MigrateFail
    BY <1>1, MigrateStartInv, MigrateStepInv, MigrateFailInv
  <1>2. CASE \E r \in Replicas :
          Start(r) \/ StartupMigration(r) \/ RequirePostgresReady(r) \/ Seed(r) \/ Crash(r)
    BY <1>2, StartInv, StartupMigrationInv, RequirePostgresReadyInv, SeedInv, CrashInv
  <1>3. CASE \E o \in Operators : Bootstrap(o) \/ CheckItem(o) \/ CreateItem(o) \/ ScriptFail(o)
    BY <1>3, BootstrapInv, CheckItemInv, CreateItemInv, ScriptFailInv
  <1>4. CASE UNCHANGED vars
    BY <1>4 DEF vars, IInv
  <1> QED
    BY <1>1, <1>2, <1>3, <1>4 DEF Next

LEMMA Inductive == Spec => []IInv
  BY InitInv, NextInv, PTL DEF Spec

(* Database, migration, processes and scripts keep their types; a policy   *)
(* is only ever on a table that exists.                                    *)
THEOREM DeploymentTypes == Spec => []TypeOK
  <1>1. IInv => TypeOK
    BY DEF IInv, TypeOK, Sound, Database, CliOK, ApiOK, ScriptOK
  <1> QED
    BY <1>1, Inductive, PTL

(* In no order of transactions, restarts and start-ups is a tenant's data  *)
(* within reach of the runtime role without its policy, nor served by a    *)
(* process of a restricted environment that has passed the strict gate.    *)
THEOREM RlsHolds == Spec => []UnderRls
  <1>1. IInv => RuntimeUnderRls
    BY DEF IInv, Sound, Guarded, RuntimeUnderRls
  <1>2. ASSUME IInv PROVE ServedUnderRls
    <2> SUFFICES ASSUME NEW r \in Replicas, api[r].at = "serving", Restricted(env),
                        api[r].s.strict
                 PROVE  LET s == api[r].s IN
                        /\ s.storage = "postgres" /\ s.data = "postgres"
                        /\ CanUse(s.url, "sessions") /\ "sessions" \in db.forced
                        /\ db.granted[s.url] \cap (Scoped \cup ScopedCheckpoint) \subseteq db.forced
      BY DEF ServedUnderRls
    <2> DEFINE s == api[r].s
    <2>1. ApiOK(api[r], env, db) /\ Sound(db)
      BY <1>2 DEF IInv
    <2>2. s \in Configs /\ s.env = env /\ MayStart(s)
      BY <2>1 DEF ApiOK
    <2>3. s.strict
      OBVIOUS
    <2> HIDE DEF s
    <2>4. s.storage = "postgres" /\ s.data = "postgres"
      BY <2>2, <2>3 DEF MayStart, EnforceStrict, VerifyLaunchGate
    <2>5. s.url = "app_runtime"
      BY <2>2, <2>4, ConfigsAssumption DEF MayStart, BuildAdapter, BuildDataSource, Settings, Urls
    <2>6. Ready(s.url, db)
      BY <2>1, <2>4 DEF ApiOK, s
    <2>7. "sessions" \in db.forced /\ "app_runtime" \in db.login
      BY <2>5, <2>6 DEF Ready
    <2>8. "sessions" \in db.granted["app_runtime"] /\ "sessions" \in db.tables
      BY <2>1, <2>7 DEF Sound, Usable
    <2>9. CanUse(s.url, "sessions")
      BY <2>5, <2>7, <2>8 DEF CanUse, CanLogin
    <2>10. db.granted[s.url] \cap (Scoped \cup ScopedCheckpoint) \subseteq db.forced
      BY <2>1, <2>5 DEF Sound, Guarded
    <2> QED
      BY <2>4, <2>7, <2>9, <2>10 DEF s
  <1>3. IInv => UnderRls
    BY <1>1, <1>2 DEF UnderRls
  <1> QED
    BY <1>3, Inductive, PTL

(* The backup role can read every table there is, at every moment of every *)
(* migration, for any set of tables that a version adds.                   *)
THEOREM DumpHolds == Spec => []DumpComplete
  <1>1. IInv => DumpComplete
    BY DEF IInv, Sound, Dumped, DumpComplete
  <1> QED
    BY <1>1, Inductive, PTL

(* A migration that is run again never meets a database on which its next  *)
(* transaction could not be applied, and one that reports success has      *)
(* brought all it is there for, on whatever it began.                      *)
THEOREM MigrationHolds == Spec => []MigrationSound
  <1> SUFFICES IInv => MigrationSound
    BY Inductive, PTL
  <1> SUFFICES ASSUME IInv PROVE MigrationSound
    OBVIOUS
  <1>1. ASSUME cli.at = "running" PROVE Applicable(db, Head(cli.left))
    <2>1. PICK n \in 0..4 : Ahead(cli.left, n, 5) /\ Passed(db, n)
      BY <1>1 DEF IInv, CliOK, MigrationOK
    <2>2. Head(cli.left) = StepName[n + 1]
      BY <2>1, AheadStep
    <2>3. StepName[n + 1] = "checkpoint_rls" => n = 2
      BY DEF StepName
    <2> QED
      BY <2>1, <2>2, <2>3 DEF Applicable, Passed
  <1>2. Passed(db, 3) => SchemaComplete(db)
    BY TablesBelong DEF IInv, Sound, Database, Passed, SchemaComplete
  <1>3. ASSUME Passed(db, 5) PROVE Complete(db)
    <2>1. SchemaComplete(db)
      BY <1>2, <1>3 DEF Passed
    <2>2. db.roles \subseteq Roles /\ db.granted \in [Roles -> SUBSET Tables]
      BY DEF IInv, Sound, Database
    <2> QED
      BY <1>3, <2>1, <2>2 DEF Passed, Complete, Roles
  <1> QED
    BY <1>1, <1>2, <1>3 DEF IInv, CliOK, MigrationSound

(* However many operators run the script at once, fail half-way and start  *)
(* again, a run that ends well leaves its whole list in the database.      *)
THEOREM BootstrapHolds == Spec => []BootstrapDone
  <1>1. IInv => BootstrapDone
    BY ExistsIs DEF IInv, ScriptOK, BootstrapDone
  <1> QED
    BY <1>1, Inductive, PTL
=============================================================================
