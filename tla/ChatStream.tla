------------------------------- MODULE ChatStream -------------------------------
(***************************************************************************)
(* One chat request from the browser to the event log and back: POST       *)
(* /api/chat (src/api/routes.py), ChatRunner.run_start, run_resume and     *)
(* _replay (src/service/chat.py) over the streams of the PostgreSQL store, *)
(* and the SseChannel of the front end (frontend/lib/sse.ts, useSseChat).  *)
(*                                                                         *)
(* Every frame is appended to the log of its stream before it is sent, and *)
(* is known by its position there.  Several channels may post the same     *)
(* client_request_id (a request that is sent twice); connections may be    *)
(* lost at any time, and with them what was under way.  The generator that *)
(* runs the graph belongs to the connection that started it.               *)
(***************************************************************************)
EXTENDS Naturals, Sequences, FiniteSets, SequencesExt

CONSTANTS
  Readers,    \* SSE channels that use this request
  NoReader,
  MaxNodes,   \* bound: node events of the run
  MaxDedup,   \* MAX_DEDUP, the window of event ids a channel remembers
  MaxCuts     \* bound: connections lost

ASSUME NoReaderAssumption == NoReader \notin Readers
ASSUME BoundsAssumption ==
  MaxNodes \in Nat /\ MaxDedup \in Nat \ {0} /\ MaxCuts \in Nat

VARIABLES
  row,       \* the row in streams: none, live or past its expires_at
  access,    \* the session may be used: validate_session_owner accepts it
  log,       \* stream_events, by seq
  run,       \* the execution of the graph, and the connection it writes to
  serve,     \* the request each channel has at the server
  wire,      \* frames under way to each channel, and how the response ended
  ui,        \* the SseChannel and its hook
  cuts       \* connections lost so far

vars == <<row, access, log, run, serve, wire, ui, cuts>>

EventKind == {"accepted", "node", "token", "approval_required", "done", "error"}
End == {"approval_required", "done", "error"}
Ids == 1..(MaxNodes + 3)

Run ==
  [pc: {"none", "accept", "scope", "graph", "outcome", "verdict", "over", "cancelled",
        "raised"},
   by: Readers \cup {NoReader}, attached: BOOLEAN]
Serve ==
  [pc: {"off", "find", "create", "replay", "yield"}, cursor: 0..(MaxNodes + 3),
   todo: Seq(Ids)]
Wire == [frames: Seq(Ids), state: {"closed", "open", "ended", "broken"}]
Ui ==
  [phase: {"idle", "starting", "resuming", "over"}, known: BOOLEAN, lastId: 0..(MaxNodes + 3),
   seen: SUBSET Ids, shown: Seq(Ids), status: {"idle", "connecting", "done", "error", "network"}]

Off == [pc |-> "off", cursor |-> 0, todo |-> <<>>]

Init ==
  /\ row = "none"
  /\ access = TRUE
  /\ log = <<>>
  /\ run = [pc |-> "none", by |-> NoReader, attached |-> FALSE]
  /\ serve = [r \in Readers |-> Off]
  /\ wire = [r \in Readers |-> [frames |-> <<>>, state |-> "closed"]]
  /\ ui = [r \in Readers |->
             [phase |-> "idle", known |-> FALSE, lastId |-> 0, seen |-> {}, shown |-> <<>>,
              status |-> "idle"]]
  /\ cuts = 0

-----------------------------------------------------------------------------
(* The response to a channel.                                              *)
Open(r) == wire' = [wire EXCEPT ![r] = [frames |-> <<>>, state |-> "open"]]
Push(r, id) == wire' = [wire EXCEPT ![r].frames = Append(@, id)]
Finish(r, how) ==
  wire' = [wire EXCEPT ![r].state = IF @ = "open" THEN how ELSE @]
At(r, pc) == serve[r].pc = pc
ServeAt(r, pc) == serve' = [serve EXCEPT ![r].pc = pc]

-----------------------------------------------------------------------------
(* The request.                                                            *)

(* SseChannel.start: the endpoint refuses a session it does not accept,    *)
(* and otherwise opens the response.                                       *)
PostStart(r) ==
  /\ ui[r].phase = "idle"
  /\ \/ /\ access
        /\ ui' = [ui EXCEPT ![r] = [@ EXCEPT !.phase = "starting", !.status = "connecting"]]
        /\ serve' = [serve EXCEPT ![r] = [Off EXCEPT !.pc = "find"]]
        /\ Open(r)
     \/ /\ ~access
        /\ ui' = [ui EXCEPT ![r] = [@ EXCEPT !.phase = "over", !.status = "network"]]
        /\ UNCHANGED <<serve, wire>>
  /\ UNCHANGED <<row, access, log, run, cuts>>

(* find_stream_by_client: a request that has a stream is replayed.         *)
Find(r) ==
  /\ At(r, "find")
  /\ ServeAt(r, IF row = "none" THEN "create" ELSE "replay")
  /\ UNCHANGED <<row, access, log, run, wire, ui, cuts>>

(* Mutant: without UNIQUE (tenant_id, user_id, client_request_id).         *)
CreateStream_NotUnique(r) ==
  /\ At(r, "create")
  /\ row' = "live"
  /\ run' = [pc |-> "accept", by |-> r, attached |-> wire[r].state = "open"]
  /\ ServeAt(r, "off")
  /\ UNCHANGED <<access, log, wire, ui, cuts>>

(* create_stream: the loser of two inserts raises.                         *)
CreateStream(r) ==
  /\ At(r, "create")
  /\ \/ /\ row = "none"
        /\ row' = "live"
        /\ run' = [pc |-> "accept", by |-> r, attached |-> wire[r].state = "open"]
        /\ UNCHANGED wire
     \/ /\ row # "none"
        /\ Finish(r, "broken")
        /\ UNCHANGED <<row, run>>
  /\ ServeAt(r, "off")
  /\ UNCHANGED <<access, log, ui, cuts>>

-----------------------------------------------------------------------------
(* The run: append_event, and the frame if somebody is still connected.    *)
Emit(kind, pc) ==
  /\ log' = Append(log, kind)
  /\ run' = [run EXCEPT !.pc = pc]
  /\ IF run.attached
       THEN LET w == wire[run.by] IN
            wire' = [wire EXCEPT ![run.by] =
                       [frames |-> Append(w.frames, Len(log) + 1),
                        state |-> IF pc = "over" THEN "ended" ELSE w.state]]
       ELSE UNCHANGED wire
  /\ UNCHANGED <<row, access, serve, ui, cuts>>

Accept == run.pc = "accept" /\ Emit("accepted", "scope")

(* authorize_checkpoint_access: a session that is gone by now ends the     *)
(* response with an exception.                                             *)
EnterScope ==
  /\ run.pc = "scope"
  /\ IF access
       THEN run' = [run EXCEPT !.pc = "graph"] /\ UNCHANGED wire
       ELSE /\ run' = [run EXCEPT !.pc = "cancelled"]
            /\ IF run.attached THEN Finish(run.by, "broken") ELSE UNCHANGED wire
  /\ UNCHANGED <<row, access, log, serve, ui, cuts>>

GraphNode ==
  /\ run.pc = "graph"
  /\ Len(log) <= MaxNodes
  /\ Emit("node", "graph")

(* The graph stops at its end, at the interrupt or on an exception, which  *)
(* is swallowed; the state it left decides.                                *)
GraphEnd ==
  /\ run.pc = "graph"
  /\ run' = [run EXCEPT !.pc = "outcome"]
  /\ UNCHANGED <<row, access, log, serve, wire, ui, cuts>>

(* Nothing swallows what an access to the database raises outside of the   *)
(* graph's try: the first events, the checkpoint scope, the reading of the *)
(* state after the graph, or the last events.  The response breaks off and *)
(* no end is stored.                                                       *)
Raise ==
  /\ run.pc \in {"accept", "scope", "outcome", "verdict"}
  /\ run' = [run EXCEPT !.pc = "raised"]
  /\ IF run.attached THEN Finish(run.by, "broken") ELSE UNCHANGED wire
  /\ UNCHANGED <<row, access, log, serve, ui, cuts>>

EndApproval == run.pc = "outcome" /\ Emit("approval_required", "over")
Token == run.pc = "outcome" /\ Emit("token", "verdict")

(* Mutant: the error branch does not return.                               *)
EndError_FallsThrough ==
  run.pc \in {"outcome", "verdict"} /\ Emit("error", "verdict")

EndError == run.pc \in {"outcome", "verdict"} /\ Emit("error", "over")

(* Mutant: a run that has no answer to send returns without an event.      *)
EndDone_NoAnswer ==
  \/ run.pc = "verdict" /\ Emit("done", "over")
  \/ /\ run.pc = "outcome"
     /\ run' = [run EXCEPT !.pc = "over"]
     /\ IF run.attached THEN Finish(run.by, "ended") ELSE UNCHANGED wire
     /\ UNCHANGED <<row, access, log, serve, ui, cuts>>

EndDone == run.pc \in {"outcome", "verdict"} /\ Emit("done", "over")

(* The server notices that the connection is gone and cancels the          *)
(* generator, and with it the graph.                                       *)
Cancel ==
  /\ run.pc \notin {"none", "over", "cancelled", "raised"}
  /\ ~run.attached
  /\ run' = [run EXCEPT !.pc = "cancelled"]
  /\ UNCHANGED <<row, access, log, serve, wire, ui, cuts>>

-----------------------------------------------------------------------------
(* The replay, of a second start or a resume.                              *)

(* events_after, in the order of seq.                                      *)
EventsAfter(cursor) == [i \in 1..(Len(log) - cursor) |-> cursor + i]

(* _replay checks the owner, the session and the expiry once more.         *)
StartReplay(r) ==
  /\ At(r, "replay")
  /\ \/ /\ row = "live" /\ access
        /\ serve' = [serve EXCEPT ![r] =
                       [@ EXCEPT !.pc = "yield", !.todo = EventsAfter(serve[r].cursor)]]
        /\ UNCHANGED wire
     \/ /\ ~(row = "live" /\ access)
        /\ serve' = [serve EXCEPT ![r] = Off]
        /\ Finish(r, "broken")
  /\ UNCHANGED <<row, access, log, run, ui, cuts>>

(* One frame per step; the response ends with the last event there was.    *)
YieldFrame(r) ==
  /\ At(r, "yield")
  /\ \/ /\ serve[r].todo # <<>> /\ wire[r].state = "open"
        /\ Push(r, Head(serve[r].todo))
        /\ serve' = [serve EXCEPT ![r].todo = Tail(@)]
     \/ /\ serve[r].todo = <<>> \/ wire[r].state # "open"
        /\ serve' = [serve EXCEPT ![r] = Off]
        /\ Finish(r, "ended")
  /\ UNCHANGED <<row, access, log, run, ui, cuts>>

-----------------------------------------------------------------------------
(* The channel.                                                            *)

(* The dedup window keeps the latest ids.                                  *)
Window(ids) ==
  {i \in ids : Cardinality({j \in ids : j > i}) < MaxDedup}

StatusAfter(kind, status) == IF kind \in {"done", "error"} THEN kind ELSE status

(* handleFrames: a frame is shown unless its id is in the window.          *)
ReadFrame(r) ==
  LET id == Head(wire[r].frames)
      u == ui[r]
  IN
  /\ wire[r].frames # <<>>
  /\ wire' = [wire EXCEPT ![r].frames = Tail(@)]
  /\ IF id \in u.seen THEN UNCHANGED ui
     ELSE ui' = [ui EXCEPT ![r] =
            [u EXCEPT !.seen = Window(u.seen \cup {id}),
                      !.lastId = id,
                      !.shown = Append(@, id),
                      !.known = @ \/ log[id] = "accepted",
                      !.status = StatusAfter(log[id], @)]]
  /\ UNCHANGED <<row, access, log, run, serve, cuts>>

(* The response is over; the status stays what the last frame made it.     *)
ResponseOver(r) ==
  /\ wire[r].state = "ended" /\ wire[r].frames = <<>>
  /\ wire' = [wire EXCEPT ![r].state = "closed"]
  /\ ui' = [ui EXCEPT ![r].phase = "over"]
  /\ UNCHANGED <<row, access, log, run, serve, cuts>>

(* Mutant: the cursor is the number of frames the window remembers.        *)
Resume_CursorFromWindow(r) ==
  /\ ui' = [ui EXCEPT ![r] = [@ EXCEPT !.phase = "resuming", !.status = "connecting"]]
  /\ serve' = [serve EXCEPT ![r] =
                 [Off EXCEPT !.pc = "replay", !.cursor = Cardinality(ui[r].seen)]]
  /\ Open(r)

(* SseChannel.resume, after validate_stream_owner.                         *)
Resume(r) ==
  /\ ui' = [ui EXCEPT ![r] = [@ EXCEPT !.phase = "resuming", !.status = "connecting"]]
  /\ serve' = [serve EXCEPT ![r] = [Off EXCEPT !.pc = "replay", !.cursor = ui[r].lastId]]
  /\ Open(r)

(* A read fails.  The one automatic action is a resume, once, and only     *)
(* when the stream is known; the rest is shown as an error.                *)
ReadError(r) ==
  /\ wire[r].state = "broken" /\ wire[r].frames = <<>>
  /\ \/ /\ ui[r].phase = "starting" /\ ui[r].known /\ ui[r].lastId > 0
        /\ access
        /\ Resume(r)
     \/ /\ ~(ui[r].phase = "starting" /\ ui[r].known /\ ui[r].lastId > 0 /\ access)
        /\ ui' = [ui EXCEPT ![r] = [@ EXCEPT !.phase = "over", !.status = "network"]]
        /\ wire' = [wire EXCEPT ![r].state = "closed"]
        /\ UNCHANGED serve
  /\ UNCHANGED <<row, access, log, run, cuts>>

-----------------------------------------------------------------------------
(* The network loses a connection with what is under way on it (or the     *)
(* user leaves the page and AbortController does).                         *)
Cut(r) ==
  /\ cuts < MaxCuts
  /\ wire[r].state \in {"open", "ended"}
  /\ cuts' = cuts + 1
  /\ wire' = [wire EXCEPT ![r] = [frames |-> <<>>, state |-> "broken"]]
  /\ run' = IF run.by = r THEN [run EXCEPT !.attached = FALSE] ELSE run
  /\ UNCHANGED <<row, access, log, serve, ui>>

(* Seven days later.                                                       *)
Expire ==
  /\ row = "live" /\ row' = "expired"
  /\ UNCHANGED <<access, log, run, serve, wire, ui, cuts>>

(* The session expires or is being deleted.                                *)
LoseAccess ==
  /\ access /\ access' = FALSE
  /\ UNCHANGED <<row, log, run, serve, wire, ui, cuts>>

RunStep ==
  \/ Accept \/ EnterScope \/ GraphNode \/ GraphEnd \/ Raise
  \/ EndApproval \/ Token \/ EndError \/ EndDone \/ Cancel
ServeStep(r) == Find(r) \/ CreateStream(r) \/ StartReplay(r) \/ YieldFrame(r)
ReadStep(r) == ReadFrame(r) \/ ResponseOver(r) \/ ReadError(r)

Next ==
  \/ RunStep
  \/ \E r \in Readers : PostStart(r) \/ ServeStep(r) \/ ReadStep(r) \/ Cut(r)
  \/ Expire \/ LoseAccess

Spec == Init /\ [][Next]_vars

(* The server goes on with what it has begun and the browser reads what    *)
(* arrives.  Nobody has to post, and nothing has to be lost.               *)
Fairness ==
  /\ WF_vars(RunStep)
  /\ \A r \in Readers : WF_vars(ServeStep(r)) /\ WF_vars(ReadStep(r))

FairSpec == Spec /\ Fairness

-----------------------------------------------------------------------------
(* Every variable stays in its type.                                       *)
TypeOK ==
  /\ row \in {"none", "live", "expired"}
  /\ access \in BOOLEAN
  /\ log \in Seq(EventKind) /\ Len(log) <= MaxNodes + 3
  /\ run \in Run
  /\ serve \in [Readers -> Serve]
  /\ wire \in [Readers -> Wire]
  /\ ui \in [Readers -> Ui]
  /\ cuts \in 0..MaxCuts

(* A channel shows every event once, in order and without a gap, up to the *)
(* one it would resume from, however often connections were lost and       *)
(* whatever the window forgot.                                             *)
ShownIsPrefix ==
  \A r \in Readers :
    /\ ui[r].lastId <= Len(log)
    /\ ui[r].shown = [i \in 1..ui[r].lastId |-> i]

(* However often the request is sent, its stream is accepted once, first,  *)
(* and ends at most once, last: there is one execution of the graph.       *)
OneExecution ==
  \A i \in DOMAIN log :
    /\ log[i] = "accepted" <=> i = 1
    /\ log[i] \in End => i = Len(log)

Ended == log # <<>> /\ Last(log) \in End
SawEnd(r) == Ended /\ ui[r].lastId = Len(log)

(* Who starts the run and stays connected gets to see how it ends, even if *)
(* the graph fails, as long as the session is not taken away and the       *)
(* database answers outside of the graph: what an access raises there is   *)
(* not swallowed, and the response then ends without an end.               *)
WatcherSeesEnd ==
  \A r \in Readers :
    run.by = r /\ run.attached ~>
      SawEnd(r) \/ ~run.attached \/ ~access \/ run.pc = "raised"

=============================================================================
