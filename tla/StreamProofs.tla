------------------------------ MODULE StreamProofs ------------------------------
(***************************************************************************)
(* Proofs that a chat request is executed once, and that every channel     *)
(* shows its events once, in order and without a gap, for any number of    *)
(* channels and nodes, any loss of connections and any dedup window.       *)
(***************************************************************************)
EXTENDS ChatStream, SequenceTheorems, TLAPS

(* The steps of a run that still writes to the log.                        *)
Running == {"accept", "scope", "graph", "outcome", "verdict"}

(* A channel (u), the frames under way to it (w) and its request at the    *)
(* server (s), over a log of n events: what it will read continues what it *)
(* has shown, and the replay continues what it will read.                  *)
Continues(u, w, s, n) ==
  /\ u.lastId + Len(w.frames) <= n
  /\ u.shown = [i \in 1..u.lastId |-> i]
  /\ u.seen \subseteq 1..u.lastId
  /\ \A i \in 1..Len(w.frames) : w.frames[i] = u.lastId + i
  /\ s.cursor <= n
  /\ w.state = "open" /\ s.pc \in {"find", "replay"} =>
       w.frames = <<>> /\ s.cursor = u.lastId
  /\ w.state = "open" /\ s.pc = "yield" =>
       /\ u.lastId + Len(w.frames) + Len(s.todo) <= n
       /\ \A i \in 1..Len(s.todo) : s.todo[i] = u.lastId + Len(w.frames) + i
  /\ u.phase = "idle" => w.state = "closed" /\ w.frames = <<>> /\ u.lastId = 0

ViewInv == \A r \in Readers : Continues(ui[r], wire[r], serve[r], Len(log))

(* Who is attached to the run has its whole log, read or under way, and no *)
(* other request writes to its connection.                                 *)
Attended(u, w, s, n) ==
  w.state = "open" /\ s.pc = "off" /\ u.lastId + Len(w.frames) = n

Watched(r) == run.pc \in Running /\ run.attached /\ run.by = r

WatchInv == \A r \in Readers : Watched(r) => Attended(ui[r], wire[r], serve[r], Len(log))

(* How far the log is, for where the run is.                               *)
RunInv ==
  /\ run.pc = "none" <=> row = "none"
  /\ run.pc # "none" => run.by \in Readers
  /\ run.pc \in {"none", "accept"} => log = <<>>
  /\ run.pc \in {"scope", "graph", "outcome", "verdict"} =>
       log # <<>> /\ \A i \in DOMAIN log : log[i] \notin End
  /\ run.pc \in {"scope", "graph", "outcome"} => Len(log) <= MaxNodes + 1
  /\ run.pc = "verdict" => Len(log) <= MaxNodes + 2

IInv == TypeOK /\ ViewInv /\ WatchInv /\ RunInv /\ OneExecution

-----------------------------------------------------------------------------
(* What channels, connections and requests go through.                     *)

LEMMA LogLength == ASSUME TypeOK PROVE Len(log) \in Nat /\ Len(log) <= MaxNodes + 3
BY DEF TypeOK

LEMMA Grows ==
  ASSUME NEW u \in Ui, NEW w \in Wire, NEW s \in Serve, NEW n \in Nat, NEW m \in Nat,
         n <= m, Continues(u, w, s, n)
  PROVE  Continues(u, w, s, m)
BY BoundsAssumption DEF Continues, Ui, Wire, Serve

(* A connection that is lost loses what is under way.                      *)
Lost == [frames |-> <<>>, state |-> "broken"]

LEMMA Loses ==
  ASSUME NEW u \in Ui, NEW w \in Wire, NEW s \in Serve, NEW n \in Nat,
         Continues(u, w, s, n), u.phase # "idle"
  PROVE  Lost \in Wire /\ Continues(u, Lost, s, n)
<1>1. Lost \in Wire /\ Lost.frames = <<>> /\ Lost.state = "broken"
  BY EmptySeq DEF Lost, Wire
<1>2. u.lastId \in Nat /\ Len(w.frames) \in Nat
  BY LenProperties, BoundsAssumption DEF Ui, Wire
<1>3. Len(<<>>) = 0 /\ u.lastId + 0 = u.lastId
  BY <1>2, EmptySeq
<1>4. u.lastId + Len(Lost.frames) <= n
  BY <1>1, <1>2, <1>3 DEF Continues
<1>5. \A i \in 1..Len(Lost.frames) : Lost.frames[i] = u.lastId + i
  BY <1>1, <1>3
<1>6. QED
  BY <1>1, <1>4, <1>5 DEF Continues

(* A frame behind the ones under way.                                      *)
Pushed(w, id) == [w EXCEPT !.frames = Append(@, id)]

LEMMA Pushes ==
  ASSUME NEW u \in Ui, NEW w \in Wire, NEW n \in Nat, NEW m \in Nat, NEW s \in Serve,
         Continues(u, w, s, n), n <= m,
         NEW id \in Ids, id = u.lastId + Len(w.frames) + 1, id <= m
  PROVE  /\ Pushed(w, id) \in Wire
         /\ u.lastId + Len(Pushed(w, id).frames) <= m
         /\ \A i \in 1..Len(Pushed(w, id).frames) : Pushed(w, id).frames[i] = u.lastId + i
         /\ Len(Pushed(w, id).frames) = Len(w.frames) + 1
<1> DEFINE v == Pushed(w, id)
<1>1. w.frames \in Seq(Ids) /\ Len(w.frames) \in Nat /\ u.lastId \in Nat
  BY LenProperties, BoundsAssumption DEF Wire, Ui
<1>2. v.frames = Append(w.frames, id) /\ v.frames \in Seq(Ids)
  BY <1>1, AppendProperties DEF Wire, Pushed
<1>3. v \in Wire
  BY <1>2 DEF Wire, Pushed
<1>4. /\ Len(v.frames) = Len(w.frames) + 1
      /\ \A i \in 1..Len(w.frames) : v.frames[i] = w.frames[i]
      /\ v.frames[Len(w.frames) + 1] = id
  BY <1>1, <1>2, AppendProperties
<1>5. \A i \in 1..Len(v.frames) : v.frames[i] = u.lastId + i
  <2> TAKE i \in 1..Len(v.frames)
  <2>1. CASE i = Len(w.frames) + 1
    <3>1. u.lastId + Len(w.frames) + 1 = u.lastId + (Len(w.frames) + 1)
      BY <1>1
    <3>2. QED
      BY <1>4, <2>1, <3>1
  <2>2. CASE i \in 1..Len(w.frames)
    BY <1>4, <2>2 DEF Continues
  <2>3. QED
    BY <1>1, <1>4, <2>1, <2>2
<1>6. QED
  BY <1>1, <1>3, <1>4, <1>5

(* A frame is read and, being the next one, shown.                         *)
Read(u, w, kind) ==
  LET id == Head(w.frames) IN
  [u EXCEPT !.seen = Window(u.seen \cup {id}), !.lastId = id, !.shown = Append(@, id),
            !.known = @ \/ kind = "accepted", !.status = StatusAfter(kind, @)]

Unread(w) == [w EXCEPT !.frames = Tail(@)]

LEMMA Reads ==
  ASSUME NEW u \in Ui, NEW w \in Wire, NEW s \in Serve, NEW n \in Nat, NEW kind,
         Continues(u, w, s, n), w.frames # <<>>, n <= MaxNodes + 3
  PROVE  /\ Head(w.frames) \notin u.seen
         /\ Unread(w) \in Wire /\ Read(u, w, kind) \in Ui
         /\ Continues(Read(u, w, kind), Unread(w), s, n)
         /\ Read(u, w, kind).lastId + Len(Unread(w).frames) = u.lastId + Len(w.frames)
<1> DEFINE v == Unread(w)
           id == Head(w.frames)
           x == Read(u, w, kind)
<1>1. /\ w.frames \in Seq(Ids) /\ Len(w.frames) \in Nat \ {0} /\ u.lastId \in Nat
      /\ u.shown \in Seq(Ids)
  BY LenProperties, EmptySeq, BoundsAssumption DEF Wire, Ui
<1>2. id = u.lastId + 1 /\ id \in 1..n
  <2>1. id = w.frames[1]
    OBVIOUS
  <2>2. QED
    BY <1>1, <2>1 DEF Continues
<1>3. v.frames = Tail(w.frames) /\ v.state = w.state /\ v.frames \in Seq(Ids)
  BY <1>1, HeadTailProperties DEF Wire, Unread
<1>4. /\ Len(v.frames) = Len(w.frames) - 1
      /\ \A i \in 1..Len(v.frames) : v.frames[i] = w.frames[i + 1]
  BY <1>1, <1>3, HeadTailProperties
<1>5. \A i \in 1..Len(v.frames) : v.frames[i] = id + i
  <2> TAKE i \in 1..Len(v.frames)
  <2>1. i + 1 \in 1..Len(w.frames)
    BY <1>1, <1>4
  <2>2. w.frames[i + 1] = u.lastId + (i + 1)
    BY <2>1 DEF Continues
  <2>3. v.frames[i] = w.frames[i + 1]
    BY <1>4
  <2>4. u.lastId + (i + 1) = id + i
    <3>1. id = u.lastId + 1 /\ u.lastId \in Int /\ i \in Int
      BY <1>1, <1>2, <1>4
    <3>2. QED
      BY <3>1
  <2>5. QED
    BY <2>2, <2>3, <2>4
<1>6. id \in Ids /\ id \in 0..(MaxNodes + 3) /\ 1..id \subseteq Ids
  BY <1>2, BoundsAssumption DEF Ids
<1>7. /\ Append(u.shown, id) \in Seq(Ids)
      /\ Append(u.shown, id) = [i \in 1..id |-> i]
  <2>1. Append(u.shown, id) \in Seq(Ids)
    BY <1>1, <1>6, AppendProperties
  <2>2. u.shown = [i \in 1..u.lastId |-> i] /\ Len(u.shown) = u.lastId
    BY <1>1 DEF Continues
  <2>3. /\ Len(Append(u.shown, id)) = id
        /\ \A i \in 1..u.lastId : Append(u.shown, id)[i] = u.shown[i]
        /\ Append(u.shown, id)[id] = id
    BY <1>1, <1>2, <1>6, <2>2, AppendProperties
  <2>4. \A i \in 1..id : Append(u.shown, id)[i] = i
    BY <1>1, <1>2, <2>2, <2>3
  <2>5. Append(u.shown, id) \in [1..id -> Ids]
    BY <2>1, <2>3, LenProperties
  <2>6. Append(u.shown, id) = [i \in 1..id |-> i]
    BY <2>4, <2>5
  <2>7. QED
    BY <2>1, <2>6
<1>8. Window(u.seen \cup {id}) \subseteq 1..id /\ id \notin u.seen
  BY <1>1, <1>2 DEF Continues, Window
<1>9. /\ x.lastId = id /\ x.shown = Append(u.shown, id) /\ x.phase = u.phase
      /\ x.seen = Window(u.seen \cup {id})
  BY DEF Read, Ui
<1>10. x \in Ui
  <2>1. StatusAfter(kind, u.status) \in {"idle", "connecting", "done", "error", "network"}
    BY DEF StatusAfter, Ui
  <2>2. Window(u.seen \cup {id}) \in SUBSET Ids
    BY <1>6, <1>8
  <2>3. (u.known \/ kind = "accepted") \in BOOLEAN
    OBVIOUS
  <2>4. QED
    BY <1>6, <1>7, <2>1, <2>2, <2>3 DEF Ui, Read
<1>11. v \in Wire
  BY <1>3 DEF Wire, Unread
<1>12. u.phase # "idle"
  BY DEF Continues
<1>13. x.lastId + Len(v.frames) = u.lastId + Len(w.frames)
  <2>1. x.lastId = u.lastId + 1 /\ Len(v.frames) = Len(w.frames) - 1
    BY <1>2, <1>4, <1>9
  <2>2. u.lastId \in Int /\ Len(w.frames) \in Int
    BY <1>1
  <2>3. QED
    BY <2>1, <2>2
<1>14. Continues(x, v, s, n)
  <2>1. x.lastId + Len(v.frames) <= n /\ s.cursor <= n
    BY <1>13 DEF Continues
  <2>2. x.shown = [i \in 1..x.lastId |-> i] /\ x.seen \subseteq 1..x.lastId
    BY <1>7, <1>8, <1>9
  <2>3. \A i \in 1..Len(v.frames) : v.frames[i] = x.lastId + i
    BY <1>5, <1>9
  <2>4. v.state = "open" => s.pc \notin {"find", "replay"}
    BY <1>3 DEF Continues
  <2>5. ASSUME v.state = "open", s.pc = "yield"
        PROVE  /\ x.lastId + Len(v.frames) + Len(s.todo) <= n
               /\ \A i \in 1..Len(s.todo) : s.todo[i] = x.lastId + Len(v.frames) + i
    <3>1. /\ u.lastId + Len(w.frames) + Len(s.todo) <= n
          /\ \A i \in 1..Len(s.todo) : s.todo[i] = u.lastId + Len(w.frames) + i
      BY <1>3, <2>5 DEF Continues
    <3>2. QED
      BY <1>13, <3>1
  <2>6. QED
    BY <1>9, <1>12, <2>1, <2>2, <2>3, <2>4, <2>5 DEF Continues
<1>15. QED
  BY <1>8, <1>10, <1>11, <1>13, <1>14

(* The replay sends its next event.                                        *)
LEMMA Yields ==
  ASSUME NEW u \in Ui, NEW w \in Wire, NEW s \in Serve, NEW n \in Nat,
         Continues(u, w, s, n), w.state = "open", s.pc = "yield", s.todo # <<>>
  PROVE  LET v == Pushed(w, Head(s.todo))
             t == [s EXCEPT !.todo = Tail(@)]
         IN  v \in Wire /\ t \in Serve /\ Continues(u, v, t, n)
<1> DEFINE id == Head(s.todo)
           v == Pushed(w, id)
           t == [s EXCEPT !.todo = Tail(@)]
<1>1. /\ s.todo \in Seq(Ids) /\ Len(s.todo) \in Nat \ {0} /\ u.lastId \in Nat
      /\ w.frames \in Seq(Ids) /\ Len(w.frames) \in Nat
  BY LenProperties, EmptySeq, BoundsAssumption DEF Serve, Wire, Ui
<1>2. /\ u.lastId + Len(w.frames) + Len(s.todo) <= n
      /\ \A i \in 1..Len(s.todo) : s.todo[i] = u.lastId + Len(w.frames) + i
  BY DEF Continues
<1>3. id \in Ids /\ id = u.lastId + Len(w.frames) + 1 /\ id <= n
  <2>1. id = s.todo[1] /\ id \in Ids
    BY <1>1, HeadTailProperties
  <2>2. s.todo[1] = u.lastId + Len(w.frames) + 1
    BY <1>1, <1>2
  <2>3. QED
    BY <1>1, <1>2, <2>1, <2>2
<1>4. /\ t.todo = Tail(s.todo) /\ t.pc = s.pc /\ t.cursor = s.cursor /\ t.todo \in Seq(Ids)
  BY <1>1, HeadTailProperties DEF Serve
<1>5. /\ Len(t.todo) = Len(s.todo) - 1
      /\ \A i \in 1..Len(t.todo) : t.todo[i] = s.todo[i + 1]
  BY <1>1, <1>4, HeadTailProperties
<1>6. /\ v \in Wire /\ u.lastId + Len(v.frames) <= n
      /\ \A i \in 1..Len(v.frames) : v.frames[i] = u.lastId + i
      /\ Len(v.frames) = Len(w.frames) + 1
  BY <1>3, Pushes
<1>7. t \in Serve
  BY <1>4 DEF Serve
<1> HIDE DEF v, t
<1>8. ASSUME NEW i \in 1..Len(t.todo) PROVE t.todo[i] = u.lastId + Len(v.frames) + i
  <2>1. i + 1 \in 1..Len(s.todo)
    BY <1>1, <1>5
  <2>2. s.todo[i + 1] = u.lastId + Len(w.frames) + (i + 1)
    BY <1>2, <2>1
  <2>3. t.todo[i] = s.todo[i + 1]
    BY <1>5
  <2>4. i \in Int /\ Len(v.frames) \in Int
    BY <1>1, <1>5, <1>6
  <2>5. u.lastId + Len(w.frames) + (i + 1) = u.lastId + Len(v.frames) + i
    <3>1. Len(v.frames) = Len(w.frames) + 1 /\ u.lastId \in Int /\ Len(w.frames) \in Int
      BY <1>1, <1>6
    <3>2. QED
      BY <2>4, <3>1
  <2>6. QED
    BY <2>2, <2>3, <2>5
<1>9. u.lastId + Len(v.frames) + Len(t.todo) <= n
  BY <1>1, <1>2, <1>5, <1>6
<1>10. v.state = w.state
  BY DEF Wire, Pushed, v
<1>11. Continues(u, v, t, n)
  BY <1>4, <1>6, <1>8, <1>9, <1>10 DEF Continues
<1>12. QED
  BY <1>6, <1>7, <1>11 DEF v, t

-----------------------------------------------------------------------------
(* One channel moves, the log stays.                                       *)
Moves(r, u, w, s) ==
  /\ ui' = [ui EXCEPT ![r] = u]
  /\ wire' = [wire EXCEPT ![r] = w]
  /\ serve' = [serve EXCEPT ![r] = s]
  /\ UNCHANGED log

LEMMA OneMoves ==
  ASSUME IInv, NEW r \in Readers, NEW u \in Ui, NEW w \in Wire, NEW s \in Serve,
         Moves(r, u, w, s), Continues(u, w, s, Len(log))
  PROVE  /\ ui' \in [Readers -> Ui] /\ wire' \in [Readers -> Wire]
         /\ serve' \in [Readers -> Serve]
         /\ \A q \in Readers : q # r => /\ ui'[q] = ui[q] /\ wire'[q] = wire[q]
                                        /\ serve'[q] = serve[q]
         /\ ui'[r] = u /\ wire'[r] = w /\ serve'[r] = s
         /\ ViewInv' /\ OneExecution'
<1>1. /\ ui \in [Readers -> Ui] /\ wire \in [Readers -> Wire] /\ serve \in [Readers -> Serve]
      /\ log' = log
  BY DEF IInv, TypeOK, Moves
<1>2. /\ ui' \in [Readers -> Ui] /\ wire' \in [Readers -> Wire]
      /\ serve' \in [Readers -> Serve]
      /\ \A q \in Readers : q # r => /\ ui'[q] = ui[q] /\ wire'[q] = wire[q]
                                     /\ serve'[q] = serve[q]
      /\ ui'[r] = u /\ wire'[r] = w /\ serve'[r] = s
  BY <1>1 DEF Moves
<1>3. \A q \in Readers : Continues(ui'[q], wire'[q], serve'[q], Len(log'))
  BY <1>1, <1>2 DEF IInv, ViewInv
<1>4. QED
  BY <1>1, <1>2, <1>3 DEF IInv, ViewInv, OneExecution

(* The run is left alone; only its watcher has anything to lose.           *)
LEMMA ChannelStep ==
  ASSUME IInv, NEW r \in Readers, NEW u \in Ui, NEW w \in Wire, NEW s \in Serve,
         Moves(r, u, w, s), Continues(u, w, s, Len(log)),
         Watched(r) => Attended(u, w, s, Len(log)),
         UNCHANGED <<row, access, run, cuts>>
  PROVE  IInv'
<1>1. /\ ui' \in [Readers -> Ui] /\ wire' \in [Readers -> Wire]
      /\ serve' \in [Readers -> Serve]
      /\ \A q \in Readers : q # r => /\ ui'[q] = ui[q] /\ wire'[q] = wire[q]
                                     /\ serve'[q] = serve[q]
      /\ ui'[r] = u /\ wire'[r] = w /\ serve'[r] = s
      /\ ViewInv' /\ OneExecution'
  BY OneMoves
<1>2. log' = log
  BY DEF Moves
<1>3. TypeOK'
  BY <1>1, <1>2 DEF IInv, TypeOK
<1>4. RunInv'
  BY <1>2 DEF IInv, RunInv
<1>5. ASSUME NEW q \in Readers, Watched(q)'
      PROVE  Attended(ui'[q], wire'[q], serve'[q], Len(log'))
  <2>1. Watched(q)
    BY <1>5 DEF Watched
  <2>2. CASE q = r
    BY <1>1, <1>2, <2>1, <2>2
  <2>3. CASE q # r
    BY <1>1, <1>2, <2>1, <2>3 DEF IInv, WatchInv
  <2>4. QED
    BY <2>2, <2>3
<1>6. WatchInv'
  BY <1>5 DEF WatchInv
<1>7. QED
  BY <1>1, <1>3, <1>4, <1>6 DEF IInv

(* No channel moves, and the log stays.                                    *)
LEMMA RestStep ==
  ASSUME IInv, UNCHANGED <<log, serve, wire, ui, cuts>>,
         row' \in {"none", "live", "expired"}, access' \in BOOLEAN, run' \in Run, RunInv',
         \A r \in Readers : Watched(r)' => Watched(r)
  PROVE  IInv'
<1>1. TypeOK' /\ OneExecution'
  BY DEF IInv, TypeOK, OneExecution
<1>2. ViewInv'
  BY DEF IInv, ViewInv
<1>3. \A q \in Readers : Watched(q)' => Attended(ui'[q], wire'[q], serve'[q], Len(log'))
  BY DEF IInv, WatchInv
<1>4. QED
  BY <1>1, <1>2, <1>3 DEF IInv, WatchInv

(* A channel that is doing something else does not watch the run.          *)
LEMMA NotWatching ==
  ASSUME IInv, NEW r \in Readers, serve[r].pc # "off" \/ wire[r].state # "open"
  PROVE  ~Watched(r)
BY DEF IInv, WatchInv, Attended

(* What is known of a channel.                                             *)
LEMMA Channel ==
  ASSUME IInv, NEW r \in Readers
  PROVE  /\ ui[r] \in Ui /\ wire[r] \in Wire /\ serve[r] \in Serve
         /\ Continues(ui[r], wire[r], serve[r], Len(log))
         /\ Len(log) \in Nat /\ Len(log) <= MaxNodes + 3
         /\ wire[r].frames \in Seq(Ids) /\ Len(wire[r].frames) \in Nat
         /\ serve[r].todo \in Seq(Ids) /\ Len(serve[r].todo) \in Nat
         /\ ui[r].lastId \in Nat
<1>1. /\ ui[r] \in Ui /\ wire[r] \in Wire /\ serve[r] \in Serve
      /\ Continues(ui[r], wire[r], serve[r], Len(log))
  BY DEF IInv, TypeOK, ViewInv
<1>2. Len(log) \in Nat /\ Len(log) <= MaxNodes + 3
  BY LenProperties DEF IInv, TypeOK
<1>3. wire[r].frames \in Seq(Ids) /\ serve[r].todo \in Seq(Ids) /\ ui[r].lastId \in Nat
  BY <1>1, BoundsAssumption DEF Ui, Wire, Serve
<1>4. QED
  BY <1>1, <1>2, <1>3, LenProperties

LEMMA Same ==
  ASSUME IInv, NEW r \in Readers
  PROVE  /\ ui = [ui EXCEPT ![r] = ui[r]] /\ wire = [wire EXCEPT ![r] = wire[r]]
         /\ serve = [serve EXCEPT ![r] = serve[r]]
BY DEF IInv, TypeOK

-----------------------------------------------------------------------------
(* The request and the replay.                                             *)

LEMMA OffType == Off \in Serve
BY BoundsAssumption, EmptySeq DEF Off, Serve

LEMMA PostStartKeeps == ASSUME IInv, NEW r \in Readers, PostStart(r) PROVE IInv'
<1>1. /\ ui[r].phase = "idle" /\ wire[r].state = "closed" /\ ui[r].lastId = 0
      /\ ~Watched(r)
  BY Channel, NotWatching DEF PostStart, Continues
<1>2. CASE access
  <2> DEFINE u == [ui[r] EXCEPT !.phase = "starting", !.status = "connecting"]
             w == [frames |-> <<>>, state |-> "open"]
             s == [Off EXCEPT !.pc = "find"]
  <2>1. Moves(r, u, w, s) /\ UNCHANGED <<row, access, run, cuts>>
    BY <1>2 DEF PostStart, Moves, Open
  <2>2. u \in Ui /\ u.phase # "idle" /\ u.lastId = 0
        /\ u.shown = ui[r].shown /\ u.seen = ui[r].seen
    BY <1>1, Channel DEF Ui
  <2>3. w \in Wire /\ w.frames = <<>> /\ Len(w.frames) = 0
    BY EmptySeq DEF Wire
  <2>4. s \in Serve /\ s.pc = "find" /\ s.cursor = 0
    BY OffType DEF Off, Serve
  <2>5. /\ Continues(ui[r], wire[r], serve[r], Len(log))
        /\ Len(log) \in Nat
    BY Channel
  <2>6. Continues(u, w, s, Len(log))
    BY <1>1, <2>2, <2>3, <2>4, <2>5 DEF Continues
  <2>7. QED
    BY <1>1, <2>1, <2>2, <2>3, <2>4, <2>6, ChannelStep
<1>3. CASE ~access
  <2> DEFINE u == [ui[r] EXCEPT !.phase = "over", !.status = "network"]
  <2>1. Moves(r, u, wire[r], serve[r]) /\ UNCHANGED <<row, access, run, cuts>>
    BY <1>3, Same DEF PostStart, Moves
  <2>2. /\ u \in Ui /\ u.phase # "idle" /\ u.lastId = ui[r].lastId
        /\ u.shown = ui[r].shown /\ u.seen = ui[r].seen
    BY Channel DEF Ui
  <2>3. Continues(u, wire[r], serve[r], Len(log))
    BY <2>2, Channel DEF Continues
  <2>4. QED
    BY <1>1, <2>1, <2>2, <2>3, Channel, ChannelStep
<1>4. QED
  BY <1>2, <1>3

LEMMA FindKeeps == ASSUME IInv, NEW r \in Readers, Find(r) PROVE IInv'
<1> DEFINE s == [serve[r] EXCEPT !.pc = IF row = "none" THEN "create" ELSE "replay"]
<1>1. serve[r].pc = "find" /\ ~Watched(r)
  BY NotWatching DEF Find, At
<1>2. Moves(r, ui[r], wire[r], s) /\ UNCHANGED <<row, access, run, cuts>>
  BY Same DEF Find, Moves, ServeAt
<1>3. /\ s \in Serve /\ s.cursor = serve[r].cursor /\ s.pc \in {"create", "replay"}
  BY Channel DEF Serve
<1>4. Continues(ui[r], wire[r], s, Len(log))
  BY <1>1, <1>3, Channel DEF Continues
<1>5. QED
  BY <1>1, <1>2, <1>3, <1>4, Channel, ChannelStep

(* A request gives up or ends: nothing more is written for it.             *)
LEMMA FinishKeeps ==
  ASSUME IInv, NEW r \in Readers, NEW how \in {"ended", "broken"}, NEW s \in Serve,
         serve[r].pc # "off", s.pc = "off", s.cursor <= Len(log),
         Finish(r, how), serve' = [serve EXCEPT ![r] = s],
         UNCHANGED <<row, access, log, run, ui, cuts>>
  PROVE  IInv'
<1> DEFINE w == [wire[r] EXCEPT !.state = IF @ = "open" THEN how ELSE @]
<1>1. Moves(r, ui[r], w, s) /\ UNCHANGED <<row, access, run, cuts>>
  BY Same DEF Moves, Finish
<1>2. w \in Wire /\ w.frames = wire[r].frames
      /\ (wire[r].state = "closed" => w.state = "closed")
  BY Channel DEF Wire
<1>3. Continues(ui[r], w, s, Len(log))
  BY <1>2, Channel DEF Continues
<1>4. QED
  BY <1>1, <1>2, <1>3, Channel, ChannelStep, NotWatching

LEMMA StartReplayKeeps == ASSUME IInv, NEW r \in Readers, StartReplay(r) PROVE IInv'
<1>1. serve[r].pc = "replay" /\ ~Watched(r)
  BY NotWatching DEF StartReplay, At
<1>2. CASE row = "live" /\ access
  <2> DEFINE e == EventsAfter(serve[r].cursor)
             s == [serve[r] EXCEPT !.pc = "yield", !.todo = e]
  <2>1. Moves(r, ui[r], wire[r], s) /\ UNCHANGED <<row, access, run, cuts>>
    BY <1>2, Same DEF StartReplay, Moves
  <2>2. serve[r].cursor \in Nat /\ serve[r].cursor <= Len(log)
    <3>1. serve[r] \in Serve /\ Continues(ui[r], wire[r], serve[r], Len(log))
      BY Channel
    <3>2. QED
      BY <3>1, BoundsAssumption DEF Continues, Serve
  <2>3. /\ e \in Seq(Ids) /\ Len(e) = Len(log) - serve[r].cursor
        /\ \A i \in 1..Len(e) : e[i] = serve[r].cursor + i
    <3>1. \A i \in 1..(Len(log) - serve[r].cursor) : serve[r].cursor + i \in Ids
      BY <2>2, Channel, BoundsAssumption DEF Ids
    <3>2. Len(log) - serve[r].cursor \in Nat
      BY <2>2, Channel
    <3>3. QED
      BY <3>1, <3>2 DEF EventsAfter
  <2>4. s \in Serve /\ s.pc = "yield" /\ s.cursor = serve[r].cursor /\ s.todo = e
    BY <2>3, Channel DEF Serve
  <2>5. Continues(ui[r], wire[r], s, Len(log))
    <3>1. CASE wire[r].state = "open"
      <4>1. /\ ui[r].lastId = serve[r].cursor /\ wire[r].frames = <<>>
            /\ Len(wire[r].frames) = 0
        BY <1>1, <3>1, Channel, EmptySeq DEF Continues
      <4>2. QED
        BY <2>2, <2>3, <2>4, <4>1, Channel DEF Continues
    <3>2. CASE wire[r].state # "open"
      BY <2>2, <2>4, <3>2, Channel DEF Continues
    <3>3. QED
      BY <3>1, <3>2
  <2>6. QED
    BY <1>1, <2>1, <2>4, <2>5, Channel, ChannelStep
<1>3. CASE ~(row = "live" /\ access)
  <2>1. /\ Finish(r, "broken") /\ serve' = [serve EXCEPT ![r] = Off]
        /\ UNCHANGED <<row, access, log, run, ui, cuts>>
    BY <1>3 DEF StartReplay
  <2>2. Off.pc = "off" /\ Off.cursor <= Len(log)
    BY Channel DEF Off
  <2>3. QED
    BY <1>1, <2>1, <2>2, OffType, FinishKeeps
<1>4. QED
  BY <1>2, <1>3

LEMMA YieldFrameKeeps == ASSUME IInv, NEW r \in Readers, YieldFrame(r) PROVE IInv'
<1>1. serve[r].pc = "yield" /\ ~Watched(r)
  BY NotWatching DEF YieldFrame, At
<1>2. CASE serve[r].todo # <<>> /\ wire[r].state = "open"
  <2> DEFINE w == Pushed(wire[r], Head(serve[r].todo))
             s == [serve[r] EXCEPT !.todo = Tail(@)]
  <2>1. Moves(r, ui[r], w, s) /\ UNCHANGED <<row, access, run, cuts>>
    BY <1>2, Same DEF YieldFrame, Moves, Push, Pushed
  <2>2. w \in Wire /\ s \in Serve /\ Continues(ui[r], w, s, Len(log))
    BY <1>1, <1>2, Channel, Yields
  <2>3. QED
    BY <1>1, <2>1, <2>2, Channel, ChannelStep
<1>3. CASE serve[r].todo = <<>> \/ wire[r].state # "open"
  <2>1. /\ Finish(r, "ended") /\ serve' = [serve EXCEPT ![r] = Off]
        /\ UNCHANGED <<row, access, log, run, ui, cuts>>
    BY <1>3 DEF YieldFrame
  <2>2. Off.pc = "off" /\ Off.cursor <= Len(log)
    BY Channel DEF Off
  <2>3. QED
    BY <1>1, <2>1, <2>2, OffType, FinishKeeps
<1>4. QED
  BY <1>2, <1>3

-----------------------------------------------------------------------------
(* The channel.                                                            *)

LEMMA ReadFrameKeeps == ASSUME IInv, NEW r \in Readers, ReadFrame(r) PROVE IInv'
<1> DEFINE w == Unread(wire[r])
           id == Head(wire[r].frames)
           u == Read(ui[r], wire[r], log[id])
<1>1. wire[r].frames # <<>> /\ wire' = [wire EXCEPT ![r] = w]
      /\ UNCHANGED <<row, access, log, run, serve, cuts>>
  BY DEF ReadFrame, Unread
<1>2. /\ id \notin ui[r].seen
      /\ w \in Wire /\ u \in Ui
      /\ Continues(u, w, serve[r], Len(log))
      /\ u.lastId + Len(w.frames) = ui[r].lastId + Len(wire[r].frames)
  <2>1. /\ ui[r] \in Ui /\ wire[r] \in Wire /\ serve[r] \in Serve
        /\ Continues(ui[r], wire[r], serve[r], Len(log))
        /\ Len(log) \in Nat /\ Len(log) <= MaxNodes + 3
    BY Channel
  <2>2. wire[r].frames # <<>>
    BY <1>1
  <2>3. QED
    BY <2>1, <2>2, Reads, SMTT(60)
<1>3. ui' = [ui EXCEPT ![r] = u]
  <2>1. id \in ui[r].seen \/ ui' = [ui EXCEPT ![r] = u]
    BY DEF ReadFrame, Read
  <2>2. QED
    BY <1>2, <2>1
<1>4. Moves(r, u, w, serve[r])
  BY <1>1, <1>3, Same DEF Moves
<1>5. Watched(r) => Attended(u, w, serve[r], Len(log))
  <2>1. w.state = wire[r].state
    BY Channel DEF Wire, Unread
  <2>2. QED
    BY <1>2, <2>1 DEF IInv, WatchInv, Attended
<1>6. QED
  BY <1>1, <1>2, <1>4, <1>5, Channel, ChannelStep

(* The response is over, for better or worse.                              *)
Over(r, status) ==
  /\ ui' = [ui EXCEPT ![r] = [ui[r] EXCEPT !.phase = "over", !.status = status]]
  /\ wire' = [wire EXCEPT ![r] = [wire[r] EXCEPT !.state = "closed"]]
  /\ UNCHANGED <<row, access, log, run, serve, cuts>>

LEMMA ClosesKeeps ==
  ASSUME IInv, NEW r \in Readers, NEW status, wire[r].state \in {"ended", "broken"},
         status \in {"idle", "connecting", "done", "error", "network"},
         Over(r, status)
  PROVE  IInv'
<1> DEFINE u == [ui[r] EXCEPT !.phase = "over", !.status = status]
           w == [wire[r] EXCEPT !.state = "closed"]
<1>1. Moves(r, u, w, serve[r])
  BY Same DEF Moves, Over
<1>2. /\ u \in Ui /\ u.phase # "idle" /\ u.lastId = ui[r].lastId
      /\ u.shown = ui[r].shown /\ u.seen = ui[r].seen
  BY Channel DEF Ui
<1>3. w \in Wire /\ w.state = "closed" /\ w.frames = wire[r].frames
  BY Channel DEF Wire
<1>4. Continues(u, w, serve[r], Len(log))
  BY <1>2, <1>3, Channel DEF Continues
<1>5. QED
  BY <1>1, <1>2, <1>3, <1>4, Channel, ChannelStep, NotWatching DEF Over

LEMMA ResponseOverKeeps == ASSUME IInv, NEW r \in Readers, ResponseOver(r) PROVE IInv'
<1>1. Over(r, ui[r].status)
  <2>1. [ui[r] EXCEPT !.phase = "over"]
          = [ui[r] EXCEPT !.phase = "over", !.status = ui[r].status]
    BY Channel DEF Ui
  <2>2. QED
    BY <2>1 DEF ResponseOver, Over
<1>2. ui[r].status \in {"idle", "connecting", "done", "error", "network"}
  BY Channel DEF Ui
<1>3. wire[r].state = "ended"
  BY DEF ResponseOver
<1>4. QED
  BY <1>1, <1>2, <1>3, ClosesKeeps

LEMMA ReadErrorKeeps == ASSUME IInv, NEW r \in Readers, ReadError(r) PROVE IInv'
<1>1. wire[r].state = "broken" /\ ~Watched(r) /\ UNCHANGED <<row, access, log, run, cuts>>
  BY NotWatching DEF ReadError
<1>2. CASE Resume(r)
  <2> DEFINE u == [ui[r] EXCEPT !.phase = "resuming", !.status = "connecting"]
             w == [frames |-> <<>>, state |-> "open"]
             s == [Off EXCEPT !.pc = "replay", !.cursor = ui[r].lastId]
  <2>1. Moves(r, u, w, s)
    BY <1>1, <1>2 DEF Resume, Moves, Open
  <2>2. u \in Ui /\ u.phase # "idle" /\ u.lastId = ui[r].lastId
        /\ u.shown = ui[r].shown /\ u.seen = ui[r].seen
    BY Channel DEF Ui
  <2>3. w \in Wire /\ w.frames = <<>> /\ Len(w.frames) = 0
    BY EmptySeq DEF Wire
  <2>4. s \in Serve /\ s.pc = "replay" /\ s.cursor = ui[r].lastId
    <3>1. ui[r].lastId \in 0..(MaxNodes + 3)
      BY Channel DEF Ui
    <3>2. QED
      BY <3>1, OffType DEF Off, Serve
  <2>5. /\ Continues(ui[r], wire[r], serve[r], Len(log)) /\ Len(log) \in Nat
        /\ ui[r].lastId \in Nat /\ Len(wire[r].frames) \in Nat
    BY Channel
  <2>6. ui[r].lastId <= Len(log)
    BY <2>5 DEF Continues
  <2>7. Continues(u, w, s, Len(log))
    BY <2>2, <2>3, <2>4, <2>5, <2>6 DEF Continues
  <2>8. QED
    BY <1>1, <2>1, <2>2, <2>3, <2>4, <2>7, ChannelStep
<1>3. CASE Over(r, "network")
  BY <1>1, <1>3, ClosesKeeps
<1>4. QED
  BY <1>2, <1>3 DEF ReadError, Over

-----------------------------------------------------------------------------
(* The run.                                                                *)

LEMMA CreateStreamKeeps == ASSUME IInv, NEW r \in Readers, CreateStream(r) PROVE IInv'
<1> DEFINE s == [serve[r] EXCEPT !.pc = "off"]
<1>1. /\ serve[r].pc = "create" /\ serve' = [serve EXCEPT ![r] = s]
      /\ UNCHANGED <<access, log, ui, cuts>>
  BY DEF CreateStream, At, ServeAt
<1>2. s \in Serve /\ s.pc = "off" /\ s.cursor = serve[r].cursor /\ s.cursor <= Len(log)
  <2>1. serve[r] \in Serve /\ Continues(ui[r], wire[r], serve[r], Len(log))
    BY Channel
  <2>2. QED
    BY <2>1 DEF Serve, Continues
<1>3. CASE row # "none" /\ Finish(r, "broken") /\ UNCHANGED <<row, run>>
  BY <1>1, <1>2, <1>3, FinishKeeps
<1>4. CASE /\ row = "none" /\ row' = "live" /\ UNCHANGED wire
           /\ run' = [pc |-> "accept", by |-> r, attached |-> wire[r].state = "open"]
  <2>1. Moves(r, ui[r], wire[r], s)
    BY <1>1, <1>4, Same DEF Moves
  <2>2. Continues(ui[r], wire[r], s, Len(log))
    BY <1>2, Channel DEF Continues
  <2>3. /\ serve' \in [Readers -> Serve]
        /\ \A q \in Readers : q # r => serve'[q] = serve[q]
        /\ serve'[r] = s /\ ViewInv' /\ OneExecution'
    BY <1>2, <2>1, <2>2, Channel, OneMoves
  <2>4. log = <<>> /\ Len(log) = 0
    BY <1>4, EmptySeq DEF IInv, RunInv
  <2>5. run' \in Run
    BY <1>4 DEF Run
  <2>6. TypeOK'
    BY <1>1, <1>4, <2>3, <2>5 DEF IInv, TypeOK
  <2>7. RunInv'
    BY <1>1, <1>4, <2>4 DEF RunInv
  <2>8. ASSUME NEW q \in Readers, Watched(q)'
        PROVE  Attended(ui'[q], wire'[q], serve'[q], Len(log'))
    <3>1. q = r /\ wire[r].state = "open"
      BY <1>4, <2>8 DEF Watched
    <3>2. ui[r].lastId + Len(wire[r].frames) = Len(log)
      <4>1. /\ Continues(ui[r], wire[r], serve[r], Len(log))
            /\ ui[r].lastId \in Nat /\ Len(wire[r].frames) \in Nat
        BY Channel
      <4>2. QED
        BY <2>4, <4>1 DEF Continues
    <3>3. QED
      BY <1>1, <1>2, <1>4, <2>3, <3>1, <3>2 DEF Attended
  <2>9. QED
    BY <2>3, <2>6, <2>7, <2>8 DEF IInv, WatchInv
<1>5. QED
  BY <1>3, <1>4 DEF CreateStream

(* A connection is lost, and with it the watcher.                          *)
LEMMA CutKeeps == ASSUME IInv, NEW r \in Readers, Cut(r) PROVE IInv'
<1>1. /\ wire[r].state \in {"open", "ended"} /\ wire' = [wire EXCEPT ![r] = Lost]
      /\ cuts' \in 0..MaxCuts
      /\ run' = IF run.by = r THEN [run EXCEPT !.attached = FALSE] ELSE run
      /\ UNCHANGED <<row, access, log, serve, ui>>
  BY BoundsAssumption DEF Cut, IInv, TypeOK, Lost
<1>2. Moves(r, ui[r], Lost, serve[r])
  BY <1>1, Same DEF Moves
<1>3. ui[r].phase # "idle"
  BY <1>1, Channel DEF Continues
<1>4. Lost \in Wire /\ Continues(ui[r], Lost, serve[r], Len(log))
  BY <1>3, Channel, Loses
<1>5. /\ ui' \in [Readers -> Ui] /\ wire' \in [Readers -> Wire]
      /\ serve' \in [Readers -> Serve]
      /\ \A q \in Readers : q # r => /\ ui'[q] = ui[q] /\ wire'[q] = wire[q]
                                     /\ serve'[q] = serve[q]
      /\ ViewInv' /\ OneExecution'
  BY <1>2, <1>4, Channel, OneMoves
<1>6. run' \in Run /\ run'.pc = run.pc /\ run'.by = run.by
  BY <1>1 DEF IInv, TypeOK, Run
<1>7. TypeOK'
  BY <1>1, <1>5, <1>6 DEF IInv, TypeOK
<1>8. RunInv'
  BY <1>1, <1>6 DEF IInv, RunInv
<1>9. ASSUME NEW q \in Readers, Watched(q)' PROVE Watched(q) /\ q # r
  BY <1>1, <1>6, <1>9 DEF Watched, IInv, TypeOK, Run
<1>10. QED
  BY <1>1, <1>5, <1>7, <1>8, <1>9 DEF IInv, WatchInv

(* An event is written to the log and sent to whoever watches.             *)
LEMMA EmitKeeps ==
  ASSUME IInv, NEW kind \in EventKind, NEW pc, Emit(kind, pc), run.pc \in Running,
         pc \in {"scope", "graph", "verdict", "over"},
         kind = "accepted" <=> run.pc = "accept",
         kind \in End <=> pc = "over",
         run.pc \notin {"scope"},
         pc \in {"scope", "graph"} => Len(log) <= MaxNodes,
         pc = "verdict" => run.pc = "outcome"
  PROVE  IInv'
<1> DEFINE n == Len(log)
<1>1. /\ log \in Seq(EventKind) /\ n \in Nat /\ n + 1 <= MaxNodes + 3
      /\ run \in Run /\ run.by \in Readers
      /\ run.pc = "accept" => log = <<>>
      /\ run.pc # "accept" => log # <<>> /\ \A i \in DOMAIN log : log[i] \notin End
      /\ run.pc \in {"accept", "graph", "outcome"} => n <= MaxNodes + 1
  BY LenProperties, EmptySeq, BoundsAssumption DEF IInv, TypeOK, RunInv, Running
<1>2. /\ log' \in Seq(EventKind) /\ Len(log') = n + 1 /\ log' # <<>>
      /\ \A i \in 1..n : log'[i] = log[i]
      /\ log'[n + 1] = kind
  BY <1>1, AppendProperties DEF Emit
<1>3. DOMAIN log = 1..n /\ DOMAIN log' = 1..(n + 1)
  BY <1>1, <1>2, LenProperties
<1>4. /\ run' \in Run /\ run'.pc = pc /\ run'.by = run.by /\ run'.attached = run.attached
      /\ UNCHANGED <<row, access, serve, ui, cuts>>
  BY <1>1 DEF Emit, Run
<1>5. ASSUME NEW i \in DOMAIN log'
      PROVE  /\ log'[i] = "accepted" <=> i = 1
             /\ log'[i] \in End => i = n + 1
  <2>1. CASE run.pc = "accept"
    <3>1. n = 0 /\ i = 1
      BY <1>1, <1>3, <2>1, EmptySeq
    <3>2. QED
      BY <1>2, <2>1, <3>1
  <2>2. CASE run.pc # "accept"
    <3>1. n >= 1
      BY <1>1, <2>2, EmptySeq
    <3>2. CASE i = n + 1
      BY <1>1, <1>2, <2>2, <3>1, <3>2
    <3>3. CASE i \in 1..n
      <4>1. log'[i] = log[i] /\ log[i] \notin End
        BY <1>1, <1>2, <1>3, <2>2, <3>3
      <4>2. log[i] = "accepted" <=> i = 1
        BY <1>3, <3>3 DEF IInv, OneExecution
      <4>3. QED
        BY <4>1, <4>2
    <3>4. QED
      BY <1>1, <1>3, <3>2, <3>3
  <2>3. QED
    BY <2>1, <2>2
<1>6. OneExecution'
  BY <1>2, <1>5 DEF OneExecution
<1>7. RunInv'
  <2>1. row' # "none"
    BY <1>4 DEF IInv, RunInv, Running
  <2>2. pc \in {"scope", "graph", "verdict"} => \A i \in DOMAIN log' : log'[i] \notin End
    <3> SUFFICES ASSUME pc # "over", NEW i \in DOMAIN log' PROVE log'[i] \notin End
      OBVIOUS
    <3>1. kind \notin End
      OBVIOUS
    <3>2. i = n + 1 \/ i \in 1..n
      BY <1>1, <1>3
    <3>3. i \in 1..n => i # n + 1
      BY <1>1
    <3>4. QED
      BY <1>2, <1>5, <3>1, <3>2, <3>3
  <2>3. pc \in {"scope", "graph"} => n + 1 <= MaxNodes + 1
    BY <1>1, BoundsAssumption
  <2>4. pc = "verdict" => n + 1 <= MaxNodes + 2
    BY <1>1, BoundsAssumption
  <2>5. QED
    BY <1>1, <1>2, <1>4, <2>1, <2>2, <2>3, <2>4 DEF RunInv
<1>8. CASE ~run.attached
  <2>1. UNCHANGED wire
    BY <1>8 DEF Emit
  <2>2. TypeOK'
    BY <1>1, <1>2, <1>4, <2>1 DEF IInv, TypeOK
  <2>3. ASSUME NEW q \in Readers PROVE Continues(ui'[q], wire'[q], serve'[q], Len(log'))
    BY <1>1, <1>2, <1>4, <2>1, Channel, Grows
  <2>4. WatchInv'
    BY <1>4, <1>8 DEF WatchInv, Watched
  <2>5. QED
    BY <1>6, <1>7, <2>2, <2>3, <2>4 DEF IInv, ViewInv
<1>9. CASE run.attached
  <2> DEFINE r == run.by
             w == wire[r]
             v == Pushed(w, n + 1)
             x == [frames |-> Append(w.frames, n + 1),
                   state |-> IF pc = "over" THEN "ended" ELSE w.state]
  <2>1. wire' = [wire EXCEPT ![r] = x]
    BY <1>9 DEF Emit
  <2>2. /\ w.state = "open" /\ serve[r].pc = "off" /\ ui[r].lastId + Len(w.frames) = n
    BY <1>1, <1>9 DEF IInv, WatchInv, Watched, Attended
  <2>3. n + 1 \in Ids /\ n <= n + 1 /\ n + 1 \in Nat
    BY <1>1, BoundsAssumption DEF Ids
  <2>4. /\ ui[r] \in Ui /\ w \in Wire /\ serve[r] \in Serve
        /\ Continues(ui[r], w, serve[r], n)
    BY <1>1, Channel
  <2>5. /\ v \in Wire /\ ui[r].lastId + Len(v.frames) <= n + 1
        /\ \A i \in 1..Len(v.frames) : v.frames[i] = ui[r].lastId + i
        /\ Len(v.frames) = Len(w.frames) + 1
    <3>1. n + 1 = ui[r].lastId + Len(w.frames) + 1
      BY <2>2
    <3> HIDE DEF w, n
    <3>2. QED
      BY <1>1, <2>3, <2>4, <3>1, Pushes
  <2>6. /\ x \in Wire /\ x.frames = v.frames
        /\ x.state = IF pc = "over" THEN "ended" ELSE "open"
    BY <2>2, <2>4, <2>5 DEF Wire, Pushed
  <2> HIDE DEF w, v, x
  <2>7. Continues(ui[r], x, serve[r], n + 1)
    <3>1. Continues(ui[r], w, serve[r], n + 1)
      BY <1>1, <2>3, <2>4, Grows
    <3>2. ui[r].phase # "idle"
      BY <2>2, <2>4 DEF Continues
    <3>3. QED
      BY <2>2, <2>5, <2>6, <3>1, <3>2 DEF Continues
  <2>8. /\ wire' \in [Readers -> Wire] /\ wire'[r] = x
        /\ \A q \in Readers : q # r => wire'[q] = wire[q]
    BY <1>1, <2>1, <2>6 DEF IInv, TypeOK
  <2>9. TypeOK'
    BY <1>1, <1>2, <1>4, <2>8 DEF IInv, TypeOK
  <2>10. ASSUME NEW q \in Readers PROVE Continues(ui'[q], wire'[q], serve'[q], Len(log'))
    <3>1. CASE q = r
      BY <1>2, <1>4, <2>7, <2>8, <3>1
    <3>2. CASE q # r
      BY <1>1, <1>2, <1>4, <2>8, <3>2, Channel, Grows
    <3>3. QED
      BY <3>1, <3>2
  <2>11. ASSUME NEW q \in Readers, Watched(q)'
         PROVE  Attended(ui'[q], wire'[q], serve'[q], Len(log'))
    <3>1. q = r /\ pc # "over"
      BY <1>4, <2>11 DEF Watched, Running
    <3>2. ui[r].lastId + Len(x.frames) = n + 1
      <4>1. Len(x.frames) = Len(w.frames) + 1
        BY <2>5, <2>6
      <4>2. ui[r].lastId \in Nat /\ Len(w.frames) \in Nat
        BY <1>1, Channel DEF w
      <4>3. ui[r].lastId + (Len(w.frames) + 1) = (ui[r].lastId + Len(w.frames)) + 1
        BY <4>2
      <4>4. QED
        BY <2>2, <4>1, <4>3
    <3>3. QED
      BY <1>2, <1>4, <2>2, <2>6, <2>8, <3>1, <3>2 DEF Attended
  <2>12. QED
    BY <1>6, <1>7, <2>9, <2>10, <2>11 DEF IInv, ViewInv, WatchInv
<1>10. QED
  BY <1>8, <1>9

(* The run moves on without a word.                                        *)
LEMMA QuietKeeps ==
  ASSUME IInv, NEW pc \in {"graph", "outcome", "cancelled", "raised"},
         run' = [run EXCEPT !.pc = pc],
         pc = "graph" => run.pc = "scope",
         pc = "outcome" => run.pc = "graph",
         run.pc # "none",
         UNCHANGED <<row, access, log, serve, wire, ui, cuts>>
  PROVE  IInv'
<1>1. run' \in Run /\ run'.pc = pc /\ run'.by = run.by /\ run'.attached = run.attached
  BY DEF IInv, TypeOK, Run
<1>2. RunInv'
  BY <1>1 DEF IInv, RunInv
<1>3. \A r \in Readers : Watched(r)' => Watched(r)
  BY <1>1 DEF Watched, Running
<1>4. row' \in {"none", "live", "expired"} /\ access' \in BOOLEAN
  BY DEF IInv, TypeOK
<1>5. QED
  BY <1>1, <1>2, <1>3, <1>4, RestStep

(* The session is gone, or an access to the database raises: the response  *)
(* ends with an exception.                                                 *)
LEMMA BreaksOffKeeps ==
  ASSUME IInv, run.pc # "none", NEW pc \in {"cancelled", "raised"},
         run' = [run EXCEPT !.pc = pc],
         IF run.attached THEN Finish(run.by, "broken") ELSE UNCHANGED wire,
         UNCHANGED <<row, access, log, serve, ui, cuts>>
  PROVE  IInv'
<1>1. /\ run' \in Run /\ run'.pc = pc /\ run'.by = run.by /\ run.by \in Readers
  BY DEF IInv, TypeOK, Run, RunInv
<1>2. CASE ~run.attached
  BY <1>2, QuietKeeps
<1>3. CASE run.attached
  <2> DEFINE r == run.by
             w == [wire[r] EXCEPT !.state = IF @ = "open" THEN "broken" ELSE @]
  <2>1. Moves(r, ui[r], w, serve[r])
    BY <1>1, <1>3, Same DEF Moves, Finish
  <2>2. w \in Wire /\ w.frames = wire[r].frames /\ (w.state = "open" => wire[r].state = "open")
        /\ (wire[r].state = "closed" => w.state = "closed")
    BY <1>1, Channel DEF Wire
  <2>3. Continues(ui[r], w, serve[r], Len(log))
    <3>1. Continues(ui[r], wire[r], serve[r], Len(log))
      BY <1>1, Channel
    <3> HIDE DEF r, w
    <3>2. QED
      BY <2>2, <3>1 DEF Continues
  <2>4. /\ ui' \in [Readers -> Ui] /\ wire' \in [Readers -> Wire]
        /\ serve' \in [Readers -> Serve] /\ ViewInv' /\ OneExecution'
    BY <1>1, <2>1, <2>2, <2>3, Channel, OneMoves
  <2>5. TypeOK'
    BY <1>1, <2>4 DEF IInv, TypeOK
  <2>6. RunInv'
    BY <1>1 DEF IInv, RunInv
  <2>7. WatchInv'
    BY <1>1 DEF WatchInv, Watched, Running
  <2>8. QED
    BY <2>4, <2>5, <2>6, <2>7 DEF IInv
<1>4. QED
  BY <1>2, <1>3

LEMMA RunKeeps == ASSUME IInv, RunStep PROVE IInv'
<1>1. /\ "accepted" \in EventKind \ End /\ "node" \in EventKind \ End
      /\ "token" \in EventKind \ End
      /\ "approval_required" \in End /\ "done" \in End /\ "error" \in End
      /\ End \subseteq EventKind /\ "accepted" \notin End
  BY DEF EventKind, End
<1>2. CASE Accept
  <2>1. Len(log) <= MaxNodes
    BY <1>2, EmptySeq, BoundsAssumption DEF Accept, IInv, RunInv
  <2>2. QED
    BY <1>1, <1>2, <2>1, EmitKeeps DEF Accept, Running
<1>3. CASE EnterScope
  <2>1. CASE access
    <3>1. /\ run' = [run EXCEPT !.pc = "graph"] /\ run.pc = "scope"
          /\ UNCHANGED <<row, access, log, serve, wire, ui, cuts>>
      BY <1>3, <2>1 DEF EnterScope
    <3>2. QED
      BY <3>1, QuietKeeps
  <2>2. CASE ~access
    BY <1>3, <2>2, BreaksOffKeeps DEF EnterScope
  <2>3. QED
    BY <2>1, <2>2
<1>4. CASE GraphNode
  BY <1>1, <1>4, EmitKeeps DEF GraphNode, Running
<1>5. CASE GraphEnd
  <2>1. /\ run' = [run EXCEPT !.pc = "outcome"] /\ run.pc = "graph"
        /\ UNCHANGED <<row, access, log, serve, wire, ui, cuts>>
    BY <1>5 DEF GraphEnd
  <2>2. QED
    BY <2>1, QuietKeeps
<1>6. CASE EndApproval
  BY <1>1, <1>6, EmitKeeps DEF EndApproval, Running
<1>7. CASE Token
  BY <1>1, <1>7, EmitKeeps DEF Token, Running
<1>8. CASE EndError
  BY <1>1, <1>8, EmitKeeps DEF EndError, Running
<1>9. CASE EndDone
  BY <1>1, <1>9, EmitKeeps DEF EndDone, Running
<1>10. CASE Cancel
  <2>1. /\ run' = [run EXCEPT !.pc = "cancelled"] /\ run.pc # "none"
        /\ UNCHANGED <<row, access, log, serve, wire, ui, cuts>>
    BY <1>10 DEF Cancel
  <2>2. QED
    BY <2>1, QuietKeeps
<1>11. CASE Raise
  BY <1>11, BreaksOffKeeps DEF Raise
<1>12. QED
  BY <1>2, <1>3, <1>4, <1>5, <1>6, <1>7, <1>8, <1>9, <1>10, <1>11 DEF RunStep

-----------------------------------------------------------------------------
LEMMA InitInv == Init => IInv
<1> SUFFICES ASSUME Init PROVE IInv
  OBVIOUS
<1>1. log = <<>> /\ Len(log) = 0 /\ log \in Seq(EventKind) /\ DOMAIN log = {}
  BY EmptySeq DEF Init
<1>2. run \in Run /\ serve \in [Readers -> Serve] /\ wire \in [Readers -> Wire]
  BY EmptySeq, OffType DEF Init, Run, Wire
<1>3. ui \in [Readers -> Ui]
  BY EmptySeq, BoundsAssumption DEF Init, Ui
<1>4. TypeOK
  BY <1>1, <1>2, <1>3, BoundsAssumption DEF Init, TypeOK
<1>5. ASSUME NEW r \in Readers PROVE Continues(ui[r], wire[r], serve[r], Len(log))
  <2>1. /\ ui[r].lastId = 0 /\ ui[r].seen = {} /\ ui[r].shown = <<>>
        /\ wire[r].frames = <<>> /\ wire[r].state = "closed" /\ serve[r].cursor = 0
    BY DEF Init, Off
  <2>2. <<>> = [i \in 1..0 |-> i] /\ Len(<<>>) = 0
    BY EmptySeq
  <2>3. QED
    BY <1>1, <2>1, <2>2 DEF Continues
<1>6. RunInv /\ WatchInv /\ OneExecution
  BY <1>1 DEF Init, RunInv, WatchInv, Watched, Running, OneExecution
<1>7. QED
  BY <1>4, <1>5, <1>6 DEF IInv, ViewInv

LEMMA Invariance == IInv /\ [Next]_vars => IInv'
<1> SUFFICES ASSUME IInv, [Next]_vars PROVE IInv'
  OBVIOUS
<1>1. ASSUME NEW r \in Readers, PostStart(r) \/ ServeStep(r) \/ ReadStep(r) \/ Cut(r)
      PROVE  IInv'
  BY <1>1, PostStartKeeps, FindKeeps, CreateStreamKeeps, StartReplayKeeps, YieldFrameKeeps,
     ReadFrameKeeps, ResponseOverKeeps, ReadErrorKeeps, CutKeeps DEF ServeStep, ReadStep
<1>2. CASE Expire \/ LoseAccess
  <2>1. /\ UNCHANGED <<log, run, serve, wire, ui, cuts>>
        /\ row' \in {"none", "live", "expired"} /\ access' \in BOOLEAN /\ run' \in Run
        /\ row' = "none" <=> row = "none"
    BY <1>2 DEF Expire, LoseAccess, IInv, TypeOK
  <2>2. RunInv' /\ \A r \in Readers : Watched(r)' => Watched(r)
    BY <2>1 DEF IInv, RunInv, Watched
  <2>3. QED
    BY <2>1, <2>2, RestStep
<1>3. CASE UNCHANGED vars
  BY <1>3
     DEF vars, IInv, TypeOK, ViewInv, WatchInv, Watched, RunInv, OneExecution
<1>4. QED
  BY <1>1, <1>2, <1>3, RunKeeps DEF Next

(* The invariant holds in every reachable state.                           *)
LEMMA Inductive == Spec => []IInv
BY InitInv, Invariance, PTL DEF Spec

-----------------------------------------------------------------------------
(* The log, the responses and the channels keep their types; in particular *)
(* the log is never longer than the events a run can have.                 *)
THEOREM TypeCorrect == Spec => []TypeOK
<1>1. IInv => TypeOK
  BY DEF IInv
<1>2. QED
  BY <1>1, Inductive, PTL

(* A request that is posted any number of times, by any channels, runs the *)
(* graph once: its stream opens with one "accepted" and closes with one    *)
(* last event.                                                             *)
THEOREM OneExecutionHolds == Spec => []OneExecution
<1>1. IInv => OneExecution
  BY DEF IInv
<1>2. QED
  BY <1>1, Inductive, PTL

(* No loss of a connection, no replay and no size of the dedup window      *)
(* makes a channel skip an event or show it twice.                         *)
THEOREM PrefixHolds == Spec => []ShownIsPrefix
<1>1. IInv => ShownIsPrefix
  <2> SUFFICES ASSUME IInv, NEW r \in Readers
               PROVE  /\ ui[r].lastId <= Len(log)
                      /\ ui[r].shown = [i \in 1..ui[r].lastId |-> i]
    BY DEF ShownIsPrefix
  <2>1. /\ Continues(ui[r], wire[r], serve[r], Len(log)) /\ Len(log) \in Nat
        /\ ui[r].lastId \in Nat /\ Len(wire[r].frames) \in Nat
    BY Channel
  <2>2. QED
    BY <2>1 DEF Continues
<1>2. QED
  BY <1>1, Inductive, PTL

=============================================================================
