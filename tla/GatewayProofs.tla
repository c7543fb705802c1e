------------------------------ MODULE GatewayProofs ------------------------------
(***************************************************************************)
(* Proofs that the sandbox gateway implements FundsContract, and of what a *)
(* refusal and a "not found" mean, for any sets of callers, tenants and    *)
(* keys, any faults, any number of requests and restarts.                  *)
(***************************************************************************)
EXTENDS SandboxGateway, TLAPS

Booked(k) == txns[k] # NoTxn

(* What an answer to a request is worth, now and later.                    *)
Answers(ask, out) ==
  /\ out.code = "ok" =>
       \/ ask.op = "submit" /\ txns[ask.account] = out.txn /\ Booked(ask.account)
       \/ /\ ask.op = "query"
          /\ \E k \in Accounts : k[1] = ask.tenant /\ txns[k] = out.txn /\ Booked(k)
  /\ out.code = "not_found" =>
       /\ ask.op = "query"
       /\ \E k \in Accounts : Booked(k) /\ txns[k].id = ask.txn
       /\ \A k \in Accounts : Booked(k) /\ txns[k].id = ask.txn => k[1] # ask.tenant

(* A request that is waiting has done nothing, and asks for a transaction  *)
(* that exists if it asks for one.                                         *)
RequestOk(r) ==
  /\ r \in Request /\ r.id <= sent
  /\ r.stage = "sent" => \A k \in Accounts : Booked(k) => txns[k].id # r.id
  /\ r.ask.op = "query" => \E k \in Accounts : Booked(k) /\ txns[k].id = r.ask.txn
  /\ r.stage = "done" => Answers(r.ask, r.reply)

AnswerOk(a) ==
  /\ a.id \in 1..sent /\ a.ask \in Ask /\ a.outcome \in Outcome
  /\ Answers(a.ask, a.outcome)
  /\ a.outcome.code \in NoEffect =>
       /\ \A k \in Accounts : Booked(k) => txns[k].id # a.id
       /\ \A r \in requests : r.id # a.id

TxnInv ==
  /\ \A k \in Accounts : Booked(k) => txns[k].id <= sent
  /\ \A j, k \in Accounts : Booked(j) /\ Booked(k) /\ txns[j].id = txns[k].id => j = k

RequestInv ==
  /\ \A r \in requests : RequestOk(r)
  /\ \A q, r \in requests : q.id = r.id => q = r

AnswerInv == \A a \in answers : AnswerOk(a)

IInv == TypeOK /\ TxnInv /\ RequestInv /\ AnswerInv

-----------------------------------------------------------------------------
(* The book only grows, and what is new in it has a new id.                *)
BookGrows ==
  /\ \A k \in Accounts : Booked(k) => txns'[k] = txns[k]
  /\ \A j, k \in Accounts : ~Booked(j) /\ Booked(j)' /\ Booked(k) => txns'[j].id # txns[k].id

LEMMA SameBook == ASSUME txns' = txns PROVE BookGrows
BY DEF BookGrows, Booked

LEMMA AskType ==
  ASSUME NEW ask \in Ask
  PROVE  /\ ask.op \in {"submit", "compensate", "query"}
         /\ ask.op = "submit" => ask.account \in Accounts /\ ask.want \in TxnStatus
         /\ ask.op = "compensate" => ask.account \in Accounts
         /\ ask.op = "query" => ask.tenant \in Tenants /\ ask.txn \in Ids
BY DEF Ask

LEMMA OutcomeType ==
  ASSUME NEW out \in Outcome
  PROVE  /\ out.code = "ok" => out \in Found /\ out.txn \in Txn
         /\ out.code = "not_found" => out = NotFound
         /\ out.code \in {"ok", "not_found", "reversed"} \cup ErrorCode
BY DEF Outcome, Found, NotFound, Reversed, ErrorCode

LEMMA AnswerStable ==
  ASSUME BookGrows, NEW ask \in Ask, NEW out, Answers(ask, out)
  PROVE  Answers(ask, out)'
<1>1. CASE out.code = "ok" /\ ask.op = "submit"
  <2>1. ask.account \in Accounts /\ txns[ask.account] = out.txn /\ Booked(ask.account)
    BY <1>1, AskType DEF Answers
  <2>2. txns'[ask.account] = out.txn /\ Booked(ask.account)'
    BY <2>1 DEF BookGrows, Booked
  <2>3. QED
    BY <1>1, <2>2 DEF Answers
<1>2. CASE out.code = "ok" /\ ask.op = "query"
  <2>1. PICK k \in Accounts : k[1] = ask.tenant /\ txns[k] = out.txn /\ Booked(k)
    BY <1>2 DEF Answers
  <2>2. txns'[k] = out.txn /\ Booked(k)'
    BY <2>1 DEF BookGrows, Booked
  <2>3. QED
    BY <1>2, <2>1, <2>2 DEF Answers
<1>3. CASE out.code = "not_found"
  <2>1. PICK k \in Accounts : Booked(k) /\ txns[k].id = ask.txn
    BY <1>3 DEF Answers
  <2>2. txns'[k] = txns[k] /\ Booked(k)'
    BY <2>1 DEF BookGrows, Booked
  <2>3. ASSUME NEW j \in Accounts, Booked(j)', txns'[j].id = ask.txn
        PROVE  j[1] # ask.tenant
    <3>1. Booked(j)
      BY <2>1, <2>3 DEF BookGrows
    <3>2. txns'[j] = txns[j]
      BY <3>1 DEF BookGrows
    <3>3. QED
      BY <1>3, <2>3, <3>1, <3>2 DEF Answers
  <2>4. QED
    BY <1>3, <2>1, <2>2, <2>3 DEF Answers
<1>4. QED
  BY <1>1, <1>2, <1>3 DEF Answers

(* An answer stays right while requests only go, or new ones come.         *)
LEMMA AnswersStay ==
  ASSUME IInv, BookGrows, sent' >= sent, sent' \in Nat, answers' = answers,
         \A r \in requests' : (\E q \in requests : q.id = r.id) \/ r.id > sent,
         \A k \in Accounts : ~Booked(k) /\ Booked(k)' => \E q \in requests : q.id = txns'[k].id
  PROVE  AnswerInv'
<1> SUFFICES ASSUME NEW a \in answers PROVE AnswerOk(a)'
  BY DEF AnswerInv
<1>1. AnswerOk(a) /\ a.id \in 1..sent /\ sent \in Nat
  BY DEF IInv, AnswerInv, AnswerOk, TypeOK
<1>2. Answers(a.ask, a.outcome)'
  BY <1>1, AnswerStable DEF AnswerOk
<1>3. ASSUME a.outcome.code \in NoEffect
      PROVE  /\ \A k \in Accounts : Booked(k)' => txns'[k].id # a.id
             /\ \A r \in requests' : r.id # a.id
  <2>1. /\ \A k \in Accounts : Booked(k) => txns[k].id # a.id
        /\ \A q \in requests : q.id # a.id
    BY <1>1, <1>3 DEF AnswerOk
  <2>2. \A k \in Accounts : Booked(k)' => txns'[k].id # a.id
    BY <2>1 DEF BookGrows
  <2>3. QED
    BY <1>1, <2>1, <2>2
<1>4. QED
  BY <1>1, <1>2, <1>3 DEF AnswerOk

-----------------------------------------------------------------------------
(* Sending.                                                                *)
LEMMA SendInv ==
  ASSUME IInv, NEW c \in Callers, NEW ask \in Ask, Send(c, ask),
         ask.op = "query" => \E k \in Accounts : Booked(k) /\ txns[k].id = ask.txn
  PROVE  IInv'
<1>0. PICK new :
        new = [id |-> sent + 1, by |-> c, ask |-> ask, stage |-> "sent", reply |-> NotFound]
  OBVIOUS
<1>1. sent \in Nat /\ MaxRequests \in Nat /\ sent + 1 \in Ids /\ sent' = sent + 1
  BY BoundsAssumption DEF IInv, TypeOK, Send, Ids
<1>2. new \in Request /\ requests' = requests \cup {new}
  BY <1>0, <1>1 DEF Request, Send
<1>3. /\ \A r \in requests : r.id <= sent /\ r \in Request
      /\ \A k \in Accounts : Booked(k) => txns[k].id <= sent /\ txns[k].id \in Ids
  BY DEF IInv, RequestInv, RequestOk, TxnInv, TypeOK, Booked, Txn
<1>4. /\ new.id = sent + 1 /\ new.by = c /\ new.ask = ask /\ new.stage = "sent"
  BY <1>0
<1>5. UNCHANGED <<setup, txns, reversals, answers, crashes>>
  BY DEF Send
<1>6. BookGrows
  BY <1>5, SameBook
<1>7. TxnInv'
  BY <1>1, <1>3, <1>5 DEF IInv, TxnInv, Booked, Ids
<1>8. RequestInv'
  <2>1. ASSUME NEW r \in requests PROVE RequestOk(r)'
    <3>1. RequestOk(r) /\ r \in Request /\ r.ask \in Ask /\ r.id \in Nat
      BY DEF IInv, RequestInv, RequestOk, Request, Ids
    <3>2. r.id <= sent'
      BY <1>1, <3>1 DEF RequestOk
    <3>3. r.stage = "done" => Answers(r.ask, r.reply)'
      BY <1>6, <3>1, AnswerStable DEF RequestOk
    <3>4. /\ r.stage = "sent" => \A k \in Accounts : Booked(k)' => txns'[k].id # r.id
          /\ r.ask.op = "query" => \E k \in Accounts : Booked(k)' /\ txns'[k].id = r.ask.txn
      BY <1>5, <3>1 DEF RequestOk, Booked
    <3>5. QED
      BY <3>1, <3>2, <3>3, <3>4 DEF RequestOk
  <2>2. RequestOk(new)'
    <3>1. new.id <= sent'
      BY <1>1, <1>4
    <3>2. \A k \in Accounts : Booked(k)' => txns'[k].id # new.id
      BY <1>1, <1>3, <1>4, <1>5 DEF Booked, Ids
    <3>3. new.ask.op = "query" => \E k \in Accounts : Booked(k)' /\ txns'[k].id = new.ask.txn
      BY <1>4, <1>5 DEF Booked
    <3>4. new.stage # "done"
      BY <1>4
    <3>5. QED
      BY <1>2, <3>1, <3>2, <3>3, <3>4 DEF RequestOk
  <2>3. \A r \in requests : r.id # new.id
    BY <1>1, <1>3, <1>4 DEF Request, Ids
  <2>4. \A r \in requests' : RequestOk(r)'
    BY <1>2, <2>1, <2>2
  <2>5. \A q, r \in requests' : q.id = r.id => q = r
    <3>1. \A q, r \in requests : q.id = r.id => q = r
      BY DEF IInv, RequestInv
    <3>2. QED
      BY <1>2, <2>3, <3>1
  <2>6. QED
    BY <2>4, <2>5 DEF RequestInv
<1>9. AnswerInv'
  BY <1>1, <1>2, <1>4, <1>5, <1>6, AnswersStay DEF Booked
<1>10. TypeOK'
  <2>1. call' \in [Callers -> 0..sent']
    BY <1>1 DEF IInv, TypeOK, Send
  <2>2. \A d \in Callers : call'[d] # 0 => \E r \in requests' : r.id = call'[d] /\ r.by = d
    BY <1>1, <1>2, <1>4 DEF IInv, TypeOK, Send
  <2>3. sent' \in 0..MaxRequests
    BY <1>1 DEF Send, Ids
  <2>4. requests' \subseteq Request
    BY <1>2, <1>3
  <2>5. QED
    BY <1>1, <1>5, <2>1, <2>2, <2>3, <2>4 DEF IInv, TypeOK
<1>11. QED
  BY <1>7, <1>8, <1>9, <1>10 DEF IInv

LEMMA CallsInv ==
  ASSUME IInv, NEW c \in Callers, Submit(c) \/ Query(c) \/ Compensate(c)
  PROVE  IInv'
<1>1. CASE Submit(c)
  <2>1. PICK a \in Accounts, s \in TxnStatus :
          Send(c, [op |-> "submit", account |-> a, want |-> s])
    BY <1>1 DEF Submit
  <2>2. [op |-> "submit", account |-> a, want |-> s] \in Ask
    BY DEF Ask
  <2>3. QED
    BY <2>1, <2>2, SendInv
<1>2. CASE Compensate(c)
  <2>1. PICK a \in Accounts : Send(c, [op |-> "compensate", account |-> a])
    BY <1>2 DEF Compensate
  <2>2. [op |-> "compensate", account |-> a] \in Ask
    BY DEF Ask
  <2>3. QED
    BY <2>1, <2>2, SendInv
<1>3. CASE Query(c)
  <2>1. PICK t \in Tenants, b \in answers :
          /\ b.outcome.code = "ok"
          /\ Send(c, [op |-> "query", tenant |-> t, txn |-> b.outcome.txn.id])
    BY <1>3 DEF Query
  <2>2. AnswerOk(b) /\ b.outcome.txn \in Txn
    BY <2>1, OutcomeType DEF IInv, AnswerInv, AnswerOk
  <2>3. PICK k \in Accounts : txns[k] = b.outcome.txn /\ Booked(k)
    BY <2>1, <2>2, AskType DEF AnswerOk, Answers
  <2>4. [op |-> "query", tenant |-> t, txn |-> b.outcome.txn.id] \in Ask
    BY <2>2 DEF Ask, Txn
  <2>5. QED
    BY <2>1, <2>3, <2>4, SendInv
<1>4. QED
  BY <1>1, <1>2, <1>3

-----------------------------------------------------------------------------
(* Answering.                                                              *)

(* Some requests go, and answers to requests there were come.              *)
LEMMA AnswerStep ==
  ASSUME IInv, UNCHANGED <<setup, txns, reversals, sent>>, crashes' \in 0..MaxCrashes,
         requests' \subseteq requests, call' \in [Callers -> 0..sent],
         \A c \in Callers : call'[c] # 0 => \E r \in requests' : r.id = call'[c] /\ r.by = c,
         \A a \in answers' \ answers :
           \E r \in requests, out \in Outcome :
             /\ a = [id |-> r.id, ask |-> r.ask, outcome |-> out]
             /\ out.code \notin {"network", "timeout"} =>
                  /\ r \notin requests'
                  /\ out.code \in NoEffect => r.stage = "sent"
                  /\ out.code \notin NoEffect => r.stage = "done" /\ out = r.reply,
         answers \subseteq answers'
  PROVE  IInv'
<1>1. TxnInv' /\ RequestInv'
  BY DEF IInv, TxnInv, RequestInv, RequestOk, Answers, Booked
<1>2. ASSUME NEW a \in answers' PROVE AnswerOk(a)'
  <2>1. CASE a \in answers
    <3>1. AnswerOk(a)
      BY <2>1 DEF IInv, AnswerInv
    <3>2. QED
      BY <3>1 DEF AnswerOk, Answers, Booked
  <2>2. CASE a \notin answers
    <3>1. PICK r \in requests, out \in Outcome :
             /\ a = [id |-> r.id, ask |-> r.ask, outcome |-> out]
             /\ out.code \notin {"network", "timeout"} =>
                  /\ r \notin requests'
                  /\ out.code \in NoEffect => r.stage = "sent"
                  /\ out.code \notin NoEffect => r.stage = "done" /\ out = r.reply
      BY <1>2, <2>2
    <3>2. /\ RequestOk(r) /\ r.id \in 1..sent /\ r.ask \in Ask
          /\ a.id = r.id /\ a.ask = r.ask /\ a.outcome = out
      BY <3>1 DEF IInv, RequestInv, RequestOk, Request, TypeOK, Ids
    <3>3. Answers(a.ask, a.outcome)'
      <4>1. CASE out.code \in {"ok", "not_found"}
        <5>1. r.stage = "done" /\ out = r.reply
          BY <3>1, <4>1 DEF NoEffect
        <5>2. Answers(r.ask, r.reply)
          BY <3>2, <5>1 DEF RequestOk
        <5>3. QED
          BY <3>2, <5>1, <5>2 DEF Answers, Booked
      <4>2. CASE out.code \notin {"ok", "not_found"}
        BY <3>2, <4>2 DEF Answers
      <4>3. QED
        BY <4>1, <4>2
    <3>4. ASSUME out.code \in NoEffect
          PROVE  /\ \A k \in Accounts : Booked(k)' => txns'[k].id # a.id
                 /\ \A q \in requests' : q.id # a.id
      <4>1. r.stage = "sent" /\ r \notin requests'
        BY <3>1, <3>4 DEF NoEffect
      <4>2. \A q \in requests' : q.id # r.id
        BY <4>1 DEF IInv, RequestInv
      <4>3. QED
        BY <3>2, <4>1, <4>2 DEF RequestOk, Booked
    <3>5. QED
      BY <3>2, <3>3, <3>4 DEF AnswerOk
  <2>3. QED
    BY <2>1, <2>2
<1>3. AnswerInv'
  BY <1>2 DEF AnswerInv
<1>4. TypeOK'
  BY <1>2 DEF IInv, TypeOK, AnswerOk
<1>5. QED
  BY <1>1, <1>3, <1>4 DEF IInv

LEMMA ReplyInv ==
  ASSUME IInv, NEW r \in requests, NEW out \in Outcome, Reply(r, out),
         UNCHANGED <<setup, txns, reversals, sent, crashes>>,
         out.code \in NoEffect => r.stage = "sent",
         out.code \notin NoEffect \cup {"network"} => r.stage = "done" /\ out = r.reply
  PROVE  IInv'
<1>1. r.by \in Callers /\ r.id \in 1..sent /\ sent \in Nat /\ requests' = requests \ {r}
  BY DEF IInv, TypeOK, RequestInv, RequestOk, Request, Reply, Ids
<1>2. \A c \in Callers : \A q \in requests : q.id = r.id /\ q.by = c => q = r
  BY DEF IInv, RequestInv
<1>3. CASE Waits(r)
  <2>1. /\ answers' = answers \cup {[id |-> r.id, ask |-> r.ask, outcome |-> out]}
        /\ call' = [call EXCEPT ![r.by] = 0]
    BY <1>3 DEF Reply, Answered
  <2>2. call' \in [Callers -> 0..sent]
    BY <1>1, <2>1 DEF IInv, TypeOK
  <2>3. \A c \in Callers : call'[c] # 0 => \E q \in requests' : q.id = call'[c] /\ q.by = c
    BY <1>1, <2>1 DEF IInv, TypeOK
  <2>4. QED
    BY <1>1, <2>1, <2>2, <2>3, AnswerStep DEF IInv, TypeOK
<1>4. CASE ~Waits(r)
  <2>1. UNCHANGED <<answers, call>>
    BY <1>4 DEF Reply
  <2>2. \A c \in Callers : call'[c] # 0 => \E q \in requests' : q.id = call'[c] /\ q.by = c
    BY <1>1, <1>4, <2>1 DEF IInv, TypeOK, Waits
  <2>3. QED
    BY <1>1, <2>1, <2>2, AnswerStep DEF IInv, TypeOK
<1>5. QED
  BY <1>3, <1>4

LEMMA RepliesInv ==
  ASSUME IInv, NEW r \in requests, Refuse(r) \/ Return(r) \/ Lose(r)
  PROVE  IInv'
<1>1. r.reply \in Outcome /\ (r.reply.code \notin NoEffect)
  BY DEF IInv, TypeOK, Request, Outcome, Found, NotFound, Reversed, NoEffect
<1>2. {[code |-> "upstream_5xx"], [code |-> "gateway_rejected"], [code |-> "network"]}
        \subseteq Outcome
  BY DEF Outcome, ErrorCode
<1>3. CASE Refuse(r)
  <2>1. PICK x \in NoEffect : Reply(r, [code |-> x])
    BY <1>3 DEF Refuse, NoEffect
  <2>2. QED
    BY <1>2, <1>3, <2>1, ReplyInv DEF Refuse, NoEffect
<1>4. CASE Return(r)
  BY <1>1, <1>4, ReplyInv DEF Return
<1>5. CASE Lose(r)
  BY <1>2, <1>5, ReplyInv DEF Lose, NoEffect
<1>6. QED
  BY <1>3, <1>4, <1>5

LEMMA TimeoutInv ==
  ASSUME IInv, NEW c \in Callers, Timeout(c)
  PROVE  IInv'
<1>1. PICK r \in requests : r.id = call[c] /\ Answered(c, r, [code |-> "timeout"])
  BY DEF Timeout
<1>2. UNCHANGED <<setup, requests, txns, reversals, sent, crashes>>
  BY DEF Timeout
<1>3. [code |-> "timeout"] \in Outcome
  BY DEF Outcome, ErrorCode
<1>4. /\ answers' = answers \cup {[id |-> r.id, ask |-> r.ask, outcome |-> [code |-> "timeout"]]}
      /\ call' = [call EXCEPT ![c] = 0]
  BY <1>1 DEF Answered
<1>5. call' \in [Callers -> 0..sent]
  BY <1>4 DEF IInv, TypeOK
<1>6. \A d \in Callers : call'[d] # 0 => \E q \in requests' : q.id = call'[d] /\ q.by = d
  BY <1>2, <1>4 DEF IInv, TypeOK
<1>7. QED
  BY <1>2, <1>3, <1>4, <1>5, <1>6, AnswerStep DEF IInv, TypeOK

LEMMA CrashInv ==
  ASSUME IInv, Crash
  PROVE  IInv'
<1>1. [code |-> "network"] \in Outcome
  BY DEF Outcome, ErrorCode
<1>2. crashes' \in 0..MaxCrashes /\ requests' = {} /\ call' \in [Callers -> 0..sent]
  BY BoundsAssumption DEF Crash, IInv, TypeOK
<1>3. \A c \in Callers : call'[c] = 0
  BY DEF Crash
<1>4. QED
  BY <1>1, <1>2, <1>3, AnswerStep DEF Crash

-----------------------------------------------------------------------------
(* Carrying out.                                                           *)

(* A request is carried out and answers for the book it leaves.            *)
LEMMA MoveInv ==
  ASSUME IInv, NEW r \in requests, r.stage = "sent", NEW reply,
         reply \in {NotFound, Reversed} \cup Found,
         Move(r, "done", reply), UNCHANGED <<setup, call, answers, sent, crashes>>,
         txns' \in [Accounts -> Txn \cup {NoTxn}], reversals' \subseteq Accounts,
         \A k \in Accounts : Booked(k) => txns'[k] = txns[k],
         \A k \in Accounts : ~Booked(k) /\ Booked(k)' => txns'[k].id = r.id,
         \A j, k \in Accounts :
           ~Booked(j) /\ Booked(j)' /\ ~Booked(k) /\ Booked(k)' => j = k,
         Answers(r.ask, reply)'
  PROVE  IInv'
<1> DEFINE done == [r EXCEPT !.stage = "done", !.reply = reply]
<1>1. RequestOk(r) /\ r \in Request /\ r.id \in 1..sent /\ sent \in Nat
  BY DEF IInv, RequestInv, RequestOk, TypeOK, Request, Ids
<1>2. /\ requests' = (requests \ {r}) \cup {done}
      /\ done \in Request /\ done.id = r.id /\ done.by = r.by /\ done.ask = r.ask
      /\ done.stage = "done" /\ done.reply = reply
  BY <1>1 DEF Move, Request
<1> HIDE DEF done
<1>3. BookGrows
  BY <1>1 DEF BookGrows, RequestOk
<1>4. TxnInv'
  <2>1. ASSUME NEW k \in Accounts, Booked(k)' PROVE txns'[k].id <= sent'
    BY <1>1, <2>1 DEF IInv, TxnInv
  <2>2. ASSUME NEW j \in Accounts, NEW k \in Accounts, Booked(j)', Booked(k)',
               txns'[j].id = txns'[k].id
        PROVE  j = k
    BY <1>3, <2>2 DEF IInv, TxnInv, BookGrows
  <2>3. QED
    BY <2>1, <2>2 DEF TxnInv
<1>5. ASSUME NEW q \in Request, q.ask.op = "query",
             \E k \in Accounts : Booked(k) /\ txns[k].id = q.ask.txn
      PROVE  (\E k \in Accounts : Booked(k) /\ txns[k].id = q.ask.txn)'
  BY <1>5 DEF Booked
<1>6. ASSUME NEW q \in requests, q # r PROVE RequestOk(q)'
  <2>1. RequestOk(q) /\ q \in Request /\ q.ask \in Ask /\ q.id # r.id
    BY <1>6 DEF IInv, RequestInv, RequestOk, Request
  <2>2. q.stage = "sent" => \A k \in Accounts : Booked(k)' => txns'[k].id # q.id
    BY <2>1 DEF RequestOk
  <2>3. q.stage = "done" => Answers(q.ask, q.reply)'
    BY <1>3, <2>1, AnswerStable DEF RequestOk
  <2>4. QED
    BY <1>5, <2>1, <2>2, <2>3 DEF RequestOk
<1>7. RequestOk(done)'
  BY <1>1, <1>2, <1>5 DEF RequestOk
<1>8. RequestInv'
  BY <1>2, <1>6, <1>7 DEF IInv, RequestInv
<1>9. AnswerInv'
  BY <1>1, <1>2, <1>3, AnswersStay
<1>10. TypeOK'
  BY <1>2 DEF IInv, TypeOK
<1>11. QED
  BY <1>4, <1>8, <1>9, <1>10 DEF IInv

LEMMA DoSubmitInv ==
  ASSUME IInv, NEW r \in requests, DoSubmit(r)
  PROVE  IInv'
<1> DEFINE a == r.ask.account
           new == [id |-> r.id, status |-> r.ask.want]
<1>1. /\ r.stage = "sent" /\ r.ask.op = "submit" /\ r.ask \in Ask /\ r.id \in Ids
      /\ a \in Accounts /\ new \in Txn /\ new # NoTxn
  BY AskType, NoTxnAssumption DEF DoSubmit, Ready, IInv, TypeOK, Request, Txn
<1>2. txns \in [Accounts -> Txn \cup {NoTxn}]
  BY DEF IInv, TypeOK
<1>3. txns' = [txns EXCEPT ![a] = IF txns[a] = NoTxn THEN new ELSE txns[a]]
  BY DEF DoSubmit, InsertTxn
<1>4. new.id = r.id
  OBVIOUS
<1> HIDE DEF new
<1>5. /\ txns' \in [Accounts -> Txn \cup {NoTxn}]
      /\ txns'[a] \in Txn /\ Booked(a)'
      /\ \A k \in Accounts : k # a => txns'[k] = txns[k]
      /\ Booked(a) => txns'[a] = txns[a]
      /\ ~Booked(a) => txns'[a] = new
  BY <1>1, <1>2, <1>3, NoTxnAssumption DEF Booked
<1>6. PICK reply : reply = [code |-> "ok", txn |-> txns'[a]]
  OBVIOUS
<1>7. reply \in Found /\ reply.code = "ok" /\ reply.txn = txns'[a]
  BY <1>5, <1>6 DEF Found
<1>8. Answers(r.ask, reply)'
  BY <1>1, <1>5, <1>7 DEF Answers
<1>9. /\ Move(r, "done", reply) /\ UNCHANGED <<setup, call, reversals, answers, sent, crashes>>
      /\ reversals' \subseteq Accounts
  BY <1>6 DEF DoSubmit, IInv, TypeOK
<1>10. /\ \A k \in Accounts : Booked(k) => txns'[k] = txns[k]
       /\ \A k \in Accounts : ~Booked(k) /\ Booked(k)' => k = a /\ txns'[k].id = r.id
  BY <1>4, <1>5 DEF Booked
<1>11. QED
  BY <1>1, <1>5, <1>7, <1>8, <1>9, <1>10, MoveInv

LEMMA DoOthersInv ==
  ASSUME IInv, NEW r \in requests, DoQuery(r) \/ DoCompensate(r)
  PROVE  IInv'
<1>1. /\ r.stage = "sent" /\ RequestOk(r) /\ r.ask \in Ask
      /\ UNCHANGED <<setup, call, txns, answers, sent, crashes>>
      /\ txns \in [Accounts -> Txn \cup {NoTxn}]
  BY DEF DoQuery, DoCompensate, Ready, IInv, RequestInv, TypeOK, Request
<1>2. reversals' \subseteq Accounts
  BY <1>1, AskType DEF DoQuery, DoCompensate, IInv, TypeOK
<1>3. PICK reply \in {NotFound, Reversed} \cup Found :
        Move(r, "done", reply) /\ Answers(r.ask, reply)
  <2>1. CASE DoCompensate(r)
    BY <2>1 DEF DoCompensate, Reversed, Answers
  <2>2. CASE /\ r.ask.op = "query" /\ OfTenant(r.ask.tenant, r.ask.txn) = {}
             /\ Move(r, "done", NotFound)
    BY <1>1, <2>2 DEF OfTenant, Answers, RequestOk, NotFound, Booked
  <2>3. CASE /\ r.ask.op = "query"
             /\ \E a \in OfTenant(r.ask.tenant, r.ask.txn) :
                  Move(r, "done", [code |-> "ok", txn |-> txns[a]])
    <3>1. PICK a \in Accounts :
            /\ a[1] = r.ask.tenant /\ Booked(a)
            /\ Move(r, "done", [code |-> "ok", txn |-> txns[a]])
      BY <2>3 DEF OfTenant, Booked
    <3>2. txns[a] \in Txn
      BY <1>1, <3>1 DEF Booked
    <3>3. PICK reply : reply = [code |-> "ok", txn |-> txns[a]]
      OBVIOUS
    <3>4. reply \in Found /\ reply.code = "ok" /\ reply.txn = txns[a]
      BY <3>2, <3>3 DEF Found
    <3>5. Answers(r.ask, reply)
      BY <2>3, <3>1, <3>4 DEF Answers
    <3>6. QED
      BY <3>1, <3>3, <3>4, <3>5
  <2>4. QED
    BY <2>1, <2>2, <2>3 DEF DoQuery
<1>4. Answers(r.ask, reply)'
  BY <1>1, <1>3 DEF Answers, Booked
<1>5. QED
  BY <1>1, <1>2, <1>3, <1>4, MoveInv DEF Booked

-----------------------------------------------------------------------------
LEMMA InitInv == Init => IInv
<1> SUFFICES ASSUME Init PROVE IInv
  OBVIOUS
<1>1. TypeOK
  BY SetupsAssumption, BoundsAssumption DEF Init, TypeOK
<1>2. TxnInv /\ RequestInv /\ AnswerInv
  BY DEF Init, TxnInv, RequestInv, AnswerInv, Booked
<1>3. QED
  BY <1>1, <1>2 DEF IInv

LEMMA NextInv == IInv /\ [Next]_vars => IInv'
<1> SUFFICES ASSUME IInv, [Next]_vars PROVE IInv'
  OBVIOUS
<1>1. CASE UNCHANGED vars
  BY <1>1 DEF vars, IInv, TypeOK, TxnInv, RequestInv, RequestOk, AnswerInv, AnswerOk,
     Answers, Booked
<1>2. CASE Next
  BY <1>2, CallsInv, TimeoutInv, RepliesInv, DoSubmitInv, DoOthersInv, CrashInv DEF Next
<1>3. QED
  BY <1>1, <1>2

LEMMA InvAlways == Spec => []IInv
BY InitInv, NextInv, PTL DEF Spec

-----------------------------------------------------------------------------
(* Who was answered with a 4xx or 5xx knows that nothing was done and that *)
(* nothing will be, whatever times out, crashes or is submitted beside it. *)
THEOREM RefusalsDoNothing == Spec => []RefusedNoEffect
<1>1. IInv => RefusedNoEffect
  BY DEF IInv, AnswerInv, AnswerOk, RefusedNoEffect, Booked
<1>2. QED
  BY <1>1, InvAlways, PTL

(* Only a question under a wrong tenant is answered with "not found".      *)
THEOREM NotFoundMeansForeign == Spec => []NotFoundIsForeign
<1>1. IInv => NotFoundIsForeign
  <2> SUFFICES ASSUME IInv, NEW a \in answers, a.outcome = NotFound, NEW k \in Accounts,
                      txns[k] # NoTxn, txns[k].id = a.ask.txn
               PROVE  k[1] # a.ask.tenant
    BY DEF NotFoundIsForeign
  <2>1. a.outcome.code = "not_found" /\ AnswerOk(a)
    BY DEF NotFound, IInv, AnswerInv
  <2>2. QED
    BY <2>1 DEF AnswerOk, Answers, Booked
<1>2. QED
  BY <1>1, InvAlways, PTL
-----------------------------------------------------------------------------
(* The refinement: what the book and the answers together say.             *)
Oks(ans) == {a \in ans : a.outcome.code = "ok"}

(* The account an answer is about is in the book, with what was told.      *)
LEMMA AccountSound ==
  ASSUME IInv, NEW a \in Oks(answers)
  PROVE  /\ AccountOf(a) \in Accounts /\ a.outcome.txn \in Txn
         /\ txns[AccountOf(a)] = a.outcome.txn /\ Booked(AccountOf(a))
<1>1. a \in answers /\ a.outcome.code = "ok" /\ AnswerOk(a)
  BY DEF Oks, IInv, AnswerInv
<1>2. a.ask \in Ask /\ a.outcome.txn \in Txn /\ Answers(a.ask, a.outcome)
  BY <1>1, OutcomeType DEF AnswerOk
<1>3. CASE a.ask.op = "submit"
  BY <1>1, <1>2, <1>3, AskType DEF Answers, AccountOf
<1>4. CASE a.ask.op = "query"
  <2>1. \E k \in Accounts : k[1] = a.ask.tenant /\ txns[k] = a.outcome.txn
    BY <1>1, <1>2, <1>4 DEF Answers
  <2>2. AccountOf(a) \in Accounts /\ txns[AccountOf(a)] = a.outcome.txn
    BY <1>4, <2>1 DEF AccountOf
  <2>3. QED
    BY <1>2, <2>2, NoTxnAssumption DEF Booked
<1>5. QED
  BY <1>1, <1>2, <1>3, <1>4 DEF Answers

LEMMA AccountStays ==
  ASSUME IInv, IInv', NEW a \in Oks(answers), a \in Oks(answers'),
         \A k \in Accounts : Booked(k) => txns'[k] = txns[k]
  PROVE  AccountOf(a)' = AccountOf(a)
<1>1. /\ AccountOf(a) \in Accounts /\ a.outcome.txn \in Txn
      /\ txns[AccountOf(a)] = a.outcome.txn /\ Booked(AccountOf(a))
  BY AccountSound
<1>2. AccountOf(a)' \in Accounts /\ txns'[AccountOf(a)'] = a.outcome.txn
  <2>1. AnswerOk(a)' /\ a.outcome.code = "ok"
    BY DEF Oks, IInv, AnswerInv
  <2>2. a.ask \in Ask /\ Answers(a.ask, a.outcome)'
    BY <2>1 DEF AnswerOk
  <2>3. CASE a.ask.op = "submit"
    BY <2>1, <2>2, <2>3, AskType DEF Answers, AccountOf
  <2>4. CASE a.ask.op = "query"
    <3>1. \E k \in Accounts : k[1] = a.ask.tenant /\ txns'[k] = a.outcome.txn
      BY <2>1, <2>2, <2>4 DEF Answers
    <3>2. QED
      BY <2>4, <3>1 DEF AccountOf
  <2>5. QED
    BY <2>1, <2>2, <2>3, <2>4 DEF Answers
<1>3. txns'[AccountOf(a)] = a.outcome.txn
  BY <1>1
<1>4. \A j, k \in Accounts : txns'[j] \in Txn /\ txns'[j] = txns'[k] => j = k
  BY NoTxnAssumption DEF IInv, TxnInv, Booked
<1>5. QED
  BY <1>1, <1>2, <1>3, <1>4

LEMMA ToldStays ==
  ASSUME IInv, IInv', Oks(answers') = Oks(answers),
         \A k \in Accounts : Booked(k) => txns'[k] = txns[k]
  PROVE  Told' = Told
<1>1. \A a \in Oks(answers) : AccountOf(a)' = AccountOf(a)
  BY AccountStays
<1>2. Told = {[account |-> AccountOf(a), txn |-> a.outcome.txn] : a \in Oks(answers)}
  BY DEF Told, Oks
<1>3. Told' = {[account |-> AccountOf(a)', txn |-> a.outcome.txn] : a \in Oks(answers')}
  BY DEF Told, Oks
<1>4. QED
  BY <1>1, <1>2, <1>3

LEMMA ContractInitial == Init => Contract!ContractInit
BY DEF Init, Contract!ContractInit, Told

LEMMA SubmitPays ==
  ASSUME IInv, IInv', NEW r \in requests, DoSubmit(r)
  PROVE  [Contract!ContractNext]_Contract!contractVars
<1> DEFINE a == r.ask.account
           new == [id |-> r.id, status |-> r.ask.want]
<1>1. a \in Accounts /\ new \in Txn
  BY AskType DEF DoSubmit, Ready, IInv, TypeOK, Request, Txn
<1>2. txns \in [Accounts -> Txn \cup {NoTxn}]
  BY DEF IInv, TypeOK
<1>3. txns' = [txns EXCEPT ![a] = IF txns[a] = NoTxn THEN new ELSE txns[a]]
  BY DEF DoSubmit, InsertTxn
<1> HIDE DEF new
<1>4. answers' = answers /\ reversals' = reversals
  BY DEF DoSubmit
<1>5. \A k \in Accounts : Booked(k) => txns'[k] = txns[k]
  BY <1>1, <1>2, <1>3 DEF Booked
<1>6. Told' = Told
  BY <1>4, <1>5, ToldStays
<1>7. CASE txns[a] = NoTxn
  <2>1. Contract!Pay(a)
    BY <1>1, <1>3, <1>4, <1>6, <1>7 DEF Contract!Pay, Contract!Entry, Txn
  <2>2. QED
    BY <1>1, <2>1 DEF Contract!ContractNext
<1>8. CASE txns[a] # NoTxn
  <2>1. txns' = txns
    BY <1>1, <1>2, <1>3, <1>8
  <2>2. QED
    BY <1>4, <1>6, <2>1 DEF Contract!contractVars
<1>9. QED
  BY <1>7, <1>8

LEMMA CompensateUndoes ==
  ASSUME IInv, IInv', NEW r \in requests, DoCompensate(r)
  PROVE  [Contract!ContractNext]_Contract!contractVars
<1>1. r.ask.account \in Accounts
  BY AskType DEF DoCompensate, IInv, TypeOK, Request
<1>2. txns' = txns /\ answers' = answers /\ reversals' = reversals \cup {r.ask.account}
  BY DEF DoCompensate
<1>3. Told' = Told
  BY <1>2, ToldStays
<1>4. Contract!Undo(r.ask.account)
  BY <1>2, <1>3 DEF Contract!Undo
<1>5. QED
  BY <1>1, <1>4 DEF Contract!ContractNext

LEMMA QuietStutters ==
  ASSUME IInv, IInv', UNCHANGED <<txns, reversals>>, Oks(answers') = Oks(answers)
  PROVE  [Contract!ContractNext]_Contract!contractVars
<1>1. Told' = Told
  BY ToldStays
<1>2. QED
  BY <1>1 DEF Contract!contractVars

(* An answer to a caller that waits tells it, or is no answer.             *)
LEMMA ReplyTells ==
  ASSUME IInv, IInv', NEW r \in requests, NEW out, Reply(r, out), UNCHANGED <<txns, reversals>>
  PROVE  [Contract!ContractNext]_Contract!contractVars
<1>1. PICK x : x = [id |-> r.id, ask |-> r.ask, outcome |-> out]
  OBVIOUS
<1>2. x.outcome = out
  BY <1>1
<1>3. CASE ~Waits(r)
  BY <1>3, QuietStutters DEF Reply
<1>4. CASE Waits(r) /\ out.code # "ok"
  <2>1. answers' = answers \cup {x}
    BY <1>1, <1>4 DEF Reply, Answered
  <2>2. Oks(answers') = Oks(answers)
    BY <1>2, <1>4, <2>1 DEF Oks
  <2>3. QED
    BY <2>2, QuietStutters
<1>5. CASE Waits(r) /\ out.code = "ok"
  <2>1. answers' = answers \cup {x}
    BY <1>1, <1>5 DEF Reply, Answered
  <2>2. Oks(answers') = Oks(answers) \cup {x}
    BY <1>2, <1>5, <2>1 DEF Oks
  <2>3. \A a : AccountOf(a)' = AccountOf(a)
    BY DEF AccountOf
  <2>4. AccountOf(x) \in Accounts /\ txns[AccountOf(x)] = out.txn /\ Booked(AccountOf(x))
    <3>1. AnswerOk(x)' /\ x.outcome.code = "ok"
      BY <1>2, <1>5, <2>1 DEF IInv, AnswerInv
    <3>2. x.ask \in Ask /\ Answers(x.ask, x.outcome) /\ x.outcome.txn \in Txn
      BY <3>1, OutcomeType DEF AnswerOk, Answers, Booked
    <3>3. CASE x.ask.op = "submit"
      BY <1>2, <3>1, <3>2, <3>3, AskType DEF Answers, AccountOf
    <3>4. CASE x.ask.op = "query"
      <4>1. \E k \in Accounts : k[1] = x.ask.tenant /\ txns[k] = x.outcome.txn
        BY <3>1, <3>2, <3>4 DEF Answers
      <4>2. AccountOf(x) \in Accounts /\ txns[AccountOf(x)] = x.outcome.txn
        BY <3>4, <4>1 DEF AccountOf
      <4>3. QED
        BY <1>2, <3>2, <4>2, NoTxnAssumption DEF Booked
    <3>5. QED
      BY <3>1, <3>2, <3>3, <3>4 DEF Answers
  <2>5. Told = {[account |-> AccountOf(a), txn |-> a.outcome.txn] : a \in Oks(answers)}
    BY DEF Told, Oks
  <2>6. Told' = {[account |-> AccountOf(a)', txn |-> a.outcome.txn] : a \in Oks(answers')}
    BY DEF Told, Oks
  <2>7. Told' = Told \cup {[account |-> AccountOf(x), txn |-> txns[AccountOf(x)]]}
    BY <1>2, <2>2, <2>3, <2>4, <2>5, <2>6
  <2>8. Contract!Tell(AccountOf(x))
    BY <2>4, <2>7 DEF Contract!Tell, Booked
  <2>9. QED
    BY <2>4, <2>8 DEF Contract!ContractNext
<1>6. QED
  BY <1>3, <1>4, <1>5

LEMMA StepImplements ==
  IInv /\ IInv' /\ [Next]_vars => [Contract!ContractNext]_Contract!contractVars
<1> SUFFICES ASSUME IInv, IInv', [Next]_vars
             PROVE  [Contract!ContractNext]_Contract!contractVars
  OBVIOUS
<1>1. CASE UNCHANGED vars
  BY <1>1, QuietStutters DEF vars
<1>2. ASSUME NEW c \in Callers, Submit(c) \/ Query(c) \/ Compensate(c)
      PROVE  [Contract!ContractNext]_Contract!contractVars
  BY <1>2, QuietStutters DEF Submit, Query, Compensate, Send
<1>3. ASSUME NEW c \in Callers, Timeout(c)
      PROVE  [Contract!ContractNext]_Contract!contractVars
  <2>1. PICK r \in requests : Answered(c, r, [code |-> "timeout"])
    BY <1>3 DEF Timeout
  <2>2. Oks(answers') = Oks(answers)
    BY <2>1 DEF Answered, Oks
  <2>3. QED
    BY <1>3, <2>2, QuietStutters DEF Timeout
<1>4. ASSUME NEW r \in requests, Refuse(r) \/ Return(r) \/ Lose(r)
      PROVE  [Contract!ContractNext]_Contract!contractVars
  <2>1. PICK out : Reply(r, out)
    BY <1>4 DEF Refuse, Return, Lose
  <2>2. UNCHANGED <<txns, reversals>>
    BY <1>4 DEF Refuse, Return, Lose
  <2>3. QED
    BY <2>1, <2>2, ReplyTells
<1>5. ASSUME NEW r \in requests, DoQuery(r)
      PROVE  [Contract!ContractNext]_Contract!contractVars
  BY <1>5, QuietStutters DEF DoQuery
<1>6. CASE Crash
  <2>1. Oks(answers') = Oks(answers)
    BY <1>6 DEF Crash, Oks
  <2>2. QED
    BY <1>6, <2>1, QuietStutters DEF Crash
<1>7. QED
  BY <1>1, <1>2, <1>3, <1>4, <1>5, <1>6, SubmitPays, CompensateUndoes DEF Next

(* Per tenant and idempotency key the gateway makes one transaction, for   *)
(* good, and tells of no other: sandbox_gateway.py and the HTTP provider   *)
(* together keep what FundsProvider promises the engine.                   *)
THEOREM Implements == Spec => ImplementsContract
<1>1. Init => Contract!ContractInit
  BY ContractInitial
<1>2. IInv /\ IInv' /\ [Next]_vars => [Contract!ContractNext]_Contract!contractVars
  BY StepImplements
<1>3. QED
  BY <1>1, <1>2, InvAlways, PTL DEF Spec, ImplementsContract, Contract!ContractSpec
=============================================================================
