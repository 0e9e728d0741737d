--------------------------- MODULE MockApiProofs ---------------------------
(***************************************************************************)
(* MockApi, for any users, requests and calls in flight: types,             *)
(* StatusIsLastEvent, ColumnsAgree and MovesOfLifecycle; for one call at a  *)
(* time also TerminalStable and the life of a request with nothing          *)
(* overtaken.                                                               *)
(***************************************************************************)
EXTENDS MockApi, TLAPS

RequestOps == SyncOps \cup AwaitOps

(* The copy a suspended handler will save was fit for its operation when    *)
(* it was taken, and stays so because nobody changes it.                    *)
CopiesFit ==
  \A c \in Slots : calls[c].pc = "body" /\ calls[c].op \in AwaitOps =>
    /\ Exists(calls[c].target)
    /\ Agrees(calls[c].read)
    /\ StatusAllows(calls[c].op, calls[c].read.status)

MockInv == TypeOK /\ CopiesFit /\ StatusIsLastEvent /\ ColumnsAgree

-----------------------------------------------------------------------------
(* Shapes.                                                                  *)

LEMMA Shapes ==
  ASSUME NEW x \in CallRecords
  PROVE  /\ x.pc = "sent" =>
              /\ x.op \in RequestOps \cup OtherOps
              /\ x.op \in RequestOps => x.target \in Requests
              /\ x.op \in OtherOps => x.target = Nobody
         /\ x.pc = "body" =>
              /\ x.op \in AwaitOps \cup {"session"}
              /\ x.op \in AwaitOps => x.target \in Requests /\ x.read \in Row
              /\ x.op = "session" => x.target = Nobody
  BY DEF CallRecords, Idle, RequestOps, SyncOps, AwaitOps, OtherOps

LEMMA NewShapes ==
  /\ Idle \in CallRecords
  /\ \A op \in RequestOps, r \in Requests :
       [pc |-> "sent", op |-> op, target |-> r] \in CallRecords
  /\ \A op \in OtherOps : [pc |-> "sent", op |-> op, target |-> Nobody] \in CallRecords
  /\ \A op \in AwaitOps, r \in Requests, m \in Row :
       [pc |-> "body", op |-> op, target |-> r, read |-> m] \in CallRecords
  /\ [pc |-> "body", op |-> "session", target |-> Nobody] \in CallRecords
  /\ \A op \in RequestOps \cup OtherOps, r \in Requests \cup {Nobody}, ok \in BOOLEAN :
       [pc |-> "answered", op |-> op, target |-> r, ok |-> ok] \in CallRecords
  BY DEF CallRecords, RequestOps

LEMMA AnsweredShape ==
  ASSUME NEW c \in Slots, calls[c] \in CallRecords, calls[c].pc \in {"sent", "body"},
         NEW ok \in BOOLEAN
  PROVE  /\ Answered(c, ok) \in CallRecords
         /\ Answered(c, ok).pc = "answered"
         /\ \A r \in Requests :
              /\ [Answered(c, ok) EXCEPT !.target = r] \in CallRecords
              /\ [Answered(c, ok) EXCEPT !.target = r].pc = "answered"
<1>1. /\ calls[c].op \in RequestOps \cup OtherOps
      /\ calls[c].target \in Requests \cup {Nobody}
  BY Shapes DEF RequestOps, SyncOps, AwaitOps, OtherOps
<1>2. \A r : [Answered(c, ok) EXCEPT !.target = r]
               = [pc |-> "answered", op |-> calls[c].op, target |-> r, ok |-> ok]
  BY DEF Answered
<1> QED
  BY <1>1, <1>2, NewShapes DEF Answered

LEMMA BecomeType ==
  ASSUME NEW c \in Slots, NEW x \in CallRecords,
         calls \in [Slots -> CallRecords], Become(c, x)
  PROVE  /\ calls' \in [Slots -> CallRecords]
         /\ calls'[c] = x
         /\ \A d \in Slots : d # c => calls'[d] = calls[d]
  BY DEF Become

LEMMA TerminalSet == Terminal = {"cancelled", "closed"}
  BY DEF Terminal, Statuses, AdminMoves, InitiatorMoves

-----------------------------------------------------------------------------
(* What an operation saves.                                                 *)

LEMMA EditedFits ==
  ASSUME NEW op \in RequestOps, NEW m \in Row, NEW u \in Users,
         Agrees(m), StatusAllows(op, m.status)
  PROVE  /\ Edited(op, m, u) \in Row
         /\ Agrees(Edited(op, m, u))
         /\ Edited(op, m, u).status = TargetStatus[op]
         /\ EventOf[op] \in EventTypes
         /\ ResultOf[EventOf[op]] = TargetStatus[op]
<1> DEFINE e == Edited(op, m, u)
<1>1. op \in {"cancel", "close", "answer", "approve", "reject", "clarify"}
  BY DEF RequestOps, SyncOps, AwaitOps
<1>2. /\ EventOf[op] \in EventTypes
      /\ ResultOf[EventOf[op]] = TargetStatus[op]
      /\ TargetStatus[op] \in Statuses
  BY <1>1 DEF EventOf, ResultOf, TargetStatus, EventTypes, Statuses
<1>3. /\ e.status = TargetStatus[op]
      /\ e.decidedBy = IF op \in {"approve", "reject"} THEN u ELSE m.decidedBy
      /\ e.reason = IF op \in {"approve", "reject"} THEN op = "reject" ELSE m.reason
      /\ e.question = IF op = "clarify" THEN TRUE ELSE m.question
      /\ e.answer = IF op = "answer" THEN TRUE ELSE m.answer
  BY DEF Edited, Row
<1>4. e \in Row
  BY <1>2 DEF Edited, Row
<1>5. u # Nobody
  BY MockAssumption DEF MockAssumption
<1>6. Agrees(e)
  <2> USE DEF Agrees
  <2>1. CASE op = "cancel"
    BY <1>3, <2>1 DEF TargetStatus, StatusAllows, Row, Statuses
  <2>2. CASE op = "close"
    BY <1>3, <2>2 DEF TargetStatus, StatusAllows, Row, Statuses
  <2>3. CASE op = "answer"
    BY <1>3, <2>3 DEF TargetStatus, StatusAllows, Row, Statuses
  <2>4. CASE op = "approve"
    BY <1>3, <1>5, <2>4 DEF TargetStatus, StatusAllows, Row, Statuses
  <2>5. CASE op = "reject"
    BY <1>3, <1>5, <2>5 DEF TargetStatus, StatusAllows, Row, Statuses
  <2>6. CASE op = "clarify"
    BY <1>3, <2>6 DEF TargetStatus, StatusAllows, Row, Statuses
  <2> QED
    BY <1>1, <2>1, <2>2, <2>3, <2>4, <2>5, <2>6
<1> QED
  BY <1>2, <1>3, <1>4, <1>6

-----------------------------------------------------------------------------
(* The invariant.                                                           *)

LEMMA InitInv == Init => MockInv
<1> SUFFICES ASSUME Init PROVE MockInv
  OBVIOUS
<1>1. TypeOK
  <2>1. user \in Users /\ role \in Roles /\ accepted \in BOOLEAN
    BY MockAssumption, Zenon DEF Init, MockAssumption
  <2>2. rows \in [Requests -> Row \cup {Absent}]
    BY DEF Init
  <2>3. audit \in [Requests -> Seq(EventTypes)] /\ lastNumber \in Nat
    BY DEF Init, BaseValue
  <2>4. calls \in [Slots -> CallRecords]
    BY NewShapes DEF Init
  <2> QED
    BY <2>1, <2>2, <2>3, <2>4 DEF TypeOK
<1>2. \A r \in Requests : ~ Exists(r)
  BY DEF Init, Exists
<1>3. \A c \in Slots : calls[c].pc = "idle"
  BY DEF Init, Idle
<1> QED
  BY <1>1, <1>2, <1>3 DEF MockInv, CopiesFit, StatusIsLastEvent, ColumnsAgree

(* The call of one slot goes on, and nothing else changes but perhaps the   *)
(* user or the consent.                                                     *)
LEMMA QuietStep ==
  ASSUME MockInv, NEW c \in Slots, NEW x \in CallRecords, Become(c, x),
         x.pc = "body" /\ x.op \in AwaitOps =>
           Exists(x.target) /\ Agrees(x.read) /\ StatusAllows(x.op, x.read.status),
         user' \in Users, accepted' \in BOOLEAN,
         UNCHANGED <<role, rows, audit, lastNumber>>
  PROVE  MockInv'
<1>1. /\ calls' \in [Slots -> CallRecords]
      /\ calls'[c] = x
      /\ \A d \in Slots : d # c => calls'[d] = calls[d]
  BY BecomeType DEF MockInv, TypeOK
<1>2. TypeOK'
  BY <1>1 DEF MockInv, TypeOK
<1>3. CopiesFit'
  BY <1>1 DEF MockInv, CopiesFit, Exists
<1>4. StatusIsLastEvent' /\ ColumnsAgree'
  BY DEF MockInv, StatusIsLastEvent, ColumnsAgree, Exists
<1> QED
  BY <1>2, <1>3, <1>4 DEF MockInv

(* A fit copy is saved with its event.                                      *)
LEMMA SaveStep ==
  ASSUME MockInv, NEW c \in Slots, NEW x \in CallRecords, Become(c, x),
         x.pc = "answered", NEW r \in Requests, NEW op \in RequestOps, NEW m \in Row,
         Agrees(m), StatusAllows(op, m.status), Save(r, op, m)
  PROVE  MockInv'
<1>1. /\ calls' \in [Slots -> CallRecords]
      /\ calls'[c] = x
      /\ \A d \in Slots : d # c => calls'[d] = calls[d]
  BY BecomeType DEF MockInv, TypeOK
<1> DEFINE e == Edited(op, m, user)
<1>2. /\ e \in Row
      /\ Agrees(e)
      /\ e.status = TargetStatus[op]
      /\ EventOf[op] \in EventTypes
      /\ ResultOf[EventOf[op]] = TargetStatus[op]
  BY EditedFits DEF MockInv, TypeOK
<1>3. /\ rows' \in [Requests -> Row \cup {Absent}]
      /\ rows'[r] = e
      /\ \A q \in Requests : q # r => rows'[q] = rows[q]
  BY <1>2 DEF Save, MockInv, TypeOK
<1>4. e # Absent
  <2>1. "absent" \notin Statuses
    BY DEF Statuses
  <2> QED
    BY <1>2, <2>1 DEF Absent, Row
<1>5. /\ audit' \in [Requests -> Seq(EventTypes)]
      /\ audit'[r] = Append(audit[r], EventOf[op])
      /\ \A q \in Requests : q # r => audit'[q] = audit[q]
  BY <1>2 DEF Save, MockInv, TypeOK
<1>6. /\ audit'[r] # << >>
      /\ audit'[r][Len(audit'[r])] = EventOf[op]
  <2>1. audit[r] \in Seq(EventTypes)
    BY DEF MockInv, TypeOK
  <2>2. \A q \in Seq(EventTypes), e1 \in EventTypes :
          Append(q, e1) # << >> /\ Append(q, e1)[Len(Append(q, e1))] = e1
    OBVIOUS
  <2> QED
    BY <1>2, <1>5, <2>1, <2>2
<1>7. TypeOK'
  BY <1>1, <1>3, <1>5 DEF Save, MockInv, TypeOK
<1>8. \A q \in Requests : Exists(q) => Exists(q)'
  BY <1>3, <1>4 DEF Exists
<1>9. CopiesFit'
  <2> SUFFICES ASSUME NEW d \in Slots, calls'[d].pc = "body", calls'[d].op \in AwaitOps
               PROVE  /\ Exists(calls[d].target)'
                      /\ Agrees(calls'[d].read)
                      /\ StatusAllows(calls'[d].op, calls'[d].read.status)
    BY DEF CopiesFit
  <2>1. d # c /\ calls'[d] = calls[d]
    BY <1>1
  <2>2. calls[d].target \in Requests
    BY <2>1, Shapes DEF MockInv, TypeOK
  <2> QED
    BY <1>8, <2>1, <2>2 DEF MockInv, CopiesFit
<1>10. StatusIsLastEvent'
  <2> SUFFICES ASSUME NEW q \in Requests, Exists(q)'
               PROVE  /\ audit'[q] # << >>
                      /\ rows'[q].status = ResultOf[audit'[q][Len(audit'[q])]]
    BY DEF StatusIsLastEvent
  <2>1. CASE q = r
    BY <1>2, <1>3, <1>6, <2>1
  <2>2. CASE q # r
    BY <1>3, <1>5, <2>2 DEF MockInv, StatusIsLastEvent, Exists
  <2> QED
    BY <2>1, <2>2
<1>11. ColumnsAgree'
  BY <1>2, <1>3 DEF MockInv, ColumnsAgree, Exists
<1> QED
  BY <1>7, <1>9, <1>10, <1>11 DEF MockInv

(* New rows appear with their trails.                                       *)
LEMMA NewRows ==
  ASSUME MockInv, NEW c \in Slots, NEW x \in CallRecords, Become(c, x),
         x.pc = "body" => x.op \notin AwaitOps,
         NEW new \in SUBSET Requests,
         rows' \in [Requests -> Row \cup {Absent}],
         audit' \in [Requests -> Seq(EventTypes)],
         \A q \in Requests \ new : rows'[q] = rows[q] /\ audit'[q] = audit[q],
         \A q \in new : /\ rows'[q] \in Row
                       /\ Agrees(rows'[q])
                       /\ audit'[q] # << >>
                       /\ rows'[q].status = ResultOf[audit'[q][Len(audit'[q])]],
         lastNumber' \in Nat, UNCHANGED <<user, role, accepted>>
  PROVE  MockInv'
<1>1. /\ calls' \in [Slots -> CallRecords]
      /\ calls'[c] = x
      /\ \A d \in Slots : d # c => calls'[d] = calls[d]
  BY BecomeType DEF MockInv, TypeOK
<1>2. TypeOK'
  BY <1>1 DEF MockInv, TypeOK
<1>3. \A m \in Row : m # Absent
  <2>1. "absent" \notin Statuses
    BY DEF Statuses
  <2> QED
    BY <2>1 DEF Absent, Row
<1>4. \A q \in Requests : Exists(q) => Exists(q)'
  BY <1>3 DEF Exists
<1>5. CopiesFit'
  <2> SUFFICES ASSUME NEW d \in Slots, calls'[d].pc = "body", calls'[d].op \in AwaitOps
               PROVE  /\ Exists(calls[d].target)'
                      /\ Agrees(calls'[d].read)
                      /\ StatusAllows(calls'[d].op, calls'[d].read.status)
    BY DEF CopiesFit
  <2>1. d # c /\ calls'[d] = calls[d]
    BY <1>1
  <2>2. calls[d].target \in Requests
    BY <2>1, Shapes DEF MockInv, TypeOK
  <2> QED
    BY <1>4, <2>1, <2>2 DEF MockInv, CopiesFit
<1>6. StatusIsLastEvent' /\ ColumnsAgree'
  BY DEF MockInv, StatusIsLastEvent, ColumnsAgree, Exists
<1> QED
  BY <1>2, <1>5, <1>6 DEF MockInv

LEMMA NewRowFits ==
  ASSUME NEW s \in {"pending", "clarification"}, NEW u \in Users, NEW n \in Nat
  PROVE  /\ NewRow(s, u, n, s = "clarification") \in Row
         /\ Agrees(NewRow(s, u, n, s = "clarification"))
         /\ NewRow(s, u, n, s = "clarification").status = s
  BY DEF NewRow, Row, Agrees, Statuses

LEMMA StepInv ==
  ASSUME MockInv, NEW c \in Slots,
         SendAny(c) \/ Handle(c) \/ RejectBody(c) \/ TakeResponse(c)
  PROVE  MockInv'
<1> DEFINE x == calls[c]
<1>0. TypeOK /\ x \in CallRecords
  BY DEF MockInv, TypeOK
<1>1. CASE SendAny(c)
  <2>1. ASSUME NEW op \in RequestOps \cup OtherOps, NEW r,
               op \in RequestOps => r \in Requests,
               op \in OtherOps => r = Nobody, Send(c, op, r)
        PROVE  MockInv'
    <3>1. [pc |-> "sent", op |-> op, target |-> r] \in CallRecords
      BY <2>1, NewShapes
    <3> QED
      BY <1>0, <2>1, <3>1, QuietStep DEF Send, memoryUnchanged, TypeOK
  <2>2. \A op \in RequestOps : op \notin OtherOps
    BY DEF RequestOps, SyncOps, AwaitOps, OtherOps
  <2>3. ASSUME NEW op \in RequestOps, NEW r \in Existing, Send(c, op, r)
        PROVE  MockInv'
    BY <2>1, <2>2, <2>3 DEF Existing
  <2>4. ASSUME NEW op \in OtherOps, Send(c, op, Nobody)
        PROVE  MockInv'
    BY <2>1, <2>2, <2>4
  <2> QED
    BY <1>1, <2>3, <2>4 DEF SendAny, RequestOps
<1>2. CASE HandleAtOnce(c)
  <2>1. x.op \in RequestOps /\ x.target \in Requests /\ x.pc = "sent"
    BY <1>0, <1>2, Shapes DEF HandleAtOnce, RequestOps
  <2>2. CASE Allowed(x.op, x.target)
    <3>1. rows[x.target] \in Row /\ Agrees(rows[x.target])
      BY <2>1, <2>2 DEF Allowed, MockInv, TypeOK, Exists, ColumnsAgree
    <3>2. StatusAllows(x.op, rows[x.target].status)
      BY <2>2 DEF Allowed
    <3>3. Save(x.target, x.op, rows[x.target]) /\ Become(c, Answered(c, TRUE))
      BY <1>2, <2>2 DEF HandleAtOnce, Answer
    <3>4. Answered(c, TRUE) \in CallRecords /\ Answered(c, TRUE).pc = "answered"
      BY <1>0, <2>1, AnsweredShape
    <3> QED
      BY <2>1, <3>1, <3>2, <3>3, <3>4, SaveStep
  <2>3. CASE ~ Allowed(x.op, x.target)
    <3>1. memoryUnchanged /\ Become(c, Answered(c, FALSE))
      BY <1>2, <2>3 DEF HandleAtOnce, Answer
    <3>2. Answered(c, FALSE) \in CallRecords /\ Answered(c, FALSE).pc = "answered"
      BY <1>0, <2>1, AnsweredShape
    <3> QED
      BY <1>0, <3>1, <3>2, QuietStep DEF memoryUnchanged, TypeOK
  <2> QED
    BY <2>2, <2>3
<1>3. CASE Check(c)
  <2>1. x.op \in AwaitOps /\ x.target \in Requests /\ x.pc = "sent" /\ memoryUnchanged
    BY <1>0, <1>3, Shapes DEF Check, RequestOps
  <2>2. CASE Allowed(x.op, x.target)
    <3> DEFINE y == [pc |-> "body", op |-> x.op, target |-> x.target,
                     read |-> rows[x.target]]
    <3>1. Exists(x.target) /\ rows[x.target] \in Row /\ Agrees(rows[x.target])
      BY <2>1, <2>2 DEF Allowed, MockInv, TypeOK, Exists, ColumnsAgree
    <3>2. StatusAllows(x.op, rows[x.target].status)
      BY <2>2 DEF Allowed
    <3>3. y \in CallRecords /\ y.op = x.op /\ y.target = x.target
          /\ y.read = rows[x.target]
      BY <2>1, <3>1, NewShapes
    <3>4. Become(c, y)
      BY <1>3, <2>2 DEF Check
    <3> HIDE DEF y
    <3> QED
      BY <1>0, <2>1, <3>1, <3>2, <3>3, <3>4, QuietStep DEF memoryUnchanged, TypeOK
  <2>3. CASE ~ Allowed(x.op, x.target)
    <3>1. Become(c, Answered(c, FALSE))
      BY <1>3, <2>3 DEF Check, Answer
    <3>2. Answered(c, FALSE) \in CallRecords /\ Answered(c, FALSE).pc = "answered"
      BY <1>0, <2>1, AnsweredShape
    <3> QED
      BY <1>0, <2>1, <3>1, <3>2, QuietStep DEF memoryUnchanged, TypeOK
  <2> QED
    BY <2>2, <2>3
<1>4. CASE Store(c)
  <2>1. x.op \in AwaitOps /\ x.pc = "body" /\ x.target \in Requests /\ x.read \in Row
    BY <1>0, <1>4, Shapes DEF Store
  <2>2. Agrees(x.read) /\ StatusAllows(x.op, x.read.status)
    BY <2>1 DEF MockInv, CopiesFit
  <2>3. Save(x.target, x.op, x.read) /\ Become(c, Answered(c, TRUE))
    BY <1>4 DEF Store, Answer
  <2>4. Answered(c, TRUE) \in CallRecords /\ Answered(c, TRUE).pc = "answered"
    BY <1>0, <2>1, AnsweredShape
  <2> QED
    BY <2>1, <2>2, <2>3, <2>4, SaveStep DEF RequestOps
<1>5. CASE Create(c)
  <2>1. PICK r \in Requests \ Existing :
          /\ rows' = [rows EXCEPT ![r] = NewRow("pending", user, lastNumber + 1, FALSE)]
          /\ audit' = [audit EXCEPT ![r] = <<"submitted">>]
          /\ Become(c, [Answered(c, TRUE) EXCEPT !.target = r])
    BY <1>5 DEF Create
  <2>2. x.pc = "sent"
    BY <1>5 DEF Create
  <2> DEFINE y == [Answered(c, TRUE) EXCEPT !.target = r]
             n == NewRow("pending", user, lastNumber + 1, FALSE)
  <2>3. y \in CallRecords /\ y.pc = "answered"
    BY <1>0, <2>2, AnsweredShape
  <2>4. n \in Row /\ Agrees(n) /\ n.status = "pending"
    <3>1. lastNumber + 1 \in Nat /\ user \in Users
      BY <1>0 DEF TypeOK
    <3> QED
      BY <3>1, NewRowFits
  <2>5. /\ <<"submitted">> \in Seq(EventTypes)
        /\ <<"submitted">> # << >>
        /\ ResultOf[<<"submitted">>[Len(<<"submitted">>)]] = "pending"
    BY DEF EventTypes, ResultOf
  <2>6. lastNumber' \in Nat /\ UNCHANGED <<user, role, accepted>>
    BY <1>0, <1>5 DEF Create, TypeOK
  <2>7. /\ rows' \in [Requests -> Row \cup {Absent}]
        /\ audit' \in [Requests -> Seq(EventTypes)]
        /\ rows'[r] = n /\ audit'[r] = <<"submitted">>
        /\ \A q \in Requests \ {r} : rows'[q] = rows[q] /\ audit'[q] = audit[q]
    <3> HIDE DEF n
    <3> QED
      BY <1>0, <2>1, <2>4, <2>5 DEF TypeOK, n
  <2> HIDE DEF y, n
  <2>8. Become(c, y)
    BY <2>1 DEF y
  <2>9. \A q \in {r} : /\ rows'[q] \in Row
                      /\ Agrees(rows'[q])
                      /\ audit'[q] # << >>
                      /\ rows'[q].status = ResultOf[audit'[q][Len(audit'[q])]]
    BY <2>4, <2>5, <2>7
  <2>10. {r} \in SUBSET Requests /\ (y.pc = "body" => y.op \notin AwaitOps)
    BY <2>3
  <2> QED
    BY <2>3, <2>6, <2>7, <2>8, <2>9, <2>10, NewRows
<1>6. CASE AcceptConsent(c)
  <2>1. x.pc = "sent" /\ Become(c, Answered(c, TRUE)) /\ accepted' = TRUE
        /\ UNCHANGED <<user, role, rows, audit, lastNumber>>
    BY <1>6 DEF AcceptConsent, Answer
  <2>2. Answered(c, TRUE) \in CallRecords /\ Answered(c, TRUE).pc = "answered"
    BY <1>0, <2>1, AnsweredShape
  <2> QED
    BY <1>0, <2>1, <2>2, QuietStep DEF TypeOK
<1>7. CASE OpenSession(c)
  <2> DEFINE y == [pc |-> "body", op |-> "session", target |-> Nobody]
  <2>1. Become(c, y) /\ UNCHANGED <<user, role, accepted>>
    BY <1>7 DEF OpenSession
  <2>2. y \in CallRecords /\ y.op \notin AwaitOps
    BY NewShapes DEF AwaitOps
  <2> HIDE DEF y
  <2>3. CASE Existing = {}
    <3>1. PICK a \in Requests : \E b \in Requests \ {a} : Seed(a, b)
      BY <1>7, <2>3 DEF OpenSession
    <3>2. PICK b \in Requests \ {a} : Seed(a, b)
      BY <3>1
    <3> DEFINE m == NewRow("pending", Colleague, lastNumber + 1, FALSE)
               n == NewRow("clarification", user, lastNumber + 2, TRUE)
               t == <<"submitted">>
               v == <<"submitted", "clarification_requested">>
    <3>3. lastNumber + 1 \in Nat /\ lastNumber + 2 \in Nat /\ user \in Users
          /\ Colleague \in Users
      BY <1>0, MockAssumption DEF TypeOK, MockAssumption
    <3>4. m \in Row /\ Agrees(m) /\ m.status = "pending"
      BY <3>3, NewRowFits
    <3>5. n \in Row /\ Agrees(n) /\ n.status = "clarification"
      BY <3>3, NewRowFits
    <3>6. /\ t \in Seq(EventTypes) /\ t # << >>
          /\ ResultOf[t[Len(t)]] = "pending"
      BY DEF EventTypes, ResultOf
    <3>7. /\ v \in Seq(EventTypes) /\ v # << >>
          /\ ResultOf[v[Len(v)]] = "clarification"
      BY DEF EventTypes, ResultOf
    <3>8. /\ rows' = [rows EXCEPT ![a] = m, ![b] = n]
          /\ audit' = [audit EXCEPT ![a] = t, ![b] = v]
          /\ lastNumber' = lastNumber + 2
      BY <3>2 DEF Seed
    <3> HIDE DEF m, n, t, v
    <3>9. /\ rows' \in [Requests -> Row \cup {Absent}]
          /\ audit' \in [Requests -> Seq(EventTypes)]
          /\ rows'[a] = m /\ audit'[a] = t /\ rows'[b] = n /\ audit'[b] = v
          /\ \A q \in Requests \ {a, b} : rows'[q] = rows[q] /\ audit'[q] = audit[q]
      BY <1>0, <3>4, <3>5, <3>6, <3>7, <3>8 DEF TypeOK
    <3>10. \A q \in {a, b} : /\ rows'[q] \in Row
                            /\ Agrees(rows'[q])
                            /\ audit'[q] # << >>
                            /\ rows'[q].status = ResultOf[audit'[q][Len(audit'[q])]]
      BY <3>4, <3>5, <3>6, <3>7, <3>9
    <3>11. {a, b} \in SUBSET Requests /\ lastNumber' \in Nat
      BY <3>3, <3>8
    <3> QED
      BY <2>1, <2>2, <3>9, <3>10, <3>11, NewRows
  <2>4. CASE Existing # {}
    <3>1. UNCHANGED <<rows, audit, lastNumber>>
      BY <1>7, <2>4 DEF OpenSession
    <3> QED
      BY <1>0, <2>1, <2>2, <3>1, QuietStep DEF TypeOK
  <2> QED
    BY <2>3, <2>4
<1>8. CASE AnswerSession(c)
  <2>1. x.pc = "body" /\ Become(c, Answered(c, TRUE)) /\ user' \in SessionUsers
        /\ UNCHANGED <<role, accepted, rows, audit, lastNumber>>
    BY <1>8 DEF AnswerSession, Answer
  <2>2. Answered(c, TRUE) \in CallRecords /\ Answered(c, TRUE).pc = "answered"
    BY <1>0, <2>1, AnsweredShape
  <2>3. user' \in Users
    BY <2>1, MockAssumption DEF MockAssumption
  <2> QED
    BY <1>0, <2>1, <2>2, <2>3, QuietStep DEF TypeOK
<1>9. CASE RejectBody(c)
  <2>1. x.pc \in {"sent", "body"} /\ Become(c, Answered(c, FALSE)) /\ memoryUnchanged
    BY <1>9 DEF RejectBody, Answer
  <2>2. Answered(c, FALSE) \in CallRecords /\ Answered(c, FALSE).pc = "answered"
    BY <1>0, <2>1, AnsweredShape
  <2> QED
    BY <1>0, <2>1, <2>2, QuietStep DEF memoryUnchanged, TypeOK
<1>10. CASE TakeResponse(c)
  <2>1. Idle \in CallRecords /\ Idle.pc # "body"
    BY NewShapes DEF Idle
  <2> QED
    BY <1>0, <1>10, <2>1, QuietStep DEF TakeResponse, memoryUnchanged, TypeOK
<1> QED
  BY <1>1, <1>2, <1>3, <1>4, <1>5, <1>6, <1>7, <1>8, <1>9, <1>10 DEF Handle

LEMMA NextInv == MockInv /\ [Next]_mockVars => MockInv'
<1> SUFFICES ASSUME MockInv, [Next]_mockVars PROVE MockInv'
  OBVIOUS
<1>1. CASE SetRole
  BY <1>1 DEF SetRole, MockInv, TypeOK, CopiesFit, StatusIsLastEvent,
              ColumnsAgree, Exists
<1>2. CASE UNCHANGED mockVars
  BY <1>2 DEF mockVars, MockInv, TypeOK, CopiesFit, StatusIsLastEvent,
              ColumnsAgree, Exists
<1> QED
  BY <1>1, <1>2, StepInv DEF Next

LEMMA SpecInv == Spec => []MockInv
  BY InitInv, NextInv, PTL DEF Spec

(* The mock's memory keeps its types (handlers.ts, state.ts).               *)
THEOREM SpecTypeOK == Spec => []TypeOK
<1>1. MockInv => TypeOK
  BY DEF MockInv
<1> QED
  BY <1>1, SpecInv, PTL

(* However many calls overlap, the status of a request is what its last     *)
(* audit event says.                                                        *)
THEOREM SpecStatusIsLastEvent == Spec => []StatusIsLastEvent
<1>1. MockInv => StatusIsLastEvent
  BY DEF MockInv
<1> QED
  BY <1>1, SpecInv, PTL

(* However many calls overlap and save stale copies, what a request shows   *)
(* of its decision, question and answer fits its status.                    *)
THEOREM SpecColumnsAgree == Spec => []ColumnsAgree
<1>1. MockInv => ColumnsAgree
  BY DEF MockInv
<1> QED
  BY <1>1, SpecInv, PTL

-----------------------------------------------------------------------------
(* One call at a time: a copy is never stale.                               *)
CopiesFresh ==
  \A c \in Slots : calls[c].pc = "body" /\ calls[c].op \in AwaitOps =>
    calls[c].read = rows[calls[c].target]

OneCall == \A c, d \in Slots : c = d

LEMMA InitFresh == Init => CopiesFresh
  BY DEF Init, Idle, CopiesFresh

LEMMA NextFresh ==
  ASSUME OneCall, TypeOK, CopiesFresh, [Next]_mockVars
  PROVE  CopiesFresh'
<1>1. CASE UNCHANGED <<calls, rows>>
  BY <1>1 DEF CopiesFresh
<1>2. ASSUME NEW c \in Slots,
             SendAny(c) \/ Handle(c) \/ RejectBody(c) \/ TakeResponse(c)
      PROVE  CopiesFresh'
  <2> SUFFICES ASSUME calls'[c].pc = "body", calls'[c].op \in AwaitOps
               PROVE  calls'[c].read = rows'[calls'[c].target]
    BY DEF OneCall, CopiesFresh
  <2>1. \A x : Become(c, x) => calls'[c] = x
    BY DEF Become, TypeOK
  <2>2. \A ok : Answered(c, ok).pc = "answered"
    BY DEF Answered
  <2>3. ~ SendAny(c) /\ ~ TakeResponse(c)
    <3>1. \A op, r : [pc |-> "sent", op |-> op, target |-> r].pc = "sent"
      OBVIOUS
    <3>2. \A op, r : ~ Send(c, op, r)
      BY <2>1, <3>1 DEF Send
    <3>3. ~ SendAny(c)
      BY <3>2, Zenon DEF SendAny
    <3> QED
      BY <2>1, <3>3 DEF TakeResponse, Idle
  <2>4. ~ (HandleAtOnce(c) \/ Store(c) \/ AcceptConsent(c) \/ AnswerSession(c)
           \/ RejectBody(c))
    BY <2>1, <2>2
       DEF HandleAtOnce, Store, AcceptConsent, AnswerSession, RejectBody, Answer
  <2>5. ~ OpenSession(c)
    BY <2>1 DEF OpenSession, AwaitOps
  <2>6. ~ Create(c)
    <3>1. \A r : [Answered(c, TRUE) EXCEPT !.target = r].pc = "answered"
      BY DEF Answered
    <3> QED
      BY <2>1, <3>1 DEF Create
  <2>7. Check(c) /\ Allowed(calls[c].op, calls[c].target)
    BY <1>2, <2>1, <2>2, <2>3, <2>4, <2>5, <2>6 DEF Handle, Check, Answer
  <2> QED
    BY <2>1, <2>7 DEF Check, memoryUnchanged
<1> QED
  BY <1>1, <1>2 DEF Next, SetRole, mockVars

(* Whatever changes a row that is there is a save of that very row, in a    *)
(* status the operation allows.                                             *)
LEMMA RowStep ==
  ASSUME TypeOK, CopiesFit, CopiesFresh, [Next]_mockVars,
         NEW r \in Requests, Exists(r), rows'[r] # rows[r]
  PROVE  \E op \in RequestOps :
           StatusAllows(op, rows[r].status) /\ Save(r, op, rows[r])
<1>1. PICK c \in Slots :
        HandleAtOnce(c) \/ Store(c) \/ Create(c) \/ OpenSession(c)
  BY DEF Next, SetRole, SendAny, Send, Handle, Check, RejectBody, TakeResponse,
         AcceptConsent, AnswerSession, memoryUnchanged, mockVars
<1> DEFINE x == calls[c]
<1>2. ASSUME NEW op \in RequestOps, NEW q \in Requests, Save(q, op, rows[q])
      PROVE  q = r
  BY <1>2 DEF Save, TypeOK
<1>3. CASE HandleAtOnce(c)
  <2>1. x.op \in RequestOps /\ x.target \in Requests
    BY <1>3, Shapes DEF HandleAtOnce, RequestOps, TypeOK
  <2>2. Allowed(x.op, x.target) /\ Save(x.target, x.op, rows[x.target])
    BY <1>3 DEF HandleAtOnce, memoryUnchanged
  <2> QED
    BY <1>2, <2>1, <2>2 DEF Allowed
<1>4. CASE Store(c)
  <2>1. x.op \in RequestOps /\ x.target \in Requests
    BY <1>4, Shapes DEF Store, RequestOps, TypeOK
  <2>2. x.read = rows[x.target] /\ StatusAllows(x.op, x.read.status)
    BY <1>4 DEF Store, CopiesFit, CopiesFresh
  <2>3. Save(x.target, x.op, rows[x.target])
    BY <1>4, <2>2 DEF Store
  <2> QED
    BY <1>2, <2>1, <2>2, <2>3
<1>5. CASE Create(c)
  BY <1>5 DEF Create, Existing, TypeOK
<1>6. CASE OpenSession(c)
  BY <1>6 DEF OpenSession, Existing
<1> QED
  BY <1>1, <1>3, <1>4, <1>5, <1>6

LEMMA TerminalKept ==
  ASSUME TypeOK, CopiesFit, CopiesFresh, [Next]_mockVars
  PROVE  [\A r \in Requests :
            rows[r].status \in Terminal => rows'[r].status = rows[r].status]_rows
<1> SUFFICES ASSUME NEW r \in Requests, rows[r].status \in Terminal,
                    rows'[r] # rows[r]
             PROVE  FALSE
  OBVIOUS
<1>1. Exists(r)
  BY TerminalSet DEF Exists, Absent
<1>2. PICK op \in RequestOps : StatusAllows(op, rows[r].status)
  BY <1>1, RowStep
<1>3. op \in {"cancel", "close", "answer", "approve", "reject", "clarify"}
  BY DEF RequestOps, SyncOps, AwaitOps
<1>4. rows[r].status \notin {"cancelled", "closed"}
  BY <1>2, <1>3 DEF StatusAllows
<1> QED
  BY <1>4, TerminalSet

(* As long as no two calls overlap, a cancelled or closed request stays so. *)
THEOREM SequentialTerminalStable == OneCall => (Spec => TerminalStable)
<1> SUFFICES ASSUME OneCall PROVE Spec => TerminalStable
  OBVIOUS
<1> DEFINE Kept == [\A r \in Requests :
                      rows[r].status \in Terminal => rows'[r].status = rows[r].status]_rows
<1>1. MockInv /\ CopiesFresh /\ [Next]_mockVars => CopiesFresh'
  BY NextFresh DEF MockInv
<1>2. MockInv /\ CopiesFresh /\ [Next]_mockVars => Kept
  BY TerminalKept DEF MockInv
<1> QED
  BY <1>1, <1>2, SpecInv, InitFresh, PTL DEF Spec, TerminalStable

-----------------------------------------------------------------------------
(* The moves of the abstract life of a request.                             *)
StatusOf == [r \in Requests |-> rows[r].status]
TrailOf == [r \in Requests |-> [i \in 1..Len(audit[r]) |-> ResultOf[audit[r][i]]]]

LEMMA AppendMapped ==
  ASSUME NEW a \in Seq(EventTypes), NEW e \in EventTypes
  PROVE  [i \in 1..Len(Append(a, e)) |-> ResultOf[Append(a, e)[i]]]
           = Append([i \in 1..Len(a) |-> ResultOf[a[i]]], ResultOf[e])
<1> DEFINE f == [i \in 1..Len(a) |-> ResultOf[a[i]]]
           g == [i \in 1..Len(Append(a, e)) |-> ResultOf[Append(a, e)[i]]]
<1>1. \A x \in EventTypes : ResultOf[x] \in Statuses
  BY DEF EventTypes, ResultOf, Statuses
<1>2. f \in Seq(Statuses) /\ Len(f) = Len(a)
  BY <1>1
<1>3. g \in Seq(Statuses) /\ Len(g) = Len(a) + 1
  BY <1>1
<1>4. Append(f, ResultOf[e]) \in Seq(Statuses) /\ Len(Append(f, ResultOf[e])) = Len(a) + 1
  BY <1>1, <1>2
<1>5. \A i \in 1..(Len(a) + 1) : g[i] = Append(f, ResultOf[e])[i]
  BY <1>2
<1> HIDE DEF f, g
<1>6. g = Append(f, ResultOf[e])
  BY <1>3, <1>4, <1>5
<1> QED
  BY <1>6 DEF f, g

LEMMA SaveMoves ==
  ASSUME TypeOK, NEW r \in Requests, Exists(r), NEW op \in RequestOps,
         StatusAllows(op, rows[r].status), Save(r, op, rows[r])
  PROVE  Lifecycle!Next
<1> DEFINE s == TargetStatus[op]
<1>1. op \in {"cancel", "close", "answer", "approve", "reject", "clarify"}
  BY DEF RequestOps, SyncOps, AwaitOps
<1>2. rows[r] \in Row
  BY DEF TypeOK, Exists
<1>3. Edited(op, rows[r], user).status = s
  BY <1>2 DEF Edited, Row
<1>4. EventOf[op] \in EventTypes /\ ResultOf[EventOf[op]] = s /\ s \in Statuses
  BY <1>1 DEF EventOf, EventTypes, ResultOf, TargetStatus, Statuses
<1>5. StatusOf' = [StatusOf EXCEPT ![r] = s]
  BY <1>3 DEF Save, StatusOf, TypeOK
<1>6. TrailOf' = [TrailOf EXCEPT ![r] = Append(@, s)]
  <2>1. audit'[r] = Append(audit[r], EventOf[op])
        /\ \A q \in Requests : q # r => audit'[q] = audit[q]
    BY DEF Save, TypeOK
  <2>2. TrailOf'[r] = Append(TrailOf[r], s)
    BY <1>4, <2>1, AppendMapped DEF TrailOf, TypeOK
  <2>3. \A q \in Requests : q # r => TrailOf'[q] = TrailOf[q]
    BY <2>1 DEF TrailOf
  <2> QED
    BY <2>2, <2>3 DEF TrailOf
<1>7. \/ <<rows[r].status, s>> \in AdminMoves
      \/ <<rows[r].status, s>> \in InitiatorMoves
  BY <1>1 DEF StatusAllows, TargetStatus, AdminMoves, InitiatorMoves
<1>8. Lifecycle!MoveTo(r, s)
  BY <1>5, <1>6 DEF StatusOf, TrailOf, Lifecycle!MoveTo
<1>9. Lifecycle!AdminMoves = AdminMoves /\ Lifecycle!InitiatorMoves = InitiatorMoves
      /\ Lifecycle!Statuses = Statuses
  BY DEF Lifecycle!AdminMoves, AdminMoves, Lifecycle!InitiatorMoves, InitiatorMoves,
         Lifecycle!Statuses, Statuses
<1>10. [q \in Requests |-> rows[q].status][r] = rows[r].status
  OBVIOUS
<1>11. Lifecycle!Decide(r, s) \/ Lifecycle!React(r, s)
  BY <1>7, <1>8, <1>9, <1>10, Zenon DEF Lifecycle!Decide, Lifecycle!React
<1> QED
  BY <1>4, <1>9, <1>11, Zenon DEF Lifecycle!Next

(* A request that is not there yet has no trail.                            *)
Trailless == \A r \in Requests : ~ Exists(r) => audit[r] = << >>

LEMMA NextTrailless ==
  ASSUME MockInv, Trailless, [Next]_mockVars
  PROVE  Trailless'
<1> SUFFICES ASSUME NEW r \in Requests, ~ Exists(r)'
             PROVE  audit'[r] = << >>
  BY DEF Trailless
<1>0. MockInv' /\ TypeOK
  BY NextInv DEF MockInv
<1>1. CASE UNCHANGED <<rows, audit>>
  BY <1>1 DEF Trailless, Exists
<1>2. ASSUME NEW c \in Slots,
             HandleAtOnce(c) \/ Store(c) \/ Create(c) \/ OpenSession(c),
             ~ UNCHANGED <<rows, audit>>
      PROVE  audit'[r] = << >>
  <2> DEFINE x == calls[c]
  <2>1. ASSUME NEW op \in RequestOps, NEW q \in Requests, NEW m \in Row,
               Agrees(m), StatusAllows(op, m.status), Save(q, op, m)
        PROVE  audit'[r] = << >>
    <3>1. rows'[q] \in Row
      BY <1>0, <2>1, EditedFits DEF Save, TypeOK
    <3>2. \A n \in Row : n # Absent
      <4>1. "absent" \notin Statuses
        BY DEF Statuses
      <4> QED
        BY <4>1 DEF Absent, Row
    <3>3. r # q
      BY <3>1, <3>2 DEF Exists
    <3> QED
      BY <1>0, <2>1, <3>3 DEF Save, TypeOK, Trailless, Exists
  <2>2. CASE HandleAtOnce(c)
    <3>1. x.op \in RequestOps /\ x.target \in Requests
      BY <1>0, <2>2, Shapes DEF HandleAtOnce, RequestOps, TypeOK
    <3>2. Allowed(x.op, x.target) /\ Save(x.target, x.op, rows[x.target])
      BY <1>2, <2>2 DEF HandleAtOnce, memoryUnchanged
    <3>3. rows[x.target] \in Row /\ Agrees(rows[x.target])
          /\ StatusAllows(x.op, rows[x.target].status)
      BY <3>1, <3>2 DEF Allowed, MockInv, TypeOK, Exists, ColumnsAgree
    <3> QED
      BY <2>1, <3>1, <3>2, <3>3
  <2>3. CASE Store(c)
    <3>1. x.op \in RequestOps /\ x.target \in Requests /\ x.read \in Row
      BY <1>0, <2>3, Shapes DEF Store, RequestOps, TypeOK
    <3>2. Agrees(x.read) /\ StatusAllows(x.op, x.read.status)
      BY <2>3 DEF Store, MockInv, CopiesFit
    <3> QED
      BY <2>1, <2>3, <3>1, <3>2 DEF Store
  <2>4. CASE Create(c) \/ OpenSession(c)
    <3>1. PICK new \in SUBSET Requests :
            /\ \A q \in new : rows'[q].status \in Statuses
            /\ \A q \in Requests \ new : rows'[q] = rows[q] /\ audit'[q] = audit[q]
      <4>1. CASE Create(c)
        <5>1. PICK q \in Requests :
                /\ rows' = [rows EXCEPT ![q] = NewRow("pending", user, lastNumber + 1, FALSE)]
                /\ audit' = [audit EXCEPT ![q] = <<"submitted">>]
          BY <4>1 DEF Create
        <5>2. rows'[q].status \in Statuses
          BY <1>0, <5>1 DEF TypeOK, NewRow, Statuses
        <5>3. \A p \in {q} : rows'[p].status \in Statuses
          BY <5>2
        <5>4. \A p \in Requests \ {q} : rows'[p] = rows[p] /\ audit'[p] = audit[p]
          BY <1>0, <5>1 DEF TypeOK
        <5> QED
          BY <5>3, <5>4
      <4>2. CASE OpenSession(c)
        <5>1. PICK a \in Requests : \E b \in Requests \ {a} : Seed(a, b)
          BY <1>2, <4>2 DEF OpenSession
        <5>2. PICK b \in Requests \ {a} : Seed(a, b)
          BY <5>1
        <5> DEFINE m == NewRow("pending", Colleague, lastNumber + 1, FALSE)
                   n == NewRow("clarification", user, lastNumber + 2, TRUE)
        <5>5. m.status \in Statuses /\ n.status \in Statuses
          BY DEF NewRow, Statuses
        <5>6. rows' = [rows EXCEPT ![a] = m, ![b] = n]
          BY <5>2 DEF Seed
        <5>3. \A q \in {a, b} : rows'[q].status \in Statuses
          <6> HIDE DEF m, n
          <6> QED
            BY <1>0, <5>5, <5>6 DEF TypeOK
        <5>4. \A q \in Requests \ {a, b} : rows'[q] = rows[q] /\ audit'[q] = audit[q]
          BY <1>0, <5>2 DEF Seed, TypeOK
        <5> QED
          BY <5>3, <5>4
      <4> QED
        BY <2>4, <4>1, <4>2
    <3>2. r \notin new
      BY <3>1 DEF Exists, Absent, Statuses
    <3> QED
      BY <3>1, <3>2 DEF Trailless, Exists
  <2> QED
    BY <1>2, <2>2, <2>3, <2>4
<1> QED
  BY <1>1, <1>2
     DEF Next, SetRole, SendAny, Send, Handle, Check, RejectBody, TakeResponse,
         AcceptConsent, AnswerSession, memoryUnchanged, mockVars

LEMMA SubmitMoves ==
  ASSUME TypeOK, Trailless, NEW c \in Slots, Create(c)
  PROVE  Lifecycle!Next
<1>1. PICK r \in Requests \ Existing :
        /\ rows' = [rows EXCEPT ![r] = NewRow("pending", user, lastNumber + 1, FALSE)]
        /\ audit' = [audit EXCEPT ![r] = <<"submitted">>]
  BY DEF Create
<1>2. rows[r].status = "absent" /\ r \in Requests /\ audit[r] = << >>
  BY <1>1 DEF Existing, Exists, Absent, Trailless
<1>3. NewRow("pending", user, lastNumber + 1, FALSE).status = "pending"
  BY DEF NewRow
<1>4. StatusOf' = [StatusOf EXCEPT ![r] = "pending"]
  BY <1>1, <1>3 DEF StatusOf, TypeOK
<1>5. TrailOf' = [TrailOf EXCEPT ![r] = Append(@, "pending")]
  <2>1. audit'[r] = Append(audit[r], "submitted")
        /\ \A q \in Requests : q # r => audit'[q] = audit[q]
    BY <1>1, <1>2 DEF TypeOK
  <2>2. "submitted" \in EventTypes /\ ResultOf["submitted"] = "pending"
    BY DEF EventTypes, ResultOf
  <2>3. TrailOf'[r] = Append(TrailOf[r], "pending")
    <3>1. r \in Requests /\ audit[r] \in Seq(EventTypes)
      BY <1>1 DEF TypeOK
    <3>2. TrailOf'[r] = [i \in 1..Len(audit'[r]) |-> ResultOf[audit'[r][i]]]
      BY <3>1 DEF TrailOf
    <3>3. TrailOf[r] = [i \in 1..Len(audit[r]) |-> ResultOf[audit[r][i]]]
      BY <3>1 DEF TrailOf
    <3> QED
      BY <2>1, <2>2, <3>1, <3>2, <3>3, AppendMapped
  <2>4. \A q \in Requests : q # r => TrailOf'[q] = TrailOf[q]
    BY <2>1 DEF TrailOf
  <2> QED
    BY <2>3, <2>4 DEF TrailOf
<1>6. Lifecycle!MoveTo(r, "pending")
  BY <1>4, <1>5 DEF StatusOf, TrailOf, Lifecycle!MoveTo
<1>7. [q \in Requests |-> rows[q].status][r] = "absent"
  BY <1>2
<1> QED
  BY <1>2, <1>6, <1>7, Zenon DEF Lifecycle!Next, Lifecycle!Submit

LEMMA NextMoves ==
  ASSUME MockInv, Trailless, [Next]_mockVars
  PROVE  [Seeding \/ Overtaken \/ Lifecycle!Next]_<<rows, audit>>
<1> SUFFICES ASSUME ~ UNCHANGED <<rows, audit>>
             PROVE  Seeding \/ Overtaken \/ Lifecycle!Next
  OBVIOUS
<1>0. TypeOK
  BY DEF MockInv
<1>1. PICK c \in Slots :
        HandleAtOnce(c) \/ Store(c) \/ Create(c) \/ OpenSession(c)
  BY DEF Next, SetRole, SendAny, Send, Handle, Check, RejectBody, TakeResponse,
         AcceptConsent, AnswerSession, memoryUnchanged, mockVars
<1> DEFINE x == calls[c]
<1>2. CASE HandleAtOnce(c)
  <2>1. x.op \in RequestOps /\ x.target \in Requests
    BY <1>0, <1>2, Shapes DEF HandleAtOnce, RequestOps, TypeOK
  <2>2. Allowed(x.op, x.target) /\ Save(x.target, x.op, rows[x.target])
    BY <1>2 DEF HandleAtOnce, memoryUnchanged
  <2> QED
    BY <1>0, <2>1, <2>2, SaveMoves DEF Allowed
<1>3. CASE Store(c)
  <2>1. x.op \in RequestOps /\ x.target \in Requests
    BY <1>0, <1>3, Shapes DEF Store, RequestOps, TypeOK
  <2> SUFFICES ASSUME x.read = rows[x.target] PROVE Lifecycle!Next
    BY <1>3 DEF Overtaken
  <2>2. Exists(x.target) /\ StatusAllows(x.op, x.read.status)
    BY <1>3 DEF Store, MockInv, CopiesFit
  <2>3. Save(x.target, x.op, rows[x.target])
    BY <1>3, <2>2 DEF Store
  <2> QED
    BY <1>0, <2>1, <2>2, <2>3, SaveMoves
<1>4. CASE Create(c)
  BY <1>0, <1>4, SubmitMoves
<1>5. CASE OpenSession(c)
  <2>1. Existing = {} /\ \E a \in Requests : \E b \in Requests \ {a} : Seed(a, b)
    BY <1>5 DEF OpenSession
  <2> QED
    BY <2>1 DEF Seeding
<1> QED
  BY <1>1, <1>2, <1>3, <1>4, <1>5

(* Whatever calls overlap, the only departure from the moves the bot         *)
(* promises, each with its audit event, is the save of a stale copy; the    *)
(* demo requests appear once, while there is nothing else.                  *)
THEOREM SpecMovesOfLifecycle == Spec => MovesOfLifecycle
<1> DEFINE Moves == [Seeding \/ Overtaken \/ Lifecycle!Next]_<<rows, audit>>
<1>1. MockInv /\ Trailless /\ [Next]_mockVars => Trailless'
  BY NextTrailless
<1>2. MockInv /\ Trailless /\ [Next]_mockVars => Moves
  BY NextMoves
<1>3. Init => Trailless
  BY DEF Init, Trailless
<1> QED
  BY <1>1, <1>2, <1>3, SpecInv, PTL DEF Spec, MovesOfLifecycle
(* As long as no two calls overlap, nothing is overtaken: apart from the    *)
(* demo requests the mock does to a request only what the bot promises.     *)
THEOREM SequentialMovesOfLifecycle ==
  OneCall => (Spec => [][Seeding \/ Lifecycle!Next]_<<rows, audit>>)
<1> SUFFICES ASSUME OneCall
             PROVE  Spec => [][Seeding \/ Lifecycle!Next]_<<rows, audit>>
  OBVIOUS
<1> DEFINE Moves == [Seeding \/ Lifecycle!Next]_<<rows, audit>>
<1>1. MockInv /\ CopiesFresh /\ [Next]_mockVars => CopiesFresh'
  BY NextFresh DEF MockInv
<1>2. MockInv /\ Trailless /\ [Next]_mockVars => Trailless'
  BY NextTrailless
<1>3. ASSUME MockInv, CopiesFresh, Trailless, [Next]_mockVars
      PROVE  Moves
  <2>1. ~ Overtaken
    <3> SUFFICES ASSUME NEW c \in Slots, Store(c)
                 PROVE  calls[c].read = rows[calls[c].target]
      BY DEF Overtaken
    <3> QED
      BY <1>3 DEF Store, CopiesFresh
  <2> QED
    BY <1>3, <2>1, NextMoves
<1>4. Init => Trailless
  BY DEF Init, Trailless
<1> QED
  BY <1>1, <1>2, <1>3, <1>4, SpecInv, InitFresh, PTL DEF Spec
=============================================================================
