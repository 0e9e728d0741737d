--------------------- MODULE PassRequestsPollingProofs ---------------------
(***************************************************************************)
(* Proofs about the moves of PassRequests.  With any number of workers a    *)
(* commit that was not overtaken is one move of the abstract life of the    *)
(* request.  With one worker, the long-polling bot, what a transaction has  *)
(* read is never stale, so every commit is such a move, the columns of a    *)
(* row agree, and one draft is one request.                                 *)
(***************************************************************************)
EXTENDS PassRequestsAuditProofs

OneWorker == \A v, w \in Workers : v = w

Moving == {"loaded", "reread", "updated"}

(* A move of the state machine for an operation in a status.                *)
MoveAllowed(op, status) ==
  <<status, TargetStatus[op]>> \in AdminMoves \cup InitiatorMoves

(* What a transaction is about to save is the row it has read, edited by an *)
(* operation that the status it has read allows.                            *)
GroundedIn(w) ==
  LET t == tx[w] IN
  t.pc \in Moving => /\ t.entity = Edited(t.op, t.read, t.actor)
                     /\ MoveAllowed(t.op, t.read.status)

Grounded == \A w \in Workers : GroundedIn(w)

(* What it has read, once or twice, is still the row.                       *)
FreshIn(w) ==
  LET t == tx[w] IN
  t.pc \in Moving => /\ t.read = rows[t.target]
                     /\ t.pc # "loaded" => t.base = rows[t.target]

Fresh == \A w \in Workers : FreshIn(w)

-----------------------------------------------------------------------------
(* Any number of workers: what a transaction is about to save.              *)

(* The checks of each operation only let the moves of the table through.    *)
LEMMA PermittedMoves ==
  ASSUME NEW op \in RequestOps, NEW e, NEW u, NEW r, Permitted(op, e, u, r)
  PROVE  MoveAllowed(op, e.status)
  BY DEF Permitted, EnsureTransition, MoveAllowed

(* Loading a request.                                                       *)
LEMMA Loaded ==
  ASSUME TypeOK, NEW v \in Workers, LoadRequest(v)
  PROVE  /\ rows' = rows /\ tx'[v].pc = "loaded"
         /\ tx'[v].op = tx[v].op /\ tx[v].op \in RequestOps
         /\ tx'[v].actor = tx[v].actor
         /\ tx'[v].target = tx[v].target
         /\ tx'[v].read = rows[tx[v].target]
         /\ tx'[v].entity = Edited(tx[v].op, rows[tx[v].target], tx[v].actor)
<1>1. /\ rows' = rows /\ tx[v].op \in RequestOps
      /\ tx'[v] = [pc |-> "loaded", op |-> tx[v].op, actor |-> tx[v].actor,
                   target |-> tx[v].target, read |-> rows[tx[v].target],
                   entity |-> Edited(tx[v].op, rows[tx[v].target], tx[v].actor)]
  BY DEF LoadRequest, Become, dbVars, TypeOK
<1> QED
  BY <1>1

(* Reading its row again.                                                   *)
LEMMA Reread ==
  ASSUME TypeOK, NEW v \in Workers, RereadRequest(v)
  PROVE  /\ rows' = rows /\ tx[v].pc = "loaded" /\ tx'[v].pc = "reread"
         /\ tx'[v].op = tx[v].op /\ tx'[v].actor = tx[v].actor
         /\ tx'[v].target = tx[v].target /\ tx'[v].read = tx[v].read
         /\ tx'[v].entity = tx[v].entity /\ tx'[v].base = rows[tx[v].target]
<1>1. /\ rows' = rows /\ tx[v].pc = "loaded"
      /\ tx'[v] = [pc |-> "reread", op |-> tx[v].op, actor |-> tx[v].actor,
                   target |-> tx[v].target, read |-> tx[v].read,
                   entity |-> tx[v].entity, base |-> rows[tx[v].target]]
  BY DEF RereadRequest, Become, dbVars, TypeOK
<1> QED
  BY <1>1

(* Sending the UPDATE.                                                      *)
LEMMA Updated ==
  ASSUME TypeOK, NEW v \in Workers, UpdateRequest(v)
  PROVE  /\ rows' = rows /\ tx[v].pc = "reread" /\ tx'[v].pc = "updated"
         /\ tx'[v].op = tx[v].op /\ tx'[v].actor = tx[v].actor
         /\ tx'[v].target = tx[v].target /\ tx'[v].read = tx[v].read
         /\ tx'[v].entity = tx[v].entity /\ tx'[v].base = tx[v].base
<1>1. tx[v] \in [pc : {"reread", "updated"}, op : RequestOps, actor : Users,
                 target : Requests, read : Row, entity : Row, base : Row]
  BY Shapes DEF UpdateRequest, TypeOK
<1>2. tx'[v] = [tx[v] EXCEPT !.pc = "updated"] /\ rows' = rows
      /\ tx[v].pc = "reread"
  BY BecomeOthers DEF UpdateRequest, dbVars, TypeOK
<1> QED
  BY <1>1, <1>2

(* The other steps of a worker leave it with no row to save.                *)
LEMMA NotMoving ==
  ASSUME TypeOK, [Next]_vars, NEW v \in Workers
  PROVE  \/ tx'[v] = tx[v]
         \/ LoadRequest(v) \/ RereadRequest(v) \/ UpdateRequest(v)
         \/ tx'[v].pc \notin Moving
<1>1. CASE ReadNumber(v) \/ InsertRequest(v)
  <2>1. tx'[v].pc \in {"numbered", "inserted", "idle"}
    BY <1>1 DEF ReadNumber, InsertRequest, Become, Idle, TypeOK
  <2> QED
    BY <2>1 DEF Moving
<1>2. CASE tx'[v].pc \notin {"loaded", "reread", "updated", "numbered", "inserted"}
  BY <1>2 DEF Moving
<1> QED
  BY <1>1, <1>2, Moves

(* Every step keeps what is about to be saved grounded.                     *)
LEMMA NextGrounded ==
  ASSUME TypeOK, Grounded, [Next]_vars
  PROVE  Grounded'
<1> SUFFICES ASSUME NEW v \in Workers PROVE GroundedIn(v)'
  BY DEF Grounded
<1>0. GroundedIn(v)
  BY DEF Grounded
<1>1. CASE tx'[v] = tx[v]
  BY <1>0, <1>1 DEF GroundedIn
<1>2. CASE LoadRequest(v)
  <2>1. MoveAllowed(tx[v].op, rows[tx[v].target].status)
    BY <1>2, PermittedMoves DEF LoadRequest
  <2> QED
    BY <1>2, <2>1, Loaded DEF GroundedIn
<1>3. CASE RereadRequest(v)
  BY <1>0, <1>3, Reread DEF GroundedIn, Moving
<1>4. CASE UpdateRequest(v)
  BY <1>0, <1>4, Updated DEF GroundedIn, Moving
<1>5. CASE tx'[v].pc \notin Moving
  BY <1>5 DEF GroundedIn
<1> QED
  BY <1>1, <1>2, <1>3, <1>4, <1>5, NotMoving

LEMMA SpecGrounded == Spec => [](TypeInv /\ Grounded)
<1>1. Init => Grounded
  BY DEF Init, Grounded, GroundedIn, Moving, Idle
<1>2. TypeInv /\ Grounded /\ [Next]_vars => Grounded'
  BY NextGrounded DEF TypeInv
<1> QED
  BY <1>1, <1>2, SpecTypeInv, PTL DEF Spec

(* A save over the very row the entity was made of leaves the entity.       *)
LEMMA MergedFresh ==
  ASSUME NEW c \in Row, NEW e \in Row
  PROVE  Merged(c, e, c) = e
  BY DEF Merged, Row

(* What a commit does that was not overtaken: one allowed move, with its    *)
(* event.                                                                   *)
LEMMA CommitMoves ==
  ASSUME TypeInv, Grounded, NEW w \in Workers, CommitRequest(w), ~ Overtaken(w)
  PROVE  \E r \in Requests, op \in RequestOps, u \in Users :
           /\ Exists(r) /\ MoveAllowed(op, rows[r].status)
           /\ rows' = [rows EXCEPT ![r] = Edited(op, rows[r], u)]
           /\ audit' = [audit EXCEPT ![r] =
                          Append(@, [type |-> EventOf[op], actor |-> u])]
<1>0. TypeOK /\ TargetExists(w) /\ GroundedIn(w)
  BY DEF TypeInv, TargetsExist, Grounded
<1>1. /\ tx[w].pc = "updated" /\ tx[w].op \in RequestOps /\ tx[w].actor \in Users
      /\ tx[w].target \in Requests /\ tx[w].entity \in Row
  BY <1>0, Shapes DEF CommitRequest, TypeOK
<1>2. PICK r \in Requests : r = tx[w].target
  BY <1>1
<1>3. /\ Exists(r) /\ MoveAllowed(tx[w].op, rows[r].status)
      /\ tx[w].entity = Edited(tx[w].op, rows[r], tx[w].actor)
      /\ tx[w].base = rows[r]
  BY <1>0, <1>1, <1>2 DEF GroundedIn, Overtaken, TargetExists, Moving
<1>4. rows[r] \in Row
  BY <1>0, <1>3 DEF Exists, TypeOK
<1>5. Merged(rows[r], tx[w].entity, tx[w].base) = Edited(tx[w].op, rows[r], tx[w].actor)
  BY <1>1, <1>3, <1>4, MergedFresh
<1>6. rows' = [rows EXCEPT ![r] = Edited(tx[w].op, rows[r], tx[w].actor)]
  BY <1>2, <1>5 DEF CommitRequest
<1>7. audit' = [audit EXCEPT ![r] =
                  Append(@, [type |-> EventOf[tx[w].op], actor |-> tx[w].actor])]
  BY <1>2 DEF CommitRequest
<1> QED
  BY <1>1, <1>3, <1>6, <1>7

-----------------------------------------------------------------------------
(* The abstract variables.                                                  *)
StatusMap == [r \in Requests |-> rows[r].status]
TrailMap == [r \in Requests |->
               [i \in 1..Len(audit[r]) |-> ResultOf[audit[r][i].type]]]

Events == [type : EventTypes, actor : Users]

(* The abstract trail grows by the result of the event that is appended.    *)
LEMMA AppendMapped ==
  ASSUME NEW a \in Seq(Events), NEW e \in Events
  PROVE  [i \in 1..Len(Append(a, e)) |-> ResultOf[Append(a, e)[i].type]]
           = Append([i \in 1..Len(a) |-> ResultOf[a[i].type]], ResultOf[e.type])
<1> DEFINE f == [i \in 1..Len(a) |-> ResultOf[a[i].type]]
           g == [i \in 1..Len(Append(a, e)) |-> ResultOf[Append(a, e)[i].type]]
           x == ResultOf[e.type]
<1>1. \A z \in Events : ResultOf[z.type] \in Statuses
  BY DEF Events, EventTypes, ResultOf, Statuses
<1>2. f \in Seq(Statuses) /\ Len(f) = Len(a)
  BY <1>1
<1>3. g \in Seq(Statuses) /\ Len(g) = Len(a) + 1
  BY <1>1
<1>4. Append(f, x) \in Seq(Statuses) /\ Len(Append(f, x)) = Len(a) + 1
  BY <1>1, <1>2
<1>5. \A i \in 1..(Len(a) + 1) : g[i] = Append(f, x)[i]
  BY <1>2
<1> HIDE DEF f, g, x
<1>6. g = Append(f, x)
  BY <1>3, <1>4, <1>5
<1> QED
  BY <1>6 DEF f, g, x

(* A new status and its event are one move of the abstract life.            *)
LEMMA MoveMapped ==
  ASSUME TypeOK, NEW r \in Requests, NEW m, NEW s, NEW e \in Events,
         rows' = [rows EXCEPT ![r] = m],
         audit' = [audit EXCEPT ![r] = Append(@, e)],
         m.status = s, ResultOf[e.type] = s
  PROVE  Lifecycle!MoveTo(r, s)
<1>1. StatusMap' = [StatusMap EXCEPT ![r] = s]
  BY DEF StatusMap, TypeOK
<1>2. audit'[r] = Append(audit[r], e) /\ audit[r] \in Seq(Events)
      /\ \A q \in Requests : q # r => audit'[q] = audit[q]
  BY DEF TypeOK, Events
<1>3. TrailMap'[r] = [i \in 1..Len(audit'[r]) |-> ResultOf[audit'[r][i].type]]
      /\ TrailMap[r] = [i \in 1..Len(audit[r]) |-> ResultOf[audit[r][i].type]]
  BY DEF TrailMap
<1>4. TrailMap'[r] = Append(TrailMap[r], s)
  BY <1>2, <1>3, AppendMapped
<1>5. \A q \in Requests : q # r => TrailMap'[q] = TrailMap[q]
  BY <1>2 DEF TrailMap
<1>6. TrailMap' = [TrailMap EXCEPT ![r] = Append(@, s)]
  BY <1>4, <1>5 DEF TrailMap
<1> QED
  BY <1>1, <1>6 DEF StatusMap, TrailMap, Lifecycle!MoveTo

(* Every change of a request is an overtaken commit or a move of its        *)
(* abstract life.                                                           *)
LEMMA NextMoves ==
  ASSUME TypeInv, Grounded, AuthorisedTrail, [Next]_vars
  PROVE  [(\E w \in Workers : CommitRequest(w) /\ Overtaken(w))
            \/ Lifecycle!Next]_<<rows, audit>>
<1>0. TypeOK
  BY DEF TypeInv
<1>1. Lifecycle!AdminMoves = AdminMoves /\ Lifecycle!InitiatorMoves = InitiatorMoves
      /\ Lifecycle!Statuses = Statuses
  BY DEF Lifecycle!AdminMoves, AdminMoves, Lifecycle!InitiatorMoves, InitiatorMoves,
         Lifecycle!Statuses, Statuses
<1>2. CASE UNCHANGED <<rows, audit>>
  BY <1>2
<1>3. ASSUME NEW w \in Workers, CommitRequest(w), ~ Overtaken(w)
      PROVE  Lifecycle!Next
  <2>1. PICK r \in Requests, op \in RequestOps, u \in Users :
          /\ Exists(r) /\ MoveAllowed(op, rows[r].status)
          /\ rows' = [rows EXCEPT ![r] = Edited(op, rows[r], u)]
          /\ audit' = [audit EXCEPT ![r] =
                         Append(@, [type |-> EventOf[op], actor |-> u])]
    BY <1>3, CommitMoves
  <2> DEFINE m == Edited(op, rows[r], u)
             e == [type |-> EventOf[op], actor |-> u]
             s == TargetStatus[op]
  <2>2. op \in {"cancel", "answer", "approve", "reject", "clarify", "close"}
    BY DEF RequestOps
  <2>3. EventOf[op] \in EventTypes /\ ResultOf[EventOf[op]] = s /\ s \in Statuses
    BY <2>2 DEF EventOf, EventTypes, ResultOf, TargetStatus, Statuses
  <2>4. m.status = s
    BY <1>0, <2>1 DEF Edited, Row, Exists, TypeOK
  <2>5. e \in Events /\ ResultOf[e.type] = s
    BY <2>3 DEF Events
  <2>6. Lifecycle!MoveTo(r, s)
    BY <1>0, <2>1, <2>4, <2>5, MoveMapped
  <2>7. [q \in Requests |-> rows[q].status][r] = rows[r].status
    OBVIOUS
  <2>8. <<rows[r].status, s>> \in AdminMoves \/ <<rows[r].status, s>> \in InitiatorMoves
    BY <2>1 DEF MoveAllowed
  <2>9. Lifecycle!Decide(r, s) \/ Lifecycle!React(r, s)
    BY <1>1, <2>6, <2>7, <2>8, Zenon DEF Lifecycle!Decide, Lifecycle!React
  <2> QED
    BY <1>1, <2>3, <2>9, Zenon DEF Lifecycle!Next
<1>4. ASSUME NEW w \in Workers, CommitSubmit(w) PROVE Lifecycle!Next
  <2>1. PICK r \in Requests :
          /\ ~ Exists(r)
          /\ rows' = [rows EXCEPT ![r] = NewRow(tx[w].actor, tx[w].year, tx[w].last + 1)]
          /\ audit' = [audit EXCEPT ![r] =
                         <<[type |-> "submitted", actor |-> tx[w].actor]>>]
    BY <1>4 DEF CommitSubmit
  <2> DEFINE m == NewRow(tx[w].actor, tx[w].year, tx[w].last + 1)
             e == [type |-> "submitted", actor |-> tx[w].actor]
  <2>2. audit[r] = << >>
    <3>1. audit[r] \in Seq(Events)
      BY <1>0 DEF TypeOK, Events
    <3>2. \A i \in 1..Len(audit[r]) : FALSE
      BY <2>1 DEF AuthorisedTrail
    <3>3. Len(audit[r]) = 0
      BY <3>1, <3>2
    <3> QED
      BY <3>1, <3>3
  <2>3. tx[w].actor \in Users
    BY <1>0, <1>4, Shapes DEF CommitSubmit, TypeOK
  <2>4. m.status = "pending" /\ e \in Events /\ ResultOf[e.type] = "pending"
    BY <2>3 DEF NewRow, Events, EventTypes, ResultOf
  <2>5. audit' = [audit EXCEPT ![r] = Append(@, e)]
    <3>1. Append(audit[r], e) = <<e>>
      BY <2>2
    <3> HIDE DEF e
    <3>2. audit' = [audit EXCEPT ![r] = <<e>>]
      BY <2>1 DEF e
    <3> QED
      BY <1>0, <3>1, <3>2 DEF TypeOK
  <2>6. Lifecycle!MoveTo(r, "pending")
    <3>1. rows' = [rows EXCEPT ![r] = m]
      BY <2>1
    <3> HIDE DEF m, e
    <3> QED
      BY <1>0, <3>1, <2>4, <2>5, MoveMapped
  <2>7. [q \in Requests |-> rows[q].status][r] = "absent"
    BY <2>1 DEF Exists, Absent
  <2> QED
    BY <2>6, <2>7, Zenon DEF Lifecycle!Next, Lifecycle!Submit
<1> QED
  BY <1>2, <1>3, <1>4, Frame

(* However many handlers are in flight and however roles change meanwhile,  *)
(* the only commits outside the abstract life of a request are those of a   *)
(* transaction that another one has overtaken.                              *)
THEOREM WebhookMovesUnlessOvertaken == Spec => MovesUnlessOvertaken
<1> DEFINE Moved == [(\E w \in Workers : CommitRequest(w) /\ Overtaken(w))
                       \/ Lifecycle!Next]_<<rows, audit>>
<1>1. TypeInv /\ Grounded /\ AuthorisedTrail /\ [Next]_vars => Moved
  BY NextMoves
<1> QED
  BY <1>1, SpecGrounded, SpecAuthorisedTrail, PTL DEF Spec, MovesUnlessOvertaken

-----------------------------------------------------------------------------
(* One worker: nothing is overtaken.                                        *)

(* Nothing changes a row while a transaction is open.                       *)
LEMMA RowsAwait ==
  ASSUME OneWorker, TypeOK, [Next]_vars, NEW v \in Workers,
         tx'[v] = tx[v], tx[v].pc \in Moving
  PROVE  rows' = rows
<1>1. ASSUME NEW w \in Workers, CommitRequest(w) \/ CommitSubmit(w) PROVE FALSE
  <2>1. w = v /\ Become(w, Idle)
    BY <1>1 DEF OneWorker, CommitRequest, CommitSubmit
  <2>2. tx'[v] = Idle
    BY <2>1 DEF Become, TypeOK
  <2> QED
    BY <2>2 DEF Idle, Moving
<1> QED
  BY <1>1, Frame

(* Every step of the one worker keeps what transactions have read fresh.    *)
LEMMA NextFresh ==
  ASSUME OneWorker, TypeOK, Fresh, [Next]_vars
  PROVE  Fresh'
<1> SUFFICES ASSUME NEW v \in Workers PROVE FreshIn(v)'
  BY DEF Fresh
<1>0. FreshIn(v)
  BY DEF Fresh
<1>1. CASE tx'[v] = tx[v]
  BY <1>0, <1>1, RowsAwait DEF FreshIn
<1>2. CASE LoadRequest(v)
  BY <1>2, Loaded DEF FreshIn
<1>3. CASE RereadRequest(v)
  BY <1>0, <1>3, Reread DEF FreshIn, Moving
<1>4. CASE UpdateRequest(v)
  BY <1>0, <1>4, Updated DEF FreshIn, Moving
<1>5. CASE tx'[v].pc \notin Moving
  BY <1>5 DEF FreshIn
<1> QED
  BY <1>1, <1>2, <1>3, <1>4, <1>5, NotMoving

LEMMA SpecFresh == OneWorker => (Spec => [](TypeInv /\ Grounded /\ Fresh))
<1> SUFFICES ASSUME OneWorker PROVE Spec => [](TypeInv /\ Grounded /\ Fresh)
  OBVIOUS
<1>1. Init => Fresh
  BY DEF Init, Fresh, FreshIn, Moving, Idle
<1>2. TypeInv /\ Fresh /\ [Next]_vars => Fresh'
  BY NextFresh DEF TypeInv
<1> QED
  BY <1>1, <1>2, SpecGrounded, PTL DEF Spec

(* So no commit is overtaken.                                               *)
LEMMA NothingOvertaken ==
  ASSUME Fresh, NEW w \in Workers, CommitRequest(w)
  PROVE  ~ Overtaken(w)
  BY DEF Fresh, FreshIn, Moving, Overtaken, CommitRequest

-----------------------------------------------------------------------------
(* The columns of a row.                                                    *)
Agrees(m) ==
  /\ m.status \in {"approved", "rejected", "closed"} <=> m.decidedBy # Nobody
  /\ m.status = "rejected" => m.reason
  /\ m.reason => m.status \in {"rejected", "closed"}
  /\ m.answer \/ m.status = "clarification" => m.question
  /\ m.question /\ m.status # "clarification" /\ ~ m.answer
       => m.status = "cancelled"

(* An operation the table allows keeps the columns of a row in agreement.   *)
LEMMA EditedAgrees ==
  ASSUME NEW op \in RequestOps, NEW m \in Row, NEW u \in Users, Agrees(m),
         MoveAllowed(op, m.status)
  PROVE  Agrees(Edited(op, m, u))
<1> DEFINE e == Edited(op, m, u)
<1>1. u # Nobody
  BY ConstantsAssumption
<1>2. /\ e.status = TargetStatus[op]
      /\ e.decidedBy = IF op \in {"approve", "reject"} THEN u ELSE m.decidedBy
      /\ e.reason = IF op = "reject" THEN TRUE ELSE m.reason
      /\ e.question = IF op = "clarify" THEN TRUE ELSE m.question
      /\ e.answer = IF op = "answer" THEN TRUE ELSE m.answer
  BY DEF Edited, Row
<1>3. op \in {"cancel", "answer", "approve", "reject", "clarify", "close"}
  BY DEF RequestOps
<1>4. /\ op \in {"approve", "reject", "clarify"} => m.status = "pending"
      /\ op = "answer" => m.status = "clarification"
      /\ op = "cancel" => m.status \in {"pending", "clarification"}
      /\ op = "close" => m.status \in {"approved", "rejected"}
  BY <1>3 DEF MoveAllowed, TargetStatus, AdminMoves, InitiatorMoves
<1> USE DEF Agrees, TargetStatus, Row, Statuses
<1>5. CASE op = "cancel"
  BY <1>2, <1>4, <1>5
<1>6. CASE op = "close"
  BY <1>2, <1>4, <1>6
<1>7. CASE op = "answer"
  BY <1>2, <1>4, <1>7
<1>8. CASE op = "approve"
  BY <1>1, <1>2, <1>4, <1>8
<1>9. CASE op = "reject"
  BY <1>1, <1>2, <1>4, <1>9
<1>10. CASE op = "clarify"
  BY <1>2, <1>4, <1>10
<1> QED
  BY <1>3, <1>5, <1>6, <1>7, <1>8, <1>9, <1>10

(* Every step of the one worker keeps the columns in agreement.             *)
LEMMA NextColumns ==
  ASSUME TypeInv, Grounded, Fresh, ColumnsAgree, [Next]_vars
  PROVE  ColumnsAgree'
<1> SUFFICES ASSUME NEW r \in Requests, Exists(r)' PROVE Agrees(rows'[r])
  BY DEF ColumnsAgree, Agrees
<1>0. TypeOK /\ (Exists(r) => Agrees(rows[r]))
  BY DEF TypeInv, ColumnsAgree, Agrees
<1>1. CASE UNCHANGED <<rows, audit>>
  BY <1>0, <1>1 DEF Exists
<1>2. ASSUME NEW w \in Workers, CommitRequest(w) PROVE Agrees(rows'[r])
  <2>1. PICK q \in Requests, op \in RequestOps, u \in Users :
          /\ Exists(q) /\ MoveAllowed(op, rows[q].status)
          /\ rows' = [rows EXCEPT ![q] = Edited(op, rows[q], u)]
    BY <1>2, CommitMoves, NothingOvertaken
  <2>2. CASE q = r
    BY <1>0, <2>1, <2>2, EditedAgrees DEF Exists, TypeOK
  <2>3. CASE q # r
    BY <1>0, <2>1, <2>3 DEF Exists
  <2> QED
    BY <2>2, <2>3
<1>3. ASSUME NEW w \in Workers, CommitSubmit(w) PROVE Agrees(rows'[r])
  <2>1. PICK q \in Requests :
          rows' = [rows EXCEPT ![q] = NewRow(tx[w].actor, tx[w].year, tx[w].last + 1)]
    BY <1>3 DEF CommitSubmit
  <2>2. \A u, y, n : Agrees(NewRow(u, y, n))
    BY DEF Agrees, NewRow
  <2> QED
    BY <1>0, <2>1, <2>2 DEF Exists, TypeOK
<1> QED
  BY <1>1, <1>2, <1>3, Frame

(* While events are handled one at a time, the decision columns of every    *)
(* request tell the story of its status, however many questions, answers    *)
(* and decisions it has gone through.                                       *)
THEOREM PollingColumnsAgree == OneWorker => (Spec => []ColumnsAgree)
<1> SUFFICES ASSUME OneWorker PROVE Spec => []ColumnsAgree
  OBVIOUS
<1>1. Init => ColumnsAgree
  BY DEF Init, ColumnsAgree, Exists
<1>2. TypeInv /\ Grounded /\ Fresh /\ ColumnsAgree /\ [Next]_vars => ColumnsAgree'
  BY NextColumns
<1> QED
  BY <1>1, <1>2, SpecFresh, PTL DEF Spec

-----------------------------------------------------------------------------
(* Terminal statuses, and the whole abstract life of a request.             *)

(* No move of the table leaves a cancelled or closed request.               *)
LEMMA TerminalKept ==
  ASSUME TypeInv, Grounded, Fresh, [Next]_vars
  PROVE  [\A r \in Requests :
            rows[r].status \in Terminal => rows'[r].status = rows[r].status]_rows
<1> SUFFICES ASSUME NEW r \in Requests, rows[r].status \in Terminal,
                    rows'[r] # rows[r]
             PROVE  FALSE
  OBVIOUS
<1>0. TypeOK
  BY DEF TypeInv
<1>1. Exists(r)
  BY DEF Exists, Absent, Terminal, Statuses
<1>2. ASSUME NEW w \in Workers, CommitRequest(w) PROVE FALSE
  <2>1. PICK q \in Requests, op \in RequestOps, u \in Users :
          /\ MoveAllowed(op, rows[q].status)
          /\ rows' = [rows EXCEPT ![q] = Edited(op, rows[q], u)]
    BY <1>2, CommitMoves, NothingOvertaken
  <2>2. q = r
    BY <1>0, <2>1 DEF TypeOK
  <2>3. TargetStatus[op] \in Statuses
    BY DEF TargetStatus, RequestOps, Statuses
  <2> QED
    BY <2>1, <2>2, <2>3 DEF MoveAllowed, Terminal
<1>3. ASSUME NEW w \in Workers, CommitSubmit(w) PROVE FALSE
  BY <1>0, <1>1, <1>3 DEF CommitSubmit, TypeOK
<1> QED
  BY <1>2, <1>3, Frame

(* While events are handled one at a time, a cancelled or closed request    *)
(* stays so.  (With two handlers it does not.)                              *)
THEOREM PollingTerminalStable == OneWorker => (Spec => TerminalStable)
<1> SUFFICES ASSUME OneWorker PROVE Spec => TerminalStable
  OBVIOUS
<1> DEFINE Kept == [\A r \in Requests :
                      rows[r].status \in Terminal => rows'[r].status = rows[r].status]_rows
<1>1. TypeInv /\ Grounded /\ Fresh /\ [Next]_vars => Kept
  BY TerminalKept
<1> QED
  BY <1>1, SpecFresh, PTL DEF Spec, TerminalStable

(* While events are handled one at a time, the transactions of the use      *)
(* cases implement the abstract life of a request: one atomic move of the   *)
(* state machine for each, recorded in order.                               *)
THEOREM PollingImplementsLifecycle == OneWorker => (Spec => LifecycleSpec)
<1> SUFFICES ASSUME OneWorker PROVE Spec => LifecycleSpec
  OBVIOUS
<1>1. Init => Lifecycle!Init
  BY DEF Init, Lifecycle!Init, Absent
<1>2. TypeInv /\ Grounded /\ Fresh /\ AuthorisedTrail /\ [Next]_vars
        => [Lifecycle!Next]_(Lifecycle!vars)
  <2>1. UNCHANGED <<rows, audit>> => UNCHANGED Lifecycle!vars
    BY DEF Lifecycle!vars
  <2> QED
    BY <2>1, NextMoves, NothingOvertaken
<1> QED
  BY <1>1, <1>2, SpecFresh, SpecAuthorisedTrail, PTL
     DEF Spec, LifecycleSpec, Lifecycle!Spec
-----------------------------------------------------------------------------
(* Submissions and drafts.                                                  *)

(* Past its checks a submission still has the draft it is made of, and its  *)
(* commit will delete it.                                                   *)
HasDraft(w) ==
  /\ tx[w].pc \in {"drafted", "numbered", "inserted"} => tx[w].actor \in draft
  /\ tx[w].pc = "inserted" => tx[w].hasDraft

DraftsHeld == \A w \in Workers : HasDraft(w)

(* Drafts change in the wizard and in the commit of a submission.           *)
LEMMA DraftFrame ==
  ASSUME [Next]_vars
  PROVE  draft' = draft \/ \E w \in Workers : CommitSubmit(w) \/ WizardStep(w)
  BY DEF Next, Advance, vars, dbVars, Receive, LoadRequest, RereadRequest,
         UpdateRequest, CommitRequest, LoadDraft, ReadNumber, InsertRequest,
         LoadConsent, RereadConsent, CommitConsent, LoadTarget, CommitRole,
         Refuse, RollBack,
         NewYear

(* The one worker touches no draft while a submission is under way.         *)
LEMMA DraftsAwait ==
  ASSUME OneWorker, TypeOK, [Next]_vars, NEW v \in Workers, tx'[v] # Idle
  PROVE  draft' = draft
<1>1. ASSUME NEW w \in Workers, CommitSubmit(w) \/ WizardStep(w) PROVE FALSE
  <2>1. w = v
    BY DEF OneWorker
  <2>2. tx'[v] = Idle
    BY <1>1, <2>1 DEF CommitSubmit, WizardStep, Become, TypeOK
  <2> QED
    BY <2>2
<1> QED
  BY <1>1, DraftFrame

(* Every step of the one worker keeps the draft of a submission.            *)
LEMMA NextHasDraft ==
  ASSUME OneWorker, TypeInv, DraftsHeld, [Next]_vars
  PROVE  DraftsHeld'
<1> SUFFICES ASSUME NEW v \in Workers PROVE HasDraft(v)'
  BY DEF DraftsHeld
<1>0. HasDraft(v) /\ TypeOK
  BY DEF DraftsHeld, TypeInv
<1>1. CASE tx'[v].pc \notin {"drafted", "numbered", "inserted"}
  BY <1>1 DEF HasDraft
<1>2. CASE tx'[v].pc \in {"drafted", "numbered", "inserted"}
  <2>1. draft' = draft
    BY <1>0, <1>2, DraftsAwait DEF Idle
  <2>2. CASE tx'[v] = tx[v]
    BY <1>0, <2>1, <2>2 DEF HasDraft
  <2>3. CASE LoadDraft(v)
    <3>1. /\ tx[v].actor \in draft /\ tx'[v].pc = "drafted"
          /\ tx'[v].actor = tx[v].actor
      BY <1>0, <2>3 DEF LoadDraft, MaySubmit, Become, TypeOK
    <3> QED
      BY <2>1, <3>1 DEF HasDraft
  <2>4. CASE ReadNumber(v)
    <3>1. /\ tx[v].pc = "drafted" /\ tx'[v].pc = "numbered"
          /\ tx'[v].actor = tx[v].actor
      BY <1>0, <2>4 DEF ReadNumber, Become, TypeOK
    <3> QED
      BY <1>0, <2>1, <3>1 DEF HasDraft
  <2>5. CASE InsertRequest(v)
    <3>1. /\ tx[v].pc = "numbered"
          /\ tx'[v] = [pc |-> "inserted", op |-> "submit", actor |-> tx[v].actor,
                       year |-> tx[v].year, last |-> tx[v].last,
                       hasDraft |-> tx[v].actor \in draft]
      BY <1>0, <1>2, <2>5 DEF InsertRequest, Become, Idle, TypeOK
    <3>2. /\ tx'[v].actor = tx[v].actor
          /\ tx'[v].hasDraft = (tx[v].actor \in draft)
      BY <3>1
    <3> QED
      BY <1>0, <2>1, <3>1, <3>2 DEF HasDraft
  <2>6. LoadRequest(v) \/ RereadRequest(v) => tx'[v].pc \in {"loaded", "reread"}
    BY <1>0 DEF LoadRequest, RereadRequest, Become, TypeOK
  <2>7. ASSUME UpdateRequest(v) PROVE FALSE
    <3>1. tx[v] \in [pc : {"reread", "updated"}, op : RequestOps, actor : Users,
                     target : Requests, read : Row, entity : Row, base : Row]
      BY <1>0, <2>7, Shapes DEF UpdateRequest, TypeOK
    <3>2. tx'[v] = [tx[v] EXCEPT !.pc = "updated"]
      BY <1>0, <2>7, BecomeOthers DEF UpdateRequest, TypeOK
    <3> QED
      BY <1>2, <3>1, <3>2
  <2>8. LoadConsent(v) \/ RereadConsent(v) => tx'[v].pc \in {"checked", "recording"}
    BY <1>0 DEF LoadConsent, RereadConsent, Become, TypeOK
  <2>9. CASE tx'[v].pc = "drafted"
    BY <1>0, <2>2, <2>3, <2>8, <2>9, Checks
  <2> QED
    BY <1>0, <1>2, <2>2, <2>4, <2>5, <2>6, <2>7, <2>9, Moves
<1> QED
  BY <1>1, <1>2

(* A request appears by the commit of a submission, which deletes the draft *)
(* it was made of.                                                          *)
LEMMA CreationConsumes ==
  ASSUME TypeInv, DraftsHeld, [Next]_vars, NEW r \in Requests, ~ Exists(r), Exists(r)'
  PROVE  rows'[r].initiator \in draft /\ rows'[r].initiator \notin draft'
<1>0. TypeOK
  BY DEF TypeInv
<1>1. rows'[r] # rows[r]
  BY DEF Exists
<1>2. ASSUME NEW w \in Workers, CommitRequest(w) PROVE FALSE
  <2>1. Exists(tx[w].target)
    BY <1>2 DEF CommitRequest, TypeInv, TargetsExist, TargetExists
  <2> QED
    BY <1>0, <1>1, <1>2, <2>1 DEF CommitRequest, TypeOK
<1>3. PICK w \in Workers : CommitSubmit(w)
  BY <1>1, <1>2, Frame
<1>4. tx[w].actor \in draft /\ tx[w].hasDraft
  BY <1>3 DEF CommitSubmit, DraftsHeld, HasDraft
<1>5. draft' = draft \ {tx[w].actor}
  BY <1>3, <1>4 DEF CommitSubmit
<1>6. rows'[r] = NewRow(tx[w].actor, tx[w].year, tx[w].last + 1)
  BY <1>0, <1>1, <1>3 DEF CommitSubmit, TypeOK
<1> QED
  BY <1>4, <1>5, <1>6 DEF NewRow

(* While events are handled one at a time, every request uses up a          *)
(* completed draft of its initiator: one wizard makes one request.          *)
THEOREM PollingSubmitConsumesDraft == OneWorker => (Spec => SubmitConsumesDraft)
<1> SUFFICES ASSUME OneWorker PROVE Spec => SubmitConsumesDraft
  OBVIOUS
<1> DEFINE Consumed == [\A r \in Requests :
                          ~ Exists(r) /\ Exists(r)' =>
                            /\ rows'[r].initiator \in draft
                            /\ rows'[r].initiator \notin draft']_vars
<1>1. Init => DraftsHeld
  BY DEF Init, DraftsHeld, HasDraft, Idle
<1>2. TypeInv /\ DraftsHeld /\ [Next]_vars => DraftsHeld' /\ Consumed
  BY NextHasDraft, CreationConsumes
<1> QED
  BY <1>1, <1>2, SpecFresh, PTL DEF Spec, SubmitConsumesDraft
=============================================================================
