---------------------- MODULE PassRequestsAuditProofs ----------------------
(***************************************************************************)
(* Proofs about the audit trail of PassRequests: who may be recorded, and   *)
(* that no status, signature, reason, question or answer is without a       *)
(* record, for any number of handlers.                                      *)
(***************************************************************************)
EXTENDS PassRequestsProofs, FiniteSetTheorems

(* What an actor needs for an operation on request r.                       *)
Entitled(op, u, r) ==
  IF op \in {"cancel", "answer"} THEN u = rows[r].initiator
                                 ELSE role[u] \in AdminRoles

(* A role read earlier is not too generous now, and a transaction past its  *)
(* checks still has the entitlement they established.                       *)
Rights(w) ==
  /\ tx[w].pc = "resolved" /\ tx[w].role \in AdminRoles
       => role[tx[w].actor] \in AdminRoles
  /\ tx[w].pc \in {"loaded", "reread", "updated"}
       => /\ Entitled(tx[w].op, tx[w].actor, tx[w].target)
          /\ tx[w].entity.status = TargetStatus[tx[w].op]

AuditInv == /\ \A w \in Workers : Rights(w)
            /\ AuthorisedTrail
            /\ StatusAudited

-----------------------------------------------------------------------------
(* Roles.                                                                   *)

(* No step takes an administrator's right away (set_role, which is only     *)
(* called with Role.ADMIN).                                                 *)
LEMMA AdminsGrow ==
  ASSUME TypeOK, [Next]_vars, NEW u \in Users, role[u] \in AdminRoles
  PROVE  role'[u] \in AdminRoles
<1>1. ASSUME NEW w \in Workers, CommitRole(w) PROVE role'[u] \in AdminRoles
  BY <1>1 DEF CommitRole, AdminRoles, TypeOK
<1>2. (\A w \in Workers : ~ CommitRole(w)) => role' = role
  BY DEF Next, Advance, vars, dbVars, Receive, LoadRequest, RereadRequest,
         UpdateRequest, CommitRequest, LoadDraft, ReadNumber, InsertRequest,
         CommitSubmit, LoadConsent, RereadConsent, CommitConsent, LoadTarget,
         Refuse, RollBack, WizardStep, NewYear
<1> QED
  BY <1>1, <1>2

-----------------------------------------------------------------------------
(* Transactions.                                                            *)

(* Only the arrival of an event makes a transaction read a role.            *)
LEMMA Resolves ==
  ASSUME TypeOK, [Next]_vars, NEW v \in Workers, tx'[v].pc = "resolved"
  PROVE  tx'[v] = tx[v] \/ Receive(v)
<1> USE DEF TypeOK
<1>1. ASSUME NEW w \in Workers, Receive(w) PROVE tx'[v] = tx[v] \/ v = w
  <2>1. PICK x : Become(w, x)
    BY <1>1 DEF Receive
  <2> QED
    BY <2>1, BecomeOthers
<1>2. ASSUME NEW w \in Workers, Advance(w) \/ RollBack(w) PROVE tx'[v] = tx[v]
  <2>1. PICK x : Become(w, x) /\ x.pc # "resolved"
    <3>1. CASE UpdateRequest(w)
      <4>1. tx[w] \in [pc : {"reread", "updated"}, op : RequestOps, actor : Users,
                       target : Requests, read : Row, entity : Row, base : Row]
        BY <3>1, Shapes DEF UpdateRequest
      <4>2. [tx[w] EXCEPT !.pc = "updated"].pc # "resolved"
        BY <4>1
      <4> QED
        BY <3>1, <4>2 DEF UpdateRequest
    <3>2. CASE InsertRequest(w)
      BY <3>2 DEF InsertRequest, Idle
    <3>3. CASE ~ UpdateRequest(w) /\ ~ InsertRequest(w)
      BY <1>2, <3>3 DEF Advance, LoadRequest, RereadRequest, CommitRequest,
         LoadDraft, ReadNumber, CommitSubmit, LoadConsent, RereadConsent, CommitConsent,
         LoadTarget, CommitRole, Refuse, RollBack, Idle
    <3> QED
      BY <3>1, <3>2, <3>3
  <2> QED
    BY <2>1, BecomeOthers
<1>3. ASSUME NEW w \in Workers, WizardStep(w) PROVE tx'[v] = tx[v]
  BY <1>3 DEF WizardStep
<1>4. NewYear \/ UNCHANGED vars => tx'[v] = tx[v]
  BY DEF NewYear, vars
<1> QED
  BY <1>1, <1>2, <1>3, <1>4 DEF Next

(* The checks of an execute() establish the entitlement of its actor.       *)
LEMMA ChecksEntitle ==
  ASSUME TypeInv, NEW v \in Workers, Rights(v), LoadRequest(v)
  PROVE  /\ Entitled(tx[v].op, tx[v].actor, tx[v].target)
         /\ Edited(tx[v].op, rows[tx[v].target], tx[v].actor).status
              = TargetStatus[tx[v].op]
<1>1. /\ tx[v].pc = "resolved" /\ tx[v].op \in RequestOps
      /\ tx[v].target \in Requests /\ rows[tx[v].target] \in Row
  BY Shapes DEF LoadRequest, Exists, TypeInv, TypeOK
<1>2. Permitted(tx[v].op, rows[tx[v].target], tx[v].actor, tx[v].role)
  BY DEF LoadRequest
<1>3. Entitled(tx[v].op, tx[v].actor, tx[v].target)
  BY <1>1, <1>2 DEF Permitted, MayCancel, MayAnswer, MayDecide, MayClose,
     RequireAdmin, Entitled, Rights, RequestOps
<1>4. Edited(tx[v].op, rows[tx[v].target], tx[v].actor).status
        = TargetStatus[tx[v].op]
  BY <1>1 DEF Edited, Row
<1> QED
  BY <1>3, <1>4

(* Every step keeps what the transactions know of their rights: roles only  *)
(* grow and a request is never handed over.                                 *)
LEMMA NextRights ==
  ASSUME TypeInv, [Next]_vars, NEW v \in Workers, Rights(v)
  PROVE  Rights(v)'
<1> USE DEF TypeInv, TypeOK
<1>1. CASE tx'[v] = tx[v]
  <2>1. CASE tx[v].pc = "resolved"
    <3>1. tx[v].actor \in Users
      BY <2>1, Shapes
    <3> QED
      BY <1>1, <2>1, <3>1, AdminsGrow DEF Rights
  <2>2. CASE tx[v].pc \in {"loaded", "reread", "updated"}
    <3>1. tx[v].actor \in Users /\ tx[v].target \in Requests
      BY <2>2, Shapes
    <3>2. rows'[tx[v].target].initiator = rows[tx[v].target].initiator
      BY <2>2, <3>1, RowsPermanent DEF TargetsExist, TargetExists
    <3>3. Entitled(tx[v].op, tx[v].actor, tx[v].target)
            => Entitled(tx[v].op, tx[v].actor, tx[v].target)'
      BY <1>1, <3>1, <3>2, AdminsGrow DEF Entitled
    <3> QED
      BY <1>1, <2>2, <3>3 DEF Rights
  <2> QED
    BY <1>1, <2>1, <2>2 DEF Rights
<1>2. CASE Receive(v)
  <2>1. PICK u \in Users, op \in Operations : \E g \in Targets(op) :
          Become(v, [pc |-> "resolved", op |-> op, actor |-> u,
                     role |-> role[u], target |-> g])
    BY <1>2 DEF Receive
  <2>2. /\ tx'[v].pc = "resolved" /\ tx'[v].actor = u /\ tx'[v].role = role[u]
        /\ role' = role
    BY <1>2, <2>1 DEF Become, Receive, dbVars
  <2> QED
    BY <2>2 DEF Rights
<1>3. CASE LoadRequest(v)
  <2>1. /\ rows' = rows /\ role' = role
        /\ tx'[v] = [pc |-> "loaded", op |-> tx[v].op, actor |-> tx[v].actor,
                     target |-> tx[v].target, read |-> rows[tx[v].target],
                     entity |-> Edited(tx[v].op, rows[tx[v].target], tx[v].actor)]
    BY <1>3 DEF LoadRequest, Become, dbVars
  <2>2. /\ tx'[v].pc = "loaded" /\ tx'[v].op = tx[v].op
        /\ tx'[v].actor = tx[v].actor /\ tx'[v].target = tx[v].target
        /\ tx'[v].entity = Edited(tx[v].op, rows[tx[v].target], tx[v].actor)
    BY <2>1
  <2>3. /\ Entitled(tx[v].op, tx[v].actor, tx[v].target)
        /\ Edited(tx[v].op, rows[tx[v].target], tx[v].actor).status
             = TargetStatus[tx[v].op]
    BY <1>3, ChecksEntitle
  <2> QED
    BY <2>1, <2>2, <2>3 DEF Rights, Entitled
<1>4. CASE RereadRequest(v)
  <2>1. /\ rows' = rows /\ role' = role /\ tx[v].pc = "loaded"
        /\ tx'[v].op = tx[v].op /\ tx'[v].actor = tx[v].actor
        /\ tx'[v].target = tx[v].target /\ tx'[v].entity = tx[v].entity
        /\ tx'[v].pc = "reread"
    BY <1>4 DEF RereadRequest, Become, dbVars
  <2> QED
    BY <2>1 DEF Rights, Entitled
<1>5. CASE UpdateRequest(v)
  <2>1. tx[v] \in [pc : {"reread", "updated"}, op : RequestOps, actor : Users,
                   target : Requests, read : Row, entity : Row, base : Row]
    BY <1>5, Shapes DEF UpdateRequest
  <2>2. /\ tx'[v] = [tx[v] EXCEPT !.pc = "updated"]
        /\ rows' = rows /\ role' = role /\ tx[v].pc = "reread"
    BY <1>5, BecomeOthers DEF UpdateRequest, dbVars
  <2>3. /\ tx'[v].op = tx[v].op /\ tx'[v].actor = tx[v].actor
        /\ tx'[v].target = tx[v].target /\ tx'[v].entity = tx[v].entity
        /\ tx'[v].pc = "updated"
    BY <2>1, <2>2
  <2> QED
    BY <2>2, <2>3 DEF Rights, Entitled
<1>6. CASE ReadNumber(v) \/ InsertRequest(v)
  <2>1. tx'[v].pc \in {"numbered", "inserted", "idle"}
    BY <1>6 DEF ReadNumber, InsertRequest, Become, Idle
  <2> QED
    BY <2>1 DEF Rights
<1>7. CASE tx'[v].pc \notin {"resolved", "loaded", "reread", "updated"}
  BY <1>7 DEF Rights
<1> QED
  BY <1>1, <1>2, <1>3, <1>4, <1>5, <1>6, <1>7, Moves, Resolves

-----------------------------------------------------------------------------
(* Trails.                                                                  *)

(* Appending an event leaves the earlier ones and puts it last.             *)
LEMMA AppendAt ==
  ASSUME NEW S, NEW s \in Seq(S), NEW e \in S
  PROVE  /\ Len(Append(s, e)) = Len(s) + 1
         /\ \A i \in 1..Len(s) : Append(s, e)[i] = s[i]
         /\ Append(s, e)[Len(s) + 1] = e
  OBVIOUS

(* What is in a sequence comes from its set.                                *)
LEMMA ElementType ==
  ASSUME NEW S, NEW s \in Seq(S), NEW i \in 1..Len(s)
  PROVE  s[i] \in S
  OBVIOUS

(* A request's trail has its events by the right people, the submission     *)
(* first: AuthorisedTrail for one request.                                  *)
TrailOf(r) ==
  /\ Exists(r) => audit[r] # << >>
  /\ \A i \in 1..Len(audit[r]) :
       LET e == audit[r][i] IN
       /\ Exists(r)
       /\ IF e.type \in OwnEvents THEN e.actor = rows[r].initiator
                                  ELSE role[e.actor] \in AdminRoles
       /\ e.type = "submitted" <=> i = 1

(* The status is one that an event of the trail accounts for: StatusAudited *)
(* for one request.                                                         *)
StatusOf(r) ==
  Exists(r) => \E i \in 1..Len(audit[r]) :
                 rows[r].status = ResultOf[audit[r][i].type]

(* A commit that leaves a request alone leaves its trail in order.          *)
LEMMA OtherTrails ==
  ASSUME TypeInv, [Next]_vars, NEW r \in Requests, TrailOf(r), StatusOf(r),
         rows'[r] = rows[r], audit'[r] = audit[r]
  PROVE  TrailOf(r)' /\ StatusOf(r)'
<1>1. \A i \in 1..Len(audit[r]) : audit[r][i].actor \in Users
  <2> DEFINE S == [type : EventTypes, actor : Users]
  <2>1. audit[r] \in Seq(S)
    BY DEF TypeInv, TypeOK
  <2> HIDE DEF S
  <2>2. \A i \in 1..Len(audit[r]) : audit[r][i] \in S
    BY <2>1, ElementType
  <2> QED
    BY <2>2 DEF S
<1>2. \A i \in 1..Len(audit[r]) :
        role[audit[r][i].actor] \in AdminRoles => role'[audit[r][i].actor] \in AdminRoles
  BY <1>1, AdminsGrow DEF TypeInv
<1>3. Exists(r)' = Exists(r)
  BY DEF Exists
<1> QED
  BY <1>2, <1>3 DEF TrailOf, StatusOf

(* The commit of an operation records its actor, who is entitled to it, and *)
(* leaves a status that some event of the trail stands for: the operation's *)
(* own, or the one already there.                                           *)
LEMMA CommittedTrail ==
  ASSUME TypeInv, [Next]_vars, NEW w \in Workers, CommitRequest(w), Rights(w),
         NEW r \in Requests, r = tx[w].target, TrailOf(r), StatusOf(r)
  PROVE  TrailOf(r)' /\ StatusOf(r)'
<1> DEFINE e == [type |-> EventOf[tx[w].op], actor |-> tx[w].actor]
           S == [type : EventTypes, actor : Users]
<1>1. /\ tx[w].pc = "updated" /\ tx[w].op \in RequestOps
      /\ tx[w].actor \in Users /\ tx[w].entity \in Row /\ tx[w].base \in Row
  BY Shapes DEF CommitRequest, TypeInv, TypeOK
<1>2. Exists(r) /\ rows[r] \in Row
  BY <1>1 DEF TypeInv, TypeOK, TargetsExist, TargetExists, Exists
<1>3. Exists(r)' /\ rows'[r].initiator = rows[r].initiator
  BY <1>2, RowsPermanent
<1>4. /\ audit[r] \in Seq(S) /\ e \in S
      /\ audit'[r] = Append(audit[r], e)
      /\ rows'[r] = Merged(rows[r], tx[w].entity, tx[w].base)
      /\ role' = role
  <2>1. audit[r] \in Seq(S)
    BY DEF TypeInv, TypeOK
  <2>2. e \in S
    BY <1>1 DEF EventOf, EventTypes, RequestOps
  <2>3. /\ audit'[r] = Append(audit[r], e)
        /\ rows'[r] = Merged(rows[r], tx[w].entity, tx[w].base)
        /\ role' = role
    <3> HIDE DEF S
    <3> QED
      BY DEF CommitRequest, TypeInv, TypeOK
  <2> QED
    BY <2>1, <2>2, <2>3
<1>5. /\ e.type # "submitted"
      /\ e.type \in OwnEvents <=> tx[w].op \in {"cancel", "answer"}
      /\ ResultOf[e.type] = TargetStatus[tx[w].op]
  BY <1>1 DEF EventOf, OwnEvents, ResultOf, TargetStatus, RequestOps
<1>6. /\ Entitled(tx[w].op, tx[w].actor, r)
      /\ tx[w].entity.status = TargetStatus[tx[w].op]
  BY <1>1 DEF Rights
<1> HIDE DEF S
<1>7. /\ Len(audit'[r]) = Len(audit[r]) + 1
      /\ \A i \in 1..Len(audit[r]) : audit'[r][i] = audit[r][i]
      /\ audit'[r][Len(audit[r]) + 1] = e
      /\ Len(audit[r]) \in Nat
  BY <1>4, AppendAt
<1>8. Len(audit[r]) >= 1
  BY <1>2, <1>4, <1>7 DEF TrailOf
<1>9. e.actor = tx[w].actor
  OBVIOUS
<1> HIDE DEF e
<1>10. IF e.type \in OwnEvents THEN e.actor = rows'[r].initiator
                               ELSE role'[e.actor] \in AdminRoles
  BY <1>3, <1>4, <1>5, <1>6, <1>9 DEF Entitled
<1>11. ASSUME NEW i \in 1..Len(audit'[r])
       PROVE  /\ IF audit'[r][i].type \in OwnEvents
                 THEN audit'[r][i].actor = rows'[r].initiator
                 ELSE role'[audit'[r][i].actor] \in AdminRoles
              /\ audit'[r][i].type = "submitted" <=> i = 1
  <2>1. CASE i \in 1..Len(audit[r])
    <3>1. audit'[r][i] = audit[r][i]
      BY <1>7, <2>1
    <3>2. /\ IF audit[r][i].type \in OwnEvents
             THEN audit[r][i].actor = rows[r].initiator
             ELSE role[audit[r][i].actor] \in AdminRoles
          /\ audit[r][i].type = "submitted" <=> i = 1
      BY <2>1 DEF TrailOf
    <3> QED
      BY <1>3, <1>4, <3>1, <3>2
  <2>2. CASE i = Len(audit[r]) + 1
    <3>1. audit'[r][i] = e /\ i # 1
      BY <1>7, <1>8, <2>2
    <3> QED
      BY <1>5, <1>10, <3>1
  <2>3. i \in 1..Len(audit[r]) \/ i = Len(audit[r]) + 1
    BY <1>7
  <2> QED
    BY <2>1, <2>2, <2>3
<1>12. audit'[r] # << >>
  BY <1>7, <1>8
<1>13. TrailOf(r)'
  BY <1>3, <1>11, <1>12 DEF TrailOf
<1>14. \/ rows'[r].status = rows[r].status
       \/ rows'[r].status = tx[w].entity.status
  BY <1>2, <1>4 DEF Merged, Row
<1>15. CASE rows'[r].status = rows[r].status
  <2>1. PICK i \in 1..Len(audit[r]) : rows[r].status = ResultOf[audit[r][i].type]
    BY <1>2 DEF StatusOf
  <2>2. i \in 1..Len(audit'[r]) /\ audit'[r][i] = audit[r][i]
    BY <1>7
  <2> QED
    BY <1>13, <1>15, <2>1, <2>2 DEF StatusOf
<1>16. CASE rows'[r].status = tx[w].entity.status
  <2>1. Len(audit[r]) + 1 \in 1..Len(audit'[r])
    BY <1>7
  <2>2. rows'[r].status = ResultOf[audit'[r][Len(audit[r]) + 1].type]
    BY <1>5, <1>6, <1>7, <1>16
  <2> QED
    BY <1>13, <2>1, <2>2 DEF StatusOf
<1> QED
  BY <1>14, <1>15, <1>16

(* A submission starts a trail with itself.                                 *)
LEMMA SubmittedTrail ==
  ASSUME TypeInv, NEW w \in Workers, tx[w].pc = "inserted",
         NEW r \in Requests,
         rows'[r] = NewRow(tx[w].actor, tx[w].year, tx[w].last + 1),
         audit'[r] = <<[type |-> "submitted", actor |-> tx[w].actor]>>
  PROVE  TrailOf(r)' /\ StatusOf(r)'
<1>1. /\ rows'[r].initiator = tx[w].actor /\ rows'[r].status = "pending"
      /\ rows'[r] # Absent
  BY DEF NewRow, Absent
<1>2. /\ Len(audit'[r]) = 1 /\ audit'[r] # << >>
      /\ audit'[r][1].type = "submitted" /\ audit'[r][1].actor = tx[w].actor
  OBVIOUS
<1>3. TrailOf(r)'
  BY <1>1, <1>2 DEF TrailOf, Exists, OwnEvents
<1>4. StatusOf(r)'
  BY <1>1, <1>2 DEF StatusOf, ResultOf
<1> QED
  BY <1>3, <1>4

(* Every step keeps every trail in order.                                   *)
LEMMA NextTrails ==
  ASSUME TypeInv, [Next]_vars, \A w \in Workers : Rights(w),
         NEW r \in Requests, TrailOf(r), StatusOf(r)
  PROVE  TrailOf(r)' /\ StatusOf(r)'
<1>1. CASE UNCHANGED <<rows, audit>>
  BY <1>1, OtherTrails
<1>2. ASSUME NEW w \in Workers, CommitRequest(w)
      PROVE  TrailOf(r)' /\ StatusOf(r)'
  <2>1. CASE r = tx[w].target
    BY <1>2, <2>1, CommittedTrail
  <2>2. CASE r # tx[w].target
    <3>1. rows'[r] = rows[r] /\ audit'[r] = audit[r]
      BY <1>2, <2>2 DEF CommitRequest, TypeInv, TypeOK
    <3> QED
      BY <3>1, OtherTrails
  <2> QED
    BY <2>1, <2>2
<1>3. ASSUME NEW w \in Workers, CommitSubmit(w)
      PROVE  TrailOf(r)' /\ StatusOf(r)'
  <2>1. PICK q \in Requests :
          /\ rows' = [rows EXCEPT ![q] =
                         NewRow(tx[w].actor, tx[w].year, tx[w].last + 1)]
          /\ audit' = [audit EXCEPT ![q] =
                         <<[type |-> "submitted", actor |-> tx[w].actor]>>]
    BY <1>3 DEF CommitSubmit
  <2>2. CASE r = q
    <3>1. /\ rows'[r] = NewRow(tx[w].actor, tx[w].year, tx[w].last + 1)
          /\ audit'[r] = <<[type |-> "submitted", actor |-> tx[w].actor]>>
          /\ tx[w].pc = "inserted"
      BY <1>3, <2>1, <2>2 DEF TypeInv, TypeOK, CommitSubmit
    <3> QED
      BY <3>1, SubmittedTrail
  <2>3. CASE r # q
    <3>1. rows'[r] = rows[r] /\ audit'[r] = audit[r]
      BY <2>1, <2>3 DEF TypeInv, TypeOK
    <3> QED
      BY <3>1, OtherTrails
  <2> QED
    BY <2>2, <2>3
<1> QED
  BY <1>1, <1>2, <1>3, Frame

(* With no requests there are no trails.                                    *)
LEMMA InitAudit == Init => AuditInv
  BY DEF Init, AuditInv, Rights, AuthorisedTrail, StatusAudited, Exists, Idle

(* Every step keeps rights and trails.                                      *)
LEMMA NextAudit == TypeInv /\ AuditInv /\ [Next]_vars => AuditInv'
<1> SUFFICES ASSUME TypeInv, AuditInv, [Next]_vars PROVE AuditInv'
  OBVIOUS
<1>1. \A w \in Workers : Rights(w)'
  BY NextRights DEF AuditInv
<1>2. \A r \in Requests : TrailOf(r) /\ StatusOf(r)
  BY DEF AuditInv, AuthorisedTrail, StatusAudited, TrailOf, StatusOf
<1>3. \A r \in Requests : TrailOf(r)' /\ StatusOf(r)'
  BY <1>2, NextTrails DEF AuditInv
<1>4. AuthorisedTrail'
  BY <1>3 DEF AuthorisedTrail, TrailOf
<1>5. StatusAudited'
  BY <1>3 DEF StatusAudited, StatusOf
<1> QED
  BY <1>1, <1>4, <1>5 DEF AuditInv

(* The invariant of the audit trail, together with the types.               *)
LEMMA SpecAuditInv == Spec => []AuditInv
<1>1. Init => TypeInv /\ AuditInv
  BY InitType, InitTargets, InitAudit DEF TypeInv
<1>2. TypeInv /\ AuditInv /\ [Next]_vars => (TypeInv /\ AuditInv)'
  BY NextType, NextTargets, NextAudit DEF TypeInv
<1> QED
  BY <1>1, <1>2, PTL DEF Spec

(* Whatever handlers run at once and however roles change meanwhile, the    *)
(* trail only names people entitled to what it says they did, although      *)
(* use cases judge the role of a user by what an earlier transaction read.  *)
THEOREM SpecAuthorisedTrail == Spec => []AuthorisedTrail
  BY SpecAuditInv, PTL DEF AuditInv

(* Even where two handlers overwrite each other's decision, the status that *)
(* is left is one that some audit event of the request accounts for.        *)
THEOREM SpecStatusAudited == Spec => []StatusAudited
  BY SpecAuditInv, PTL DEF AuditInv

-----------------------------------------------------------------------------
(* Columns.                                                                 *)

(* The event a transaction will record.                                     *)
OwnEvent(t) == [type |-> EventOf[t.op], actor |-> t.actor]

(* What a transaction's entity says has happened is in the trail of its     *)
(* request, or will be with the transaction's own event.                    *)
Accounts(w) ==
  tx[w].pc \in {"loaded", "reread", "updated"} =>
    Accounted(tx[w].entity, TrailEvents(tx[w].target) \cup {OwnEvent(tx[w])})

ColumnsInv == ColumnsAudited /\ \A w \in Workers : Accounts(w)

(* More events account for all that fewer do.                               *)
LEMMA AccountedGrows ==
  ASSUME NEW m, NEW E, NEW F, E \subseteq F, Accounted(m, E)
  PROVE  Accounted(m, F)
  BY DEF Accounted

(* An operation changes the columns that its own event accounts for.        *)
LEMMA EditedAccounted ==
  ASSUME NEW op \in RequestOps, NEW m \in Row, NEW u \in Users, NEW E, NEW e,
         e.type = EventOf[op], e.actor = u,
         op = "answer" => u = m.initiator,
         Accounted(m, E)
  PROVE  Accounted(Edited(op, m, u), E \cup {e})
<1> DEFINE n == Edited(op, m, u)
<1>1. /\ n.initiator = m.initiator
      /\ n.decidedBy = IF op \in {"approve", "reject"} THEN u ELSE m.decidedBy
      /\ n.reason = IF op = "reject" THEN TRUE ELSE m.reason
      /\ n.question = IF op = "clarify" THEN TRUE ELSE m.question
      /\ n.answer = IF op = "answer" THEN TRUE ELSE m.answer
  BY DEF Edited, Row
<1>2. /\ op = "approve" => e.type = "approved"
      /\ op = "reject" => e.type = "rejected"
      /\ op = "clarify" => e.type = "clarification_requested"
      /\ op = "answer" => e.type = "clarification_answered"
  BY DEF EventOf
<1>3. Accounted(m, E \cup {e})
  BY AccountedGrows
<1> HIDE DEF n
<1>4. n.decidedBy # Nobody =>
        \E x \in E \cup {e} : x.type \in {"approved", "rejected"}
                              /\ x.actor = n.decidedBy
  BY <1>1, <1>2, <1>3 DEF Accounted
<1>5. n.reason => \E x \in E \cup {e} : x.type = "rejected"
  BY <1>1, <1>2, <1>3 DEF Accounted
<1>6. n.question => \E x \in E \cup {e} : x.type = "clarification_requested"
  BY <1>1, <1>2, <1>3 DEF Accounted
<1>7. n.answer => \E x \in E \cup {e} : x.type = "clarification_answered"
                                       /\ x.actor = n.initiator
  BY <1>1, <1>2, <1>3 DEF Accounted
<1>8. Accounted(n, E \cup {e})
  BY <1>4, <1>5, <1>6, <1>7 DEF Accounted
<1> QED
  BY <1>8 DEF n

(* Each column save() leaves is the committed one or the entity's.          *)
LEMMA MergedAccounted ==
  ASSUME NEW c \in Row, NEW e \in Row, NEW b \in Row, NEW E,
         e.initiator = c.initiator, b.initiator = c.initiator,
         Accounted(c, E), Accounted(e, E)
  PROVE  Accounted(Merged(c, e, b), E)
<1> DEFINE n == Merged(c, e, b)
<1>1. /\ n.decidedBy \in {c.decidedBy, e.decidedBy}
      /\ n.reason \in {c.reason, e.reason}
      /\ n.question \in {c.question, e.question}
      /\ n.answer \in {c.answer, e.answer}
      /\ n.initiator = c.initiator
  BY DEF Merged, Row
<1> HIDE DEF n
<1>2. Accounted(n, E)
  BY <1>1 DEF Accounted
<1> QED
  BY <1>2 DEF n

(* The commit of an operation adds its event to the trail of its request.   *)
LEMMA CommitAdds ==
  ASSUME TypeInv, NEW w \in Workers, CommitRequest(w),
         NEW r \in Requests, r = tx[w].target
  PROVE  TrailEvents(r)' = TrailEvents(r) \cup {OwnEvent(tx[w])}
<1> DEFINE e == OwnEvent(tx[w])
           S == [type : EventTypes, actor : Users]
<1>1. tx[w].op \in RequestOps /\ tx[w].actor \in Users
  BY Shapes DEF CommitRequest, TypeInv, TypeOK
<1>2. audit[r] \in Seq(S)
  BY <1>1 DEF TypeInv, TypeOK
<1>3. e \in S
  BY <1>1 DEF OwnEvent, EventOf, EventTypes, RequestOps
<1>4. audit'[r] = Append(audit[r], e)
  <2>1. audit' = [audit EXCEPT ![r] = Append(@, e)] /\ DOMAIN audit = Requests
    BY DEF CommitRequest, OwnEvent, TypeInv, TypeOK
  <2> HIDE DEF e, S
  <2> QED
    BY <2>1
<1> DEFINE a == audit[r]
<1>5. {Append(a, e)[i] : i \in 1..Len(Append(a, e))}
        = {a[i] : i \in 1..Len(a)} \cup {e}
  <2> HIDE DEF a, e, S
  <2>1. a \in Seq(S)
    BY <1>2 DEF a
  <2>2. /\ Len(Append(a, e)) = Len(a) + 1 /\ Len(a) \in Nat
        /\ \A i \in 1..Len(a) : Append(a, e)[i] = a[i]
        /\ Append(a, e)[Len(a) + 1] = e
    BY <1>3, <2>1, AppendAt
  <2> DEFINE b == Append(a, e)
  <2> HIDE DEF b
  <2>3. 1..Len(b) = 1..Len(a) \cup {Len(a) + 1}
    BY <2>2 DEF b
  <2>4. {b[i] : i \in 1..Len(b)} = {b[i] : i \in 1..Len(a)} \cup {b[Len(a) + 1]}
    BY <2>3
  <2>5. {b[i] : i \in 1..Len(a)} = {a[i] : i \in 1..Len(a)} /\ b[Len(a) + 1] = e
    BY <2>2 DEF b
  <2> QED
    BY <2>4, <2>5 DEF b
<1> QED
  BY <1>4, <1>5 DEF TrailEvents

(* A trail never loses an event.                                            *)
LEMMA TrailsGrow ==
  ASSUME TypeInv, [Next]_vars, NEW r \in Requests, Exists(r)
  PROVE  TrailEvents(r) \subseteq TrailEvents(r)'
<1>1. ASSUME NEW w \in Workers, CommitRequest(w)
      PROVE  TrailEvents(r) \subseteq TrailEvents(r)'
  <2>1. CASE r = tx[w].target
    BY <1>1, <2>1, CommitAdds
  <2>2. CASE r # tx[w].target
    <3>1. audit'[r] = audit[r]
      BY <1>1, <2>2 DEF CommitRequest, TypeInv, TypeOK
    <3> QED
      BY <3>1 DEF TrailEvents
  <2> QED
    BY <2>1, <2>2
<1>2. ASSUME NEW w \in Workers, CommitSubmit(w) PROVE audit'[r] = audit[r]
  BY <1>2 DEF CommitSubmit, TypeInv, TypeOK
<1>3. audit'[r] = audit[r] => TrailEvents(r) \subseteq TrailEvents(r)'
  BY DEF TrailEvents
<1> QED
  BY <1>1, <1>2, <1>3, Frame

(* A transaction that has edited a row accounts for the edit.               *)
LEMMA LoadAccounts ==
  ASSUME TypeInv, ColumnsAudited, NEW v \in Workers, Rights(v), LoadRequest(v)
  PROVE  Accounted(Edited(tx[v].op, rows[tx[v].target], tx[v].actor),
                   TrailEvents(tx[v].target) \cup {OwnEvent(tx[v])})
<1>1. /\ tx[v].op \in RequestOps /\ tx[v].actor \in Users
      /\ tx[v].target \in Requests /\ rows[tx[v].target] \in Row
  BY Shapes DEF LoadRequest, Exists, TypeInv, TypeOK
<1>2. Accounted(rows[tx[v].target], TrailEvents(tx[v].target))
  BY <1>1 DEF LoadRequest, ColumnsAudited
<1>3. tx[v].op = "answer" => tx[v].actor = rows[tx[v].target].initiator
  BY ChecksEntitle DEF Entitled
<1>4. OwnEvent(tx[v]).type = EventOf[tx[v].op] /\ OwnEvent(tx[v]).actor = tx[v].actor
  BY DEF OwnEvent
<1> QED
  BY <1>1, <1>2, <1>3, <1>4, EditedAccounted

(* Every step keeps the transactions accounting for their entities.         *)
LEMMA NextAccounts ==
  ASSUME TypeInv, ColumnsAudited, [Next]_vars, NEW v \in Workers, Rights(v),
         Accounts(v)
  PROVE  Accounts(v)'
<1> DEFINE Touching == {"loaded", "reread", "updated"}
<1>0. TypeOK
  BY DEF TypeInv
<1>1. CASE tx'[v].pc \notin Touching
  BY <1>1 DEF Accounts
<1>2. ASSUME tx'[v].pc \in Touching, tx[v].pc \in Touching,
             tx'[v].op = tx[v].op, tx'[v].actor = tx[v].actor,
             tx'[v].target = tx[v].target, tx'[v].entity = tx[v].entity
      PROVE  Accounts(v)'
  <2>1. PICK r \in Requests : r = tx[v].target
    BY <1>0, <1>2, Shapes DEF TypeOK
  <2>2. Exists(r)
    BY <1>2, <2>1 DEF TypeInv, TargetsExist, TargetExists
  <2>3. TrailEvents(r) \subseteq TrailEvents(r)'
    BY <2>2, TrailsGrow
  <2>4. OwnEvent(tx'[v]) = OwnEvent(tx[v])
    BY <1>2 DEF OwnEvent
  <2>5. Accounted(tx[v].entity, TrailEvents(r) \cup {OwnEvent(tx[v])})
    BY <1>2, <2>1 DEF Accounts
  <2>6. Accounted(tx'[v].entity, TrailEvents(r)' \cup {OwnEvent(tx'[v])})
    BY <1>2, <2>3, <2>4, <2>5, AccountedGrows
  <2>7. TrailEvents(r)' = {audit'[r][i] : i \in 1..Len(audit'[r])}
    BY DEF TrailEvents
  <2>8. tx'[v].target = r
    BY <1>2, <2>1
  <2> QED
    BY <2>6, <2>7, <2>8 DEF Accounts, TrailEvents
<1>3. CASE tx'[v] = tx[v]
  BY <1>1, <1>2, <1>3
<1>4. CASE LoadRequest(v)
  <2>1. audit' = audit /\ tx'[v].op = tx[v].op /\ tx'[v].actor = tx[v].actor
        /\ tx'[v].target = tx[v].target
        /\ tx'[v].entity = Edited(tx[v].op, rows[tx[v].target], tx[v].actor)
    BY <1>0, <1>4 DEF LoadRequest, Become, dbVars, TypeOK
  <2>2. OwnEvent(tx'[v]) = OwnEvent(tx[v])
    BY <2>1 DEF OwnEvent
  <2>3. Accounted(tx'[v].entity, TrailEvents(tx[v].target) \cup {OwnEvent(tx[v])})
    BY <1>4, <2>1, LoadAccounts
  <2> QED
    BY <2>1, <2>2, <2>3 DEF Accounts, TrailEvents
<1>5. CASE RereadRequest(v)
  <2>1. /\ tx[v].pc = "loaded" /\ tx'[v].pc = "reread"
        /\ tx'[v].op = tx[v].op /\ tx'[v].actor = tx[v].actor
        /\ tx'[v].target = tx[v].target /\ tx'[v].entity = tx[v].entity
    BY <1>0, <1>5 DEF RereadRequest, Become, TypeOK
  <2> QED
    BY <1>2, <2>1
<1>6. CASE UpdateRequest(v)
  <2>1. tx[v] \in [pc : {"reread", "updated"}, op : RequestOps, actor : Users,
                   target : Requests, read : Row, entity : Row, base : Row]
    BY <1>0, <1>6, Shapes DEF UpdateRequest, TypeOK
  <2>2. tx'[v] = [tx[v] EXCEPT !.pc = "updated"]
    BY <1>0, <1>6, BecomeOthers DEF UpdateRequest, TypeOK
  <2>3. /\ tx'[v].op = tx[v].op /\ tx'[v].actor = tx[v].actor
        /\ tx'[v].target = tx[v].target /\ tx'[v].entity = tx[v].entity
        /\ tx'[v].pc = "updated" /\ tx[v].pc \in Touching
    BY <2>1, <2>2
  <2> QED
    BY <1>2, <2>3
<1>7. ReadNumber(v) \/ InsertRequest(v) => tx'[v].pc \notin Touching
  BY <1>0 DEF ReadNumber, InsertRequest, Become, Idle, TypeOK
<1> QED
  BY <1>0, <1>1, <1>3, <1>4, <1>5, <1>6, <1>7, Moves

(* The commit of an operation leaves columns that the trail accounts for.   *)
LEMMA CommittedColumns ==
  ASSUME TypeInv, NEW w \in Workers, CommitRequest(w), Accounts(w),
         NEW r \in Requests, r = tx[w].target, Accounted(rows[r], TrailEvents(r))
  PROVE  Accounted(rows'[r], TrailEvents(r)')
<1>1. /\ tx[w].pc = "updated" /\ tx[w].entity \in Row /\ tx[w].base \in Row
  BY Shapes DEF CommitRequest, TypeInv, TypeOK
<1>2. /\ rows[r] \in Row
      /\ tx[w].entity.initiator = rows[r].initiator
      /\ tx[w].base.initiator = rows[r].initiator
  BY <1>1 DEF TypeInv, TypeOK, TargetsExist, TargetExists, Exists
<1>3. TrailEvents(r)' = TrailEvents(r) \cup {OwnEvent(tx[w])}
  BY CommitAdds
<1>4. rows'[r] = Merged(rows[r], tx[w].entity, tx[w].base)
  BY DEF CommitRequest, TypeInv, TypeOK
<1>5. Accounted(tx[w].entity, TrailEvents(r) \cup {OwnEvent(tx[w])})
  BY <1>1 DEF Accounts
<1>6. Accounted(rows[r], TrailEvents(r) \cup {OwnEvent(tx[w])})
  BY AccountedGrows
<1> QED
  BY <1>1, <1>2, <1>3, <1>4, <1>5, <1>6, MergedAccounted

(* Every step leaves every column accounted for.                            *)
LEMMA NextColumnsAudited ==
  ASSUME TypeInv, ColumnsInv, [Next]_vars, NEW r \in Requests, Exists(r)'
  PROVE  Accounted(rows'[r], TrailEvents(r)')
<1>0. TypeOK /\ (Exists(r) => Accounted(rows[r], TrailEvents(r)))
  BY DEF TypeInv, ColumnsInv, ColumnsAudited
<1>1. ASSUME rows'[r] = rows[r], audit'[r] = audit[r]
      PROVE  Accounted(rows'[r], TrailEvents(r)')
  BY <1>0, <1>1 DEF Exists, TrailEvents
<1>2. ASSUME NEW w \in Workers, CommitRequest(w)
      PROVE  Accounted(rows'[r], TrailEvents(r)')
  <2>1. CASE r = tx[w].target
    <3>1. Exists(r)
      BY <1>2, <2>1 DEF CommitRequest, TypeInv, TargetsExist, TargetExists
    <3> QED
      BY <1>0, <1>2, <2>1, <3>1, CommittedColumns DEF ColumnsInv
  <2>2. CASE r # tx[w].target
    BY <1>0, <1>1, <1>2, <2>2 DEF CommitRequest, TypeOK
  <2> QED
    BY <2>1, <2>2
<1>3. ASSUME NEW w \in Workers, CommitSubmit(w)
      PROVE  Accounted(rows'[r], TrailEvents(r)')
  <2>1. PICK q \in Requests :
          /\ rows' = [rows EXCEPT ![q] =
                         NewRow(tx[w].actor, tx[w].year, tx[w].last + 1)]
          /\ audit' = [audit EXCEPT ![q] =
                         <<[type |-> "submitted", actor |-> tx[w].actor]>>]
    BY <1>3 DEF CommitSubmit
  <2>2. CASE r = q
    <3>1. rows'[r] = NewRow(tx[w].actor, tx[w].year, tx[w].last + 1)
      BY <1>0, <2>1, <2>2 DEF TypeOK
    <3> QED
      BY <3>1 DEF NewRow, Accounted
  <2>3. CASE r # q
    BY <1>0, <1>1, <2>1, <2>3 DEF TypeOK
  <2> QED
    BY <2>2, <2>3
<1> QED
  BY <1>1, <1>2, <1>3, Frame

(* Whatever handlers run at once, no signature, reason, question or answer  *)
(* stands in a row that the trail does not have the decision for.           *)
THEOREM SpecColumnsAudited == Spec => []ColumnsAudited
<1>1. Init => ColumnsInv
  BY DEF Init, ColumnsInv, ColumnsAudited, Accounts, Exists, Idle
<1>2. TypeInv /\ AuditInv /\ ColumnsInv /\ [Next]_vars => ColumnsInv'
  <2> SUFFICES ASSUME TypeInv, AuditInv, ColumnsInv, [Next]_vars PROVE ColumnsInv'
    OBVIOUS
  <2>1. ColumnsAudited'
    BY NextColumnsAudited DEF ColumnsAudited
  <2>2. \A w \in Workers : Accounts(w)'
    BY NextAccounts DEF ColumnsInv, AuditInv
  <2> QED
    BY <2>1, <2>2 DEF ColumnsInv
<1>3. Init => TypeInv
  BY InitType, InitTargets DEF TypeInv
<1>4. TypeInv /\ [Next]_vars => TypeInv'
  BY NextType, NextTargets DEF TypeInv
<1>5. ColumnsInv => ColumnsAudited
  BY DEF ColumnsInv
<1> QED
  BY <1>1, <1>2, <1>3, <1>4, <1>5, SpecAuditInv, PTL DEF Spec

-----------------------------------------------------------------------------
(* Consent.                                                                 *)

(* A submission past its checks, and a handler that found the consent when  *)
(* it looked again, are by a user whose consent is recorded.                *)
Consenting(w) ==
  \/ tx[w].pc \in {"drafted", "numbered", "inserted"}
  \/ tx[w].pc = "recording" /\ ~ tx[w].adds
  => tx[w].actor \in consented

(* The handlers that may still log a consent once more.                     *)
Repeats(w, u) ==
  /\ tx[w].pc \in {"checked", "recording"} /\ tx[w].actor = u
  /\ tx[w].pc = "recording" => ~ tx[w].adds

Repeaters(u) == {w \in Workers : Repeats(w, u)}

LogOf(u) ==
  IF u \in consented
  THEN /\ consentLog[u] >= 1
       /\ consentLog[u] + Cardinality(Repeaters(u)) <= Cardinality(Workers)
  ELSE consentLog[u] = 0

RequestsConsented ==
  \A r \in Requests : Exists(r) => rows[r].initiator \in consented

ConsentInv == /\ \A u \in Users : LogOf(u)
              /\ \A w \in Workers : Consenting(w)
              /\ RequestsConsented

(* What the invariant counts is a finite set.                               *)
LEMMA RepeatersCount ==
  ASSUME NEW S \in SUBSET Workers
  PROVE  /\ IsFiniteSet(S)
         /\ Cardinality(S) \in Nat /\ Cardinality(Workers) \in Nat
         /\ Cardinality(S) <= Cardinality(Workers)
         /\ \A T \in SUBSET S : Cardinality(T) <= Cardinality(S)
         /\ \A w \in S : Cardinality(S \ {w}) = Cardinality(S) - 1
<1>1. IsFiniteSet(Workers)
  BY WorkersAssumption DEF WorkersAssumption
<1>2. IsFiniteSet(S)
  BY <1>1, FS_Subset
<1> QED
  BY <1>1, <1>2, FS_Subset, FS_CardinalityType, FS_RemoveElement

(* Consents change at the commit of one and nowhere else.                   *)
LEMMA ConsentFrame ==
  ASSUME [Next]_vars
  PROVE  \/ UNCHANGED <<consented, consentLog>>
         \/ \E w \in Workers : CommitConsent(w)
  BY DEF Next, Advance, vars, dbVars, Receive, LoadRequest, RereadRequest,
         UpdateRequest, CommitRequest, LoadDraft, ReadNumber, InsertRequest,
         CommitSubmit, LoadConsent, RereadConsent, LoadTarget, CommitRole,
         Refuse, RollBack, WizardStep, NewYear

(* A recorded consent is never withdrawn.                                   *)
LEMMA ConsentsGrow ==
  ASSUME [Next]_vars
  PROVE  consented \subseteq consented'
  BY ConsentFrame DEF CommitConsent

(* How a transaction gets to a checked draft or a checked consent.          *)
LEMMA Checks ==
  ASSUME TypeOK, [Next]_vars, NEW v \in Workers,
         tx'[v].pc \in {"drafted", "checked", "recording"}
  PROVE  tx'[v] = tx[v] \/ LoadDraft(v) \/ LoadConsent(v) \/ RereadConsent(v)
<1> USE DEF TypeOK
<1>1. ASSUME NEW w \in Workers, LoadDraft(w) \/ LoadConsent(w) \/ RereadConsent(w)
      PROVE  tx'[v] = tx[v] \/ v = w
  <2>1. PICK x : Become(w, x)
    BY <1>1 DEF LoadDraft, LoadConsent, RereadConsent
  <2> QED
    BY <2>1, BecomeOthers
<1>2. ASSUME NEW w \in Workers,
             \/ RollBack(w)
             \/ /\ Advance(w)
                /\ ~ LoadDraft(w) /\ ~ LoadConsent(w) /\ ~ RereadConsent(w)
      PROVE  tx'[v] = tx[v]
  <2>1. PICK x : /\ Become(w, x)
                 /\ x.pc # "drafted" /\ x.pc # "checked" /\ x.pc # "recording"
    <3>1. CASE UpdateRequest(w)
      <4>1. tx[w] \in [pc : {"reread", "updated"}, op : RequestOps, actor : Users,
                       target : Requests, read : Row, entity : Row, base : Row]
        BY <3>1, Shapes DEF UpdateRequest
      <4>2. [tx[w] EXCEPT !.pc = "updated"].pc = "updated"
        BY <4>1
      <4> QED
        BY <3>1, <4>2 DEF UpdateRequest
    <3>2. CASE InsertRequest(w)
      BY <3>2 DEF InsertRequest, Idle
    <3>3. CASE LoadRequest(w) \/ RereadRequest(w) \/ ReadNumber(w) \/ LoadTarget(w)
      <4>1. PICK x : /\ Become(w, x)
                     /\ x.pc \in {"loaded", "reread", "numbered", "granting"}
        BY <3>3 DEF LoadRequest, RereadRequest, ReadNumber, LoadTarget
      <4> QED
        BY <4>1
    <3>4. CASE \/ CommitRequest(w) \/ CommitSubmit(w) \/ CommitConsent(w)
               \/ CommitRole(w) \/ Refuse(w) \/ RollBack(w)
      BY <3>4 DEF CommitRequest, CommitSubmit, CommitConsent, CommitRole,
         Refuse, RollBack, Idle
    <3> QED
      BY <1>2, <3>1, <3>2, <3>3, <3>4 DEF Advance
  <2> QED
    BY <2>1, BecomeOthers
<1>3. ASSUME NEW w \in Workers, WizardStep(w) PROVE tx'[v] = tx[v]
  BY <1>3 DEF WizardStep
<1>4. ASSUME NEW w \in Workers, Receive(w) PROVE tx'[v] = tx[v]
  <2>1. PICK x : Become(w, x) /\ x.pc = "resolved"
    BY <1>4 DEF Receive
  <2> QED
    BY <2>1, BecomeOthers
<1>5. NewYear \/ UNCHANGED vars => tx'[v] = tx[v]
  BY DEF NewYear, vars
<1> QED
  BY <1>1, <1>2, <1>3, <1>4, <1>5 DEF Next

(* Nobody begins to record a consent that is already there: has_consent is  *)
(* asked first.                                                             *)
LEMMA NoNewRepeaters ==
  ASSUME TypeInv, [Next]_vars, NEW v \in Workers, NEW u \in consented,
         Repeats(v, u)'
  PROVE  Repeats(v, u)
<1>1. CASE tx'[v] = tx[v]
  BY <1>1 DEF Repeats
<1>2. CASE LoadDraft(v)
  BY <1>2 DEF LoadDraft, Become, Repeats, TypeInv, TypeOK
<1>3. CASE LoadConsent(v)
  BY <1>3 DEF LoadConsent, Become, Repeats, TypeInv, TypeOK
<1>4. CASE RereadConsent(v)
  BY <1>4 DEF RereadConsent, Become, Repeats, TypeInv, TypeOK
<1>5. tx'[v].pc \in {"drafted", "checked", "recording"}
  BY DEF Repeats
<1> QED
  BY <1>1, <1>2, <1>3, <1>4, <1>5, Checks DEF TypeInv

(* Every step keeps the count: each further event is written by a handler   *)
(* that was counted, and the first one by a handler that is not.            *)
LEMMA NextLogOf ==
  ASSUME TypeInv, ConsentInv, [Next]_vars, NEW u \in Users
  PROVE  LogOf(u)'
<1>1. Repeaters(u) \in SUBSET Workers /\ Repeaters(u)' \in SUBSET Workers
  BY DEF Repeaters
<1>2. LogOf(u) /\ consentLog[u] \in Nat
  BY DEF ConsentInv, TypeInv, TypeOK
<1>3. u \in consented => Repeaters(u)' \subseteq Repeaters(u)
  BY NoNewRepeaters DEF Repeaters
<1>4. u \in consented => Cardinality(Repeaters(u)') <= Cardinality(Repeaters(u))
  BY <1>1, <1>3, RepeatersCount
<1>5. /\ Cardinality(Repeaters(u)) \in Nat /\ Cardinality(Repeaters(u)') \in Nat
      /\ Cardinality(Workers) \in Nat
  BY <1>1, RepeatersCount
<1>6. CASE consentLog'[u] = consentLog[u] /\ (u \in consented' <=> u \in consented)
  BY <1>2, <1>4, <1>5, <1>6 DEF LogOf
<1>7. ASSUME NEW w \in Workers, CommitConsent(w), tx[w].actor = u,
             ~ ConsentClash(tx[w])
      PROVE  LogOf(u)'
  <2>1. /\ tx[w].pc = "recording" /\ tx[w].adds \in BOOLEAN
        /\ consentLog'[u] = consentLog[u] + 1
        /\ tx'[w] = Idle
    BY <1>7, Shapes DEF CommitConsent, Become, TypeInv, TypeOK
  <2>2. w \notin Repeaters(u)'
    BY <2>1 DEF Repeaters, Repeats, Idle
  <2>3. CASE tx[w].adds
    <3>1. u \notin consented /\ u \in consented'
      BY <1>7, <2>3 DEF CommitConsent, ConsentClash
    <3>2. Repeaters(u)' \in SUBSET (Workers \ {w})
      BY <1>1, <2>2
    <3>3. Workers \ {w} \in SUBSET Workers /\ Workers \in SUBSET Workers
      OBVIOUS
    <3>4. /\ Cardinality(Workers \ {w}) = Cardinality(Workers) - 1
          /\ Cardinality(Repeaters(u)') <= Cardinality(Workers \ {w})
      BY <3>2, <3>3, RepeatersCount
    <3> QED
      BY <1>2, <1>5, <2>1, <3>1, <3>4 DEF LogOf
  <2>4. CASE ~ tx[w].adds
    <3>1. u \in consented /\ u \in consented'
      BY <1>7, <2>1, <2>4, ConsentsGrow DEF ConsentInv, Consenting
    <3>2. w \in Repeaters(u)
      BY <1>7, <2>1, <2>4 DEF Repeaters, Repeats
    <3>3. /\ Repeaters(u)' \in SUBSET (Repeaters(u) \ {w})
          /\ Repeaters(u) \ {w} \in SUBSET Workers
      BY <1>1, <1>3, <2>2, <3>1
    <3>4. /\ Cardinality(Repeaters(u) \ {w}) = Cardinality(Repeaters(u)) - 1
          /\ Cardinality(Repeaters(u)') <= Cardinality(Repeaters(u) \ {w})
      BY <1>1, <3>2, <3>3, RepeatersCount
    <3> QED
      BY <1>2, <1>5, <2>1, <3>1, <3>4 DEF LogOf
  <2> QED
    BY <2>1, <2>3, <2>4
<1>8. ASSUME NEW w \in Workers, CommitConsent(w),
             tx[w].actor # u \/ ConsentClash(tx[w])
      PROVE  consentLog'[u] = consentLog[u] /\ (u \in consented' <=> u \in consented)
  BY <1>8 DEF CommitConsent, ConsentClash, TypeInv, TypeOK
<1> QED
  BY <1>6, <1>7, <1>8, ConsentFrame

(* Every step keeps what a transaction knows of its actor's consent.        *)
LEMMA NextConsenting ==
  ASSUME TypeInv, [Next]_vars, NEW v \in Workers, Consenting(v)
  PROVE  Consenting(v)'
<1>1. consented \subseteq consented'
  BY ConsentsGrow
<1>2. CASE tx'[v] = tx[v]
  BY <1>1, <1>2 DEF Consenting
<1>3. CASE LoadDraft(v)
  <2>1. tx'[v].actor = tx[v].actor /\ tx[v].actor \in consented
    BY <1>3 DEF LoadDraft, MaySubmit, Become, TypeInv, TypeOK
  <2> QED
    BY <1>1, <2>1 DEF Consenting
<1>4. CASE ReadNumber(v)
  <2>1. tx'[v].actor = tx[v].actor /\ tx[v].pc = "drafted"
    BY <1>4 DEF ReadNumber, Become, TypeInv, TypeOK
  <2> QED
    BY <1>1, <2>1 DEF Consenting
<1>5. CASE InsertRequest(v)
  <2>1. /\ tx[v].pc = "numbered"
        /\ \/ tx'[v].pc = "idle"
           \/ tx'[v].pc = "inserted" /\ tx'[v].actor = tx[v].actor
    BY <1>5 DEF InsertRequest, Become, Idle, TypeInv, TypeOK
  <2> QED
    BY <1>1, <2>1 DEF Consenting
<1>6. CASE LoadConsent(v)
  <2>1. tx'[v].pc = "checked"
    BY <1>6 DEF LoadConsent, Become, TypeInv, TypeOK
  <2> QED
    BY <2>1 DEF Consenting
<1>7. CASE RereadConsent(v)
  <2>1. /\ tx'[v].pc = "recording" /\ tx'[v].actor = tx[v].actor
        /\ tx'[v].adds <=> tx[v].actor \notin consented
    BY <1>7 DEF RereadConsent, Become, TypeInv, TypeOK
  <2> QED
    BY <1>1, <2>1 DEF Consenting
<1>8. CASE tx'[v].pc \notin {"drafted", "numbered", "inserted", "recording"}
  BY <1>8 DEF Consenting
<1>9. LoadRequest(v) \/ RereadRequest(v) => tx'[v].pc \in {"loaded", "reread"}
  BY DEF LoadRequest, RereadRequest, Become, TypeInv, TypeOK
<1>10. ASSUME UpdateRequest(v) PROVE tx'[v].pc = "updated"
  <2>1. tx[v] \in [pc : {"reread", "updated"}, op : RequestOps, actor : Users,
                   target : Requests, read : Row, entity : Row, base : Row]
    BY <1>10, Shapes DEF UpdateRequest, TypeInv, TypeOK
  <2>2. tx'[v] = [tx[v] EXCEPT !.pc = "updated"]
    BY <1>10, BecomeOthers DEF UpdateRequest, TypeInv, TypeOK
  <2> QED
    BY <2>1, <2>2
<1>11. CASE tx'[v].pc \in {"drafted", "recording"}
  BY <1>2, <1>3, <1>6, <1>7, <1>11, Checks DEF TypeInv
<1>12. CASE tx'[v].pc \in {"numbered", "inserted"}
  BY <1>2, <1>4, <1>5, <1>9, <1>10, <1>12, Moves DEF TypeInv
<1> QED
  BY <1>8, <1>11, <1>12

(* Every step leaves every request with an initiator who has consented.     *)
LEMMA NextConsented ==
  ASSUME TypeInv, ConsentInv, [Next]_vars, NEW r \in Requests, Exists(r)'
  PROVE  rows'[r].initiator \in consented'
<1>1. consented \subseteq consented'
  BY ConsentsGrow
<1>2. CASE Exists(r)
  BY <1>1, <1>2, RowsPermanent DEF ConsentInv, RequestsConsented
<1>3. CASE ~ Exists(r)
  <2>1. rows'[r] # rows[r]
    BY <1>3 DEF Exists
  <2>2. ASSUME NEW w \in Workers, CommitRequest(w) PROVE FALSE
    <3>1. Exists(tx[w].target)
      BY <2>2 DEF CommitRequest, TypeInv, TargetsExist, TargetExists
    <3> QED
      BY <1>3, <2>1, <2>2, <3>1 DEF CommitRequest, TypeInv, TypeOK
  <2>3. PICK w \in Workers : CommitSubmit(w)
    BY <2>1, <2>2, Frame
  <2>4. tx[w].actor \in consented
    BY <2>3 DEF CommitSubmit, ConsentInv, Consenting
  <2>5. rows'[r] = NewRow(tx[w].actor, tx[w].year, tx[w].last + 1)
    BY <2>1, <2>3 DEF CommitSubmit, TypeInv, TypeOK
  <2> QED
    BY <1>1, <2>4, <2>5 DEF NewRow
<1> QED
  BY <1>2, <1>3

(* The invariant of consents, together with the types.                      *)
LEMMA SpecConsentInv == Spec => [](TypeInv /\ ConsentInv)
<1>1. Init => TypeInv /\ ConsentInv
  <2>1. Init => ConsentInv
    BY DEF Init, ConsentInv, RequestsConsented, LogOf, Consenting, Exists, Idle
  <2> QED
    BY <2>1, InitType, InitTargets DEF TypeInv
<1>2. TypeInv /\ ConsentInv /\ [Next]_vars => ConsentInv'
  <2> SUFFICES ASSUME TypeInv, ConsentInv, [Next]_vars PROVE ConsentInv'
    OBVIOUS
  <2>1. \A w \in Workers : Consenting(w)'
    BY NextConsenting DEF ConsentInv
  <2>2. \A u \in Users : LogOf(u)'
    BY NextLogOf
  <2>3. RequestsConsented'
    BY NextConsented DEF RequestsConsented
  <2> QED
    BY <2>1, <2>2, <2>3 DEF ConsentInv
<1>3. TypeInv /\ [Next]_vars => TypeInv'
  BY NextType, NextTargets DEF TypeInv
<1> QED
  BY <1>1, <1>2, <1>3, PTL DEF Spec

(* However many handlers record a consent at once, each user's consent is   *)
(* logged, at most once for every handler, and no request is ever without   *)
(* its initiator's consent.                                                 *)
THEOREM SpecConsentTrail == Spec => []ConsentTrail
<1>1. TypeInv /\ ConsentInv => ConsentTrail
  <2> SUFFICES ASSUME TypeInv, ConsentInv PROVE ConsentTrail
    OBVIOUS
  <2>1. ASSUME NEW u \in Users
        PROVE  consentLog[u]
                 \in IF u \in consented THEN 1..Cardinality(Workers) ELSE {0}
    <3>1. Repeaters(u) \in SUBSET Workers
      BY DEF Repeaters
    <3>2. LogOf(u) /\ consentLog[u] \in Nat
      BY DEF ConsentInv, TypeInv, TypeOK
    <3>3. Cardinality(Repeaters(u)) \in Nat /\ Cardinality(Workers) \in Nat
      BY <3>1, RepeatersCount
    <3> QED
      BY <3>2, <3>3 DEF LogOf
  <2> QED
    BY <2>1 DEF ConsentTrail, ConsentInv, RequestsConsented
<1> QED
  BY <1>1, SpecConsentInv, PTL
=============================================================================
