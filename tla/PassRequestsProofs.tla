------------------------ MODULE PassRequestsProofs ------------------------
(***************************************************************************)
(* Proofs about PassRequests, for every set of users, workers, requests and *)
(* years.                                                                   *)
(***************************************************************************)
EXTENDS PassRequests, TLAPS

(* What a status move writes is a row again.                                *)
LEMMA EditedType ==
  ASSUME NEW op \in RequestOps, NEW e \in Row, NEW u \in Users
  PROVE  Edited(op, e, u) \in Row
<1>1. TargetStatus[op] \in Statuses
  BY DEF RequestOps, TargetStatus, Statuses
<1>2. (IF op \in {"approve", "reject"} THEN u ELSE e.decidedBy) \in Users \cup {Nobody}
  BY DEF Row
<1>3. \A b, p \in BOOLEAN : (IF p THEN TRUE ELSE b) \in BOOLEAN
  OBVIOUS
<1>4. /\ (IF op = "reject" THEN TRUE ELSE e.reason) \in BOOLEAN
      /\ (IF op = "clarify" THEN TRUE ELSE e.question) \in BOOLEAN
      /\ (IF op = "answer" THEN TRUE ELSE e.answer) \in BOOLEAN
  BY <1>3 DEF Row
<1> QED
  BY <1>1, <1>2, <1>4 DEF Edited, Row

(* What an UPDATE leaves in the row is a row, with the initiator and the    *)
(* number it had when neither was edited (save, repositories.py).           *)
LEMMA MergedType ==
  ASSUME NEW c \in Row, NEW e \in Row, NEW b \in Row
  PROVE  /\ Merged(c, e, b) \in Row
         /\ e.initiator = b.initiator => Merged(c, e, b).initiator = c.initiator
         /\ e.number = b.number => Merged(c, e, b).number = c.number
  BY DEF Merged, Row

(* A row is never mistaken for the lack of one.                             *)
LEMMA RowNotAbsent == \A m \in Row : m # Absent
  BY DEF Row, Absent, Statuses

(* The shapes of a transaction, read off its program counter.               *)
LEMMA Shapes ==
  ASSUME NEW t \in Transactions
  PROVE  /\ t.pc = "idle" => t = Idle
         /\ t.pc = "resolved" =>
              /\ t.op \in AllOperations /\ t.actor \in Users /\ t.role \in Roles
              /\ t.op \in RequestOps => t.target \in Requests
              /\ t.op = "setadmin" => t.target \in Users
         /\ t.pc = "loaded" =>
              t \in [pc : {"loaded"}, op : RequestOps, actor : Users,
                     target : Requests, read : Row, entity : Row]
         /\ t.pc \in {"reread", "updated"} =>
              t \in [pc : {"reread", "updated"}, op : RequestOps, actor : Users,
                     target : Requests, read : Row, entity : Row, base : Row]
         /\ t.pc = "drafted" => t.actor \in Users
         /\ t.pc = "numbered" =>
              t.actor \in Users /\ t.year \in Years /\ t.last \in Nat
         /\ t.pc = "inserted" =>
              t.actor \in Users /\ t.year \in Years /\ t.last \in Nat
         /\ t.pc = "checked" => t.actor \in Users
         /\ t.pc = "recording" => t.actor \in Users /\ t.adds \in BOOLEAN
         /\ t.pc = "granting" => t.target \in Users /\ t.base \in Roles
  BY DEF Transactions, Idle, AllOperations, RequestOps

(* Appending an event to a trail gives a trail.                             *)
LEMMA AppendType ==
  ASSUME NEW S, NEW s \in Seq(S), NEW x \in S
  PROVE  Append(s, x) \in Seq(S)
  OBVIOUS

-----------------------------------------------------------------------------
(* Type correctness.                                                        *)

(* A worker's new transaction record keeps tx typed.                        *)
LEMMA BecomeType ==
  ASSUME NEW w \in Workers, NEW x \in Transactions,
         tx \in [Workers -> Transactions], Become(w, x)
  PROVE  tx' \in [Workers -> Transactions]
  BY DEF Become

(* A worker may always stop.                                                *)
LEMMA IdleType == Idle \in Transactions
  BY DEF Transactions, Idle

(* The seeded database with no requests is well typed.                      *)
LEMMA InitType == Init => TypeOK
<1> SUFFICES ASSUME Init PROVE TypeOK
  OBVIOUS
<1>1. role \in [Users -> Roles]
  BY DEF Init, Roles
<1>2. rows \in [Requests -> Row \cup {Absent}]
  BY DEF Init
<1>3. audit \in [Requests -> Seq([type : EventTypes, actor : Users])]
  BY DEF Init
<1>4. tx \in [Workers -> Transactions]
  BY IdleType DEF Init
<1>5. seq \in [Years -> Nat] /\ consentLog \in [Users -> Nat]
  BY DEF Init, BaseValue
<1> QED
  BY <1>1, <1>2, <1>3, <1>4, <1>5 DEF Init, TypeOK

TypeInv == TypeOK /\ TargetsExist

(* Every step of every handler keeps the types.                             *)
LEMMA NextType == TypeInv /\ [Next]_vars => TypeOK'
<1> SUFFICES ASSUME TypeInv, [Next]_vars PROVE TypeOK'
  OBVIOUS
<1> USE DEF TypeInv, TypeOK
<1>1. ASSUME NEW w \in Workers, Receive(w) PROVE TypeOK'
  <2>0. PICK u \in Users, op \in Operations : \E g \in Targets(op) :
          Become(w, [pc |-> "resolved", op |-> op, actor |-> u,
                     role |-> role[u], target |-> g])
    BY <1>1 DEF Receive
  <2>1. PICK g \in Targets(op) :
          Become(w, [pc |-> "resolved", op |-> op, actor |-> u,
                     role |-> role[u], target |-> g])
    BY <2>0
  <2>2. op \in AllOperations
    BY ConstantsAssumption DEF ConstantsAssumption
  <2>3. \/ op \in RequestOps /\ g \in Requests
        \/ op = "setadmin" /\ g \in Users
        \/ op \in {"submit", "consent"} /\ g = Nobody
    BY <2>2 DEF Targets, AllOperations, RequestOps
  <2>4. [pc |-> "resolved", op |-> op, actor |-> u,
         role |-> role[u], target |-> g] \in Transactions
    BY <2>3 DEF Transactions
  <2> QED
    BY <1>1, <2>1, <2>4, BecomeType DEF Receive, dbVars
<1>2. ASSUME NEW w \in Workers, LoadRequest(w) PROVE TypeOK'
  <2>1. /\ tx[w].op \in RequestOps /\ tx[w].actor \in Users
        /\ tx[w].target \in Requests
    BY <1>2, Shapes DEF LoadRequest
  <2>2. rows[tx[w].target] \in Row
        /\ Edited(tx[w].op, rows[tx[w].target], tx[w].actor) \in Row
    BY <1>2, <2>1, EditedType DEF LoadRequest, Exists
  <2>3. [pc |-> "loaded", op |-> tx[w].op, actor |-> tx[w].actor,
         target |-> tx[w].target, read |-> rows[tx[w].target],
         entity |-> Edited(tx[w].op, rows[tx[w].target], tx[w].actor)]
          \in Transactions
    BY <2>1, <2>2 DEF Transactions
  <2> QED
    BY <1>2, <2>3, BecomeType DEF LoadRequest, dbVars
<1>3. ASSUME NEW w \in Workers, RereadRequest(w) PROVE TypeOK'
  <2>1. /\ tx[w].op \in RequestOps /\ tx[w].actor \in Users
        /\ tx[w].target \in Requests /\ tx[w].read \in Row /\ tx[w].entity \in Row
    BY <1>3, Shapes DEF RereadRequest
  <2>2. rows[tx[w].target] \in Row
    BY <1>3, <2>1 DEF RereadRequest, TargetsExist, TargetExists, Exists
  <2>3. [pc |-> "reread", op |-> tx[w].op, actor |-> tx[w].actor,
         target |-> tx[w].target, read |-> tx[w].read, entity |-> tx[w].entity,
         base |-> rows[tx[w].target]] \in Transactions
    BY <2>1, <2>2 DEF Transactions
  <2> QED
    BY <1>3, <2>3, BecomeType DEF RereadRequest, dbVars
<1>4. ASSUME NEW w \in Workers, UpdateRequest(w) PROVE TypeOK'
  <2>0. tx[w] \in [pc : {"reread", "updated"}, op : RequestOps, actor : Users,
                   target : Requests, read : Row, entity : Row, base : Row]
    BY <1>4, Shapes DEF UpdateRequest
  <2>1. [tx[w] EXCEPT !.pc = "updated"] \in
           [pc : {"reread", "updated"}, op : RequestOps, actor : Users,
            target : Requests, read : Row, entity : Row, base : Row]
    BY <2>0
  <2>2. [tx[w] EXCEPT !.pc = "updated"] \in Transactions
    BY <2>1 DEF Transactions
  <2> QED
    BY <1>4, <2>2, BecomeType DEF UpdateRequest, dbVars
<1>5. ASSUME NEW w \in Workers, CommitRequest(w) PROVE TypeOK'
  <2>1. /\ tx[w].op \in RequestOps /\ tx[w].actor \in Users
        /\ tx[w].target \in Requests /\ tx[w].entity \in Row
        /\ tx[w].base \in Row
    BY <1>5, Shapes DEF CommitRequest
  <2>2. rows[tx[w].target] \in Row
    BY <1>5, <2>1 DEF CommitRequest, TargetsExist, TargetExists, Exists
  <2>3. Merged(rows[tx[w].target], tx[w].entity, tx[w].base) \in Row
    BY <2>1, <2>2, MergedType
  <2>4. rows' \in [Requests -> Row \cup {Absent}]
    BY <1>5, <2>3 DEF CommitRequest
  <2>5. [type |-> EventOf[tx[w].op], actor |-> tx[w].actor]
          \in [type : EventTypes, actor : Users]
    BY <2>1 DEF EventOf, EventTypes, RequestOps
  <2>6. audit' \in [Requests -> Seq([type : EventTypes, actor : Users])]
    <3> DEFINE Events == [type : EventTypes, actor : Users]
    <3>0. audit[tx[w].target] \in Seq(Events)
      BY <2>1
    <3> HIDE DEF Events
    <3>1. Append(audit[tx[w].target],
                 [type |-> EventOf[tx[w].op], actor |-> tx[w].actor])
            \in Seq(Events)
      BY <2>5, <3>0, AppendType DEF Events
    <3> USE DEF Events
    <3> QED
      BY <1>5, <2>1, <3>1 DEF CommitRequest
  <2> QED
    BY <1>5, <2>4, <2>6, IdleType, BecomeType DEF CommitRequest
<1>6. ASSUME NEW w \in Workers, LoadDraft(w) PROVE TypeOK'
  <2>1. [pc |-> "drafted", op |-> "submit", actor |-> tx[w].actor]
          \in Transactions
    BY <1>6, Shapes DEF LoadDraft, Transactions
  <2> QED
    BY <1>6, <2>1, BecomeType DEF LoadDraft, dbVars
<1>7. ASSUME NEW w \in Workers, ReadNumber(w) PROVE TypeOK'
  <2>1. tx[w].actor \in Users
    BY <1>7, Shapes DEF ReadNumber
  <2>2. [pc |-> "numbered", op |-> "submit", actor |-> tx[w].actor,
         year |-> year, last |-> seq[year]] \in Transactions
    BY <2>1 DEF Transactions
  <2> QED
    BY <1>7, <2>2, BecomeType DEF ReadNumber, dbVars
<1>8. ASSUME NEW w \in Workers, InsertRequest(w) PROVE TypeOK'
  <2>1. tx[w].actor \in Users /\ tx[w].year \in Years /\ tx[w].last \in Nat
    BY <1>8, Shapes DEF InsertRequest
  <2>2. [pc |-> "inserted", op |-> "submit", actor |-> tx[w].actor,
         year |-> tx[w].year, last |-> tx[w].last,
         hasDraft |-> tx[w].actor \in draft] \in Transactions
    <3>1. (tx[w].actor \in draft) \in BOOLEAN
      OBVIOUS
    <3> QED
      BY <2>1, <3>1, Zenon DEF Transactions
  <2> QED
    BY <1>8, <2>2, IdleType, BecomeType DEF InsertRequest, dbVars
<1>9. ASSUME NEW w \in Workers, CommitSubmit(w) PROVE TypeOK'
  <2>1. tx[w].actor \in Users /\ tx[w].year \in Years /\ tx[w].last \in Nat
    BY <1>9, Shapes DEF CommitSubmit
  <2>2. PICK r \in Requests :
          /\ ~ Exists(r)
          /\ rows' = [rows EXCEPT ![r] =
                         NewRow(tx[w].actor, tx[w].year, tx[w].last + 1)]
          /\ audit' = [audit EXCEPT ![r] =
                         <<[type |-> "submitted", actor |-> tx[w].actor]>>]
    BY <1>9 DEF CommitSubmit
  <2>3. NewRow(tx[w].actor, tx[w].year, tx[w].last + 1) \in Row
    BY <2>1 DEF NewRow, Row, Statuses
  <2>4. <<[type |-> "submitted", actor |-> tx[w].actor]>>
          \in Seq([type : EventTypes, actor : Users])
    BY <2>1 DEF EventTypes
  <2>5. rows' \in [Requests -> Row \cup {Absent}]
    BY <2>2, <2>3
  <2>6. audit' \in [Requests -> Seq([type : EventTypes, actor : Users])]
    BY <2>2, <2>4
  <2>7. seq' \in [Years -> Nat] /\ draft' \subseteq Users
    BY <1>9, <2>1 DEF CommitSubmit
  <2> QED
    BY <1>9, <2>5, <2>6, <2>7, IdleType, BecomeType DEF CommitSubmit
<1>10. ASSUME NEW w \in Workers, LoadConsent(w) PROVE TypeOK'
  <2>1. [pc |-> "checked", op |-> "consent", actor |-> tx[w].actor]
          \in Transactions
    BY <1>10, Shapes DEF LoadConsent, Transactions
  <2> QED
    BY <1>10, <2>1, BecomeType DEF LoadConsent, dbVars
<1>10a. ASSUME NEW w \in Workers, RereadConsent(w) PROVE TypeOK'
  <2>1. [pc |-> "recording", op |-> "consent", actor |-> tx[w].actor,
         adds |-> tx[w].actor \notin consented] \in Transactions
    BY <1>10a, Shapes DEF RereadConsent, Transactions
  <2> QED
    BY <1>10a, <2>1, BecomeType DEF RereadConsent, dbVars
<1>11. ASSUME NEW w \in Workers, CommitConsent(w) PROVE TypeOK'
  <2>1. tx[w].actor \in Users
    BY <1>11, Shapes DEF CommitConsent
  <2>2. consented' \subseteq Users /\ consentLog' \in [Users -> Nat]
    BY <1>11, <2>1 DEF CommitConsent
  <2> QED
    BY <1>11, <2>2, IdleType, BecomeType DEF CommitConsent
<1>12. ASSUME NEW w \in Workers, LoadTarget(w) PROVE TypeOK'
  <2>1. tx[w].target \in Users
    BY <1>12, Shapes DEF LoadTarget
  <2>2. [pc |-> "granting", op |-> "setadmin", target |-> tx[w].target,
         base |-> role[tx[w].target]] \in Transactions
    BY <2>1 DEF Transactions
  <2> QED
    BY <1>12, <2>2, BecomeType DEF LoadTarget, dbVars
<1>13. ASSUME NEW w \in Workers, CommitRole(w) PROVE TypeOK'
  <2>1. role' \in [Users -> Roles]
    BY <1>13 DEF CommitRole, Roles
  <2> QED
    BY <1>13, <2>1, IdleType, BecomeType DEF CommitRole
<1>14. ASSUME NEW w \in Workers, Refuse(w) \/ RollBack(w) PROVE TypeOK'
  BY <1>14, IdleType, BecomeType DEF Refuse, RollBack, dbVars
<1>15. ASSUME NEW w \in Workers, WizardStep(w) PROVE TypeOK'
  <2>1. draft' \subseteq Users
    BY <1>15 DEF WizardStep
  <2> QED
    BY <1>15, <2>1 DEF WizardStep
<1>16. CASE NewYear
  BY <1>16 DEF NewYear
<1>17. CASE UNCHANGED vars
  BY <1>17 DEF vars
<1> QED
  BY <1>1, <1>2, <1>3, <1>4, <1>5, <1>6, <1>7, <1>8, <1>9, <1>10, <1>10a,
     <1>11, <1>12, <1>13, <1>14, <1>15, <1>16, <1>17 DEF Next, Advance

-----------------------------------------------------------------------------
(* Rows are permanent, and so are the facts transactions have read of them. *)

(* Requests and their trails change in the two commits and nowhere else;    *)
(* counters only when a submission commits.                                 *)
LEMMA Frame ==
  ASSUME [Next]_vars
  PROVE  /\ \/ UNCHANGED <<rows, audit>>
            \/ \E w \in Workers : CommitRequest(w)
            \/ \E w \in Workers : CommitSubmit(w)
         /\ UNCHANGED seq \/ \E w \in Workers : CommitSubmit(w)
  BY DEF Next, Advance, vars, dbVars, Receive, LoadRequest, RereadRequest,
         UpdateRequest, CommitRequest, LoadDraft, ReadNumber, InsertRequest,
         CommitSubmit, LoadConsent, RereadConsent, CommitConsent, LoadTarget,
         CommitRole, Refuse, RollBack, WizardStep, NewYear

(* A step of one worker leaves the others where they are.                   *)
LEMMA BecomeOthers ==
  ASSUME NEW w \in Workers, NEW x, tx \in [Workers -> Transactions], Become(w, x)
  PROVE  \A v \in Workers : tx'[v] = IF v = w THEN x ELSE tx[v]
  BY DEF Become

(* How a transaction gets to the program counters the invariants speak of.  *)
LEMMA Moves ==
  ASSUME TypeOK, [Next]_vars, NEW v \in Workers
  PROVE  \/ tx'[v] = tx[v]
         \/ tx'[v].pc \notin {"loaded", "reread", "updated", "numbered", "inserted"}
         \/ LoadRequest(v) \/ RereadRequest(v) \/ UpdateRequest(v)
         \/ ReadNumber(v) \/ InsertRequest(v)
<1> USE DEF TypeOK
<1>1. ASSUME NEW w \in Workers, Receive(w)
      PROVE  tx'[v] = tx[v] \/ tx'[v].pc = "resolved"
  <2>1. PICK x : Become(w, x) /\ x.pc = "resolved"
    BY <1>1 DEF Receive
  <2> QED
    BY <2>1, BecomeOthers
<1>2. ASSUME NEW w \in Workers,
             LoadRequest(w) \/ RereadRequest(w) \/ UpdateRequest(w)
               \/ ReadNumber(w) \/ InsertRequest(w)
      PROVE  tx'[v] = tx[v] \/ v = w
  <2>1. PICK x : Become(w, x)
    BY <1>2 DEF LoadRequest, RereadRequest, UpdateRequest, ReadNumber, InsertRequest
  <2> QED
    BY <2>1, BecomeOthers
<1>3. ASSUME NEW w \in Workers,
             CommitRequest(w) \/ CommitSubmit(w) \/ CommitConsent(w)
               \/ CommitRole(w) \/ Refuse(w) \/ RollBack(w)
      PROVE  tx'[v] = tx[v] \/ tx'[v].pc = "idle"
  <2>1. Become(w, Idle)
    BY <1>3 DEF CommitRequest, CommitSubmit, CommitConsent, CommitRole, Refuse, RollBack
  <2> QED
    BY <2>1, BecomeOthers DEF Idle
<1>4. ASSUME NEW w \in Workers,
             LoadDraft(w) \/ LoadConsent(w) \/ RereadConsent(w) \/ LoadTarget(w)
      PROVE  \/ tx'[v] = tx[v]
             \/ tx'[v].pc \in {"drafted", "checked", "recording", "granting"}
  <2>1. PICK x :
          Become(w, x) /\ x.pc \in {"drafted", "checked", "recording", "granting"}
    BY <1>4 DEF LoadDraft, LoadConsent, RereadConsent, LoadTarget
  <2> QED
    BY <2>1, BecomeOthers
<1>5. ASSUME NEW w \in Workers, WizardStep(w) PROVE tx'[v] = tx[v]
  BY <1>5 DEF WizardStep
<1>6. NewYear \/ UNCHANGED vars => tx'[v] = tx[v]
  BY DEF NewYear, vars
<1> QED
  BY <1>1, <1>2, <1>3, <1>4, <1>5, <1>6 DEF Next, Advance

(* A request once made stays, with its initiator and its number.            *)
LEMMA RowsPermanent ==
  ASSUME TypeInv, [Next]_vars, NEW r \in Requests, Exists(r)
  PROVE  /\ Exists(r)'
         /\ rows'[r].initiator = rows[r].initiator
         /\ rows'[r].number = rows[r].number
<1> USE DEF TypeInv, TypeOK
<1>1. rows[r] \in Row
  BY DEF Exists
<1>2. ASSUME NEW w \in Workers, CommitRequest(w)
      PROVE  /\ Exists(r)'
             /\ rows'[r].initiator = rows[r].initiator
             /\ rows'[r].number = rows[r].number
  <2>1. tx[w].target \in Requests /\ tx[w].entity \in Row /\ tx[w].base \in Row
    BY <1>2, Shapes DEF CommitRequest
  <2>2. CASE r = tx[w].target
    <3>1. rows'[r] = Merged(rows[r], tx[w].entity, tx[w].base)
      BY <1>2, <2>1, <2>2 DEF CommitRequest
    <3>2. /\ tx[w].entity.initiator = tx[w].base.initiator
          /\ tx[w].entity.number = tx[w].base.number
      BY <1>2 DEF CommitRequest, TargetsExist, TargetExists
    <3>3. /\ rows'[r] \in Row
          /\ rows'[r].initiator = rows[r].initiator
          /\ rows'[r].number = rows[r].number
      BY <1>1, <2>1, <3>1, <3>2, MergedType
    <3> QED
      BY <3>3, RowNotAbsent DEF Exists
  <2>3. CASE r # tx[w].target
    BY <1>2, <2>3 DEF CommitRequest, Exists
  <2> QED
    BY <2>2, <2>3
<1>3. ASSUME NEW w \in Workers, CommitSubmit(w)
      PROVE  rows'[r] = rows[r]
  BY <1>3 DEF CommitSubmit
<1> QED
  BY <1>2, <1>3, Frame DEF Exists

(* Every step keeps what the transactions know of their requests.           *)
LEMMA NextTargets == TypeInv /\ [Next]_vars => TargetsExist'
<1> SUFFICES ASSUME TypeInv, [Next]_vars, NEW v \in Workers
             PROVE  TargetExists(v)'
  BY DEF TargetsExist
<1>0. TargetExists(v)
  BY DEF TypeInv, TargetsExist
<1> USE DEF TypeInv, TypeOK
<1>1. CASE tx'[v] = tx[v]
  <2>1. CASE tx[v].pc \in {"loaded", "reread", "updated"}
    <3>1. tx[v].target \in Requests /\ Exists(tx[v].target)
      BY <1>0, <2>1, Shapes DEF TargetExists
    <3>2. /\ rows'[tx[v].target] # Absent
          /\ rows'[tx[v].target].initiator = rows[tx[v].target].initiator
          /\ rows'[tx[v].target].number = rows[tx[v].target].number
      BY <3>1, RowsPermanent DEF Exists
    <3> QED
      BY <1>0, <1>1, <3>2 DEF TargetExists, Exists
  <2> QED
    BY <1>1, <2>1 DEF TargetExists
<1>2. CASE LoadRequest(v)
  <2>1. tx[v].target \in Requests /\ Exists(tx[v].target) /\ rows' = rows
    BY <1>2, Shapes DEF LoadRequest, dbVars
  <2>2. rows[tx[v].target] \in Row
    BY <2>1 DEF Exists
  <2>3. /\ tx'[v].pc = "loaded"
        /\ tx'[v].target = tx[v].target
        /\ tx'[v].entity = Edited(tx[v].op, rows[tx[v].target], tx[v].actor)
    BY <1>2, BecomeOthers DEF LoadRequest
  <2>4. /\ tx'[v].entity.initiator = rows[tx[v].target].initiator
        /\ tx'[v].entity.number = rows[tx[v].target].number
    BY <2>2, <2>3 DEF Edited, Row
  <2> QED
    BY <2>1, <2>3, <2>4 DEF Exists, TargetExists
<1>3. CASE RereadRequest(v)
  <2>1. /\ tx[v].pc = "loaded" /\ rows' = rows
        /\ tx'[v].target = tx[v].target
        /\ tx'[v].entity = tx[v].entity
        /\ tx'[v].base = rows[tx[v].target]
    BY <1>3 DEF RereadRequest, Become, dbVars
  <2> QED
    BY <1>0, <2>1 DEF Exists, TargetExists
<1>4. CASE UpdateRequest(v)
  <2>1. tx[v] \in [pc : {"reread", "updated"}, op : RequestOps, actor : Users,
                   target : Requests, read : Row, entity : Row, base : Row]
    BY <1>4, Shapes DEF UpdateRequest
  <2>2. tx'[v] = [tx[v] EXCEPT !.pc = "updated"] /\ rows' = rows /\ tx[v].pc = "reread"
    BY <1>4, BecomeOthers DEF UpdateRequest, dbVars
  <2>3. /\ tx'[v].target = tx[v].target
        /\ tx'[v].entity = tx[v].entity
        /\ tx'[v].base = tx[v].base
    BY <2>1, <2>2
  <2> QED
    BY <1>0, <2>2, <2>3 DEF Exists, TargetExists
<1>5. CASE ReadNumber(v) \/ InsertRequest(v)
  <2>1. tx'[v].pc \in {"numbered", "inserted", "idle"}
    BY <1>5 DEF ReadNumber, InsertRequest, Become, Idle
  <2> QED
    BY <2>1 DEF TargetExists
<1>6. CASE tx'[v].pc \notin {"loaded", "reread", "updated", "numbered", "inserted"}
  BY <1>6 DEF TargetExists
<1> QED
  BY <1>1, <1>2, <1>3, <1>4, <1>5, <1>6, Moves

(* No transaction works on a request at the start.                          *)
LEMMA InitTargets == Init => TargetsExist
  BY DEF Init, TargetsExist, TargetExists, Idle

(* Every variable keeps its type, and a transaction's request keeps being   *)
(* there with the initiator it was read with.                               *)
THEOREM SpecTypeInv == Spec => []TypeInv
<1>1. Init => TypeInv
  BY InitType, InitTargets DEF TypeInv
<1>2. TypeInv /\ [Next]_vars => TypeInv'
  BY NextType, NextTargets DEF TypeInv
<1> QED
  BY <1>1, <1>2, PTL DEF Spec

(* The type invariant of the use cases (every operation of use_cases.py).   *)
THEOREM SpecTypeOK == Spec => []TypeOK
  BY SpecTypeInv, PTL DEF TypeInv

-----------------------------------------------------------------------------
(* Request numbers.                                                         *)

(* A year's set of numbers holds n exactly when the unique index finds n.   *)
LEMMA NumbersOfElements ==
  ASSUME TypeOK, NEW y \in Years
  PROVE  /\ NumbersOf(y) \subseteq Nat
         /\ \A n \in Nat : n \in NumbersOf(y) <=> NumberTaken(y, n)
<1>1. \A r \in Requests : Exists(r) =>
        /\ rows[r].number \in Years \X Nat
        /\ rows[r].number = <<rows[r].number[1], rows[r].number[2]>>
  BY DEF TypeOK, Exists, Row
<1> QED
  BY <1>1 DEF NumbersOf, NumberTaken

(* The unique number catches exactly the stale readers of the counter.      *)
LEMMA FreshNumber ==
  ASSUME TypeOK, NumbersExact, NEW y \in Years, NEW n \in Nat,
         BaseValue <= n, n <= seq[y], ~ NumberTaken(y, n + 1)
  PROVE  n = seq[y]
<1>1. n + 1 \notin NumbersOf(y)
  BY NumbersOfElements
<1>2. seq[y] \in Nat /\ NumbersOf(y) = (BaseValue + 1)..seq[y]
  BY DEF NumbersExact, TypeOK
<1> QED
  BY <1>1, <1>2 DEF BaseValue

(* What each transaction knows about the counter it has read.               *)
LEMMA CounterKnown ==
  ASSUME TypeInv, CounterInv, [Next]_vars, NEW v \in Workers,
         \A y \in Years : seq[y] <= seq'[y]
  PROVE  tx'[v].pc \in {"numbered", "inserted"} =>
           BaseValue <= tx'[v].last /\ tx'[v].last <= seq'[tx'[v].year]
<1> USE DEF TypeInv, TypeOK
<1>1. CASE tx'[v] = tx[v] /\ tx[v].pc \in {"numbered", "inserted"}
  <2>1. tx[v].year \in Years /\ tx[v].last \in Nat
    BY <1>1, Shapes
  <2>2. seq[tx[v].year] <= seq'[tx[v].year]
    BY <2>1
  <2>3. seq' \in [Years -> Nat]
    BY NextType
  <2> QED
    BY <1>1, <2>1, <2>2, <2>3 DEF CounterInv, BaseValue
<1>2. CASE ReadNumber(v)
  <2>1. tx'[v].year = year /\ tx'[v].last = seq[year] /\ seq' = seq
    BY <1>2 DEF ReadNumber, Become, dbVars
  <2> QED
    BY <2>1 DEF CounterInv
<1>3. CASE InsertRequest(v)
  <2>1. /\ tx[v].pc = "numbered" /\ seq' = seq
        /\ tx'[v].pc = "inserted" =>
             tx'[v].year = tx[v].year /\ tx'[v].last = tx[v].last
        /\ tx'[v].pc \in {"idle", "inserted"}
    BY <1>3 DEF InsertRequest, Become, Idle, dbVars
  <2> QED
    BY <2>1 DEF CounterInv
<1>4. CASE LoadRequest(v) \/ RereadRequest(v) \/ UpdateRequest(v)
  <2>1. tx'[v].pc \in {"loaded", "reread", "updated"}
    <3>1. UpdateRequest(v) => tx[v] \in [pc : {"reread", "updated"}, op : RequestOps,
                  actor : Users, target : Requests, read : Row, entity : Row, base : Row]
      BY Shapes DEF UpdateRequest
    <3> QED
      BY <1>4, <3>1 DEF LoadRequest, RereadRequest, UpdateRequest, Become
  <2> QED
    BY <2>1
<1> QED
  BY <1>1, <1>2, <1>3, <1>4, Moves

(* Whoever holds the counter's row holds it alone and knows its value, as   *)
(* long as no submission commits.                                           *)
LEMMA CounterHeld ==
  ASSUME TypeInv, CounterInv, [Next]_vars, seq' = seq,
         NEW v \in Workers, tx'[v].pc = "inserted"
  PROVE  /\ tx'[v].last = seq'[tx'[v].year]
         /\ \A u \in Workers :
              tx'[u].pc = "inserted" /\ tx'[u].year = tx'[v].year => u = v
<1> USE DEF TypeInv, TypeOK
<1>1. \A u \in Workers : tx'[u].pc = "inserted" =>
        \/ tx'[u] = tx[u]
        \/ /\ InsertRequest(u) /\ tx'[u].year = tx[u].year
           /\ tx'[u].last = tx[u].last /\ ~ NumberTaken(tx[u].year, tx[u].last + 1)
  <2> SUFFICES ASSUME NEW u \in Workers, tx'[u].pc = "inserted", tx'[u] # tx[u]
               PROVE  /\ InsertRequest(u) /\ tx'[u].year = tx[u].year
                      /\ tx'[u].last = tx[u].last
                      /\ ~ NumberTaken(tx[u].year, tx[u].last + 1)
    OBVIOUS
  <2>1. ~ UpdateRequest(u)
    <3> SUFFICES ASSUME UpdateRequest(u) PROVE FALSE
      OBVIOUS
    <3>1. tx[u] \in [pc : {"reread", "updated"}, op : RequestOps,
                  actor : Users, target : Requests, read : Row, entity : Row, base : Row]
      BY Shapes DEF UpdateRequest
    <3> QED
      BY <3>1 DEF UpdateRequest, Become
  <2>2. ~ LoadRequest(u) /\ ~ RereadRequest(u) /\ ~ ReadNumber(u)
    BY DEF LoadRequest, RereadRequest, ReadNumber, Become
  <2>3. InsertRequest(u)
    BY <2>1, <2>2, Moves
  <2> QED
    BY <2>3 DEF InsertRequest, Become, Idle
<1>2. CASE tx'[v] = tx[v]
  <2>1. \A u \in Workers : InsertRequest(u) => tx[u].year # tx[v].year
    BY <1>2 DEF InsertRequest, SeqLocked
  <2> QED
    BY <1>1, <1>2, <2>1 DEF CounterInv
<1>3. CASE tx'[v] # tx[v]
  <2>1. /\ InsertRequest(v) /\ tx'[v].year = tx[v].year
        /\ tx'[v].last = tx[v].last
        /\ ~ NumberTaken(tx[v].year, tx[v].last + 1)
    BY <1>1, <1>3
  <2>2. tx[v].pc = "numbered" /\ tx[v].year \in Years /\ tx[v].last \in Nat
    BY <2>1, Shapes DEF InsertRequest
  <2>3. tx[v].last = seq[tx[v].year]
    BY <2>1, <2>2, FreshNumber DEF CounterInv
  <2>4. \A u \in Workers \ {v} : tx'[u] = tx[u]
    BY <2>1 DEF InsertRequest, Become
  <2>5. \A u \in Workers : tx[u].pc = "inserted" => tx[u].year # tx[v].year
    BY <2>1 DEF InsertRequest, SeqLocked
  <2> QED
    BY <2>1, <2>3, <2>4, <2>5
<1> QED
  BY <1>2, <1>3

(* Without a submission the set of numbers given out does not change.       *)
LEMMA NumbersKept ==
  ASSUME TypeInv, CounterInv, [Next]_vars, \A w \in Workers : ~ CommitSubmit(w)
  PROVE  NumbersExact' /\ seq' = seq
<1> USE DEF TypeInv, TypeOK
<1>1. seq' = seq
  BY Frame
<1>2. \A r \in Requests : /\ Exists(r)' <=> Exists(r)
                          /\ Exists(r) => rows'[r].number = rows[r].number
  <2> SUFFICES ASSUME NEW r \in Requests
               PROVE  /\ Exists(r)' <=> Exists(r)
                      /\ Exists(r) => rows'[r].number = rows[r].number
    OBVIOUS
  <2>1. Exists(r) => Exists(r)' /\ rows'[r].number = rows[r].number
    BY RowsPermanent
  <2>2. ASSUME NEW w \in Workers, CommitRequest(w), ~ Exists(r) PROVE ~ Exists(r)'
    <3>1. TargetExists(w) /\ tx[w].pc = "updated"
      BY <2>2 DEF TargetsExist, CommitRequest
    <3>2. r # tx[w].target
      BY <2>2, <3>1 DEF TargetExists
    <3> QED
      BY <2>2, <3>2 DEF CommitRequest, Exists
  <2> QED
    BY <2>1, <2>2, Frame DEF Exists
<1>3. \A y \in Years : NumbersOf(y)' = NumbersOf(y)
  BY <1>2 DEF NumbersOf
<1> QED
  BY <1>1, <1>2, <1>3 DEF NumbersExact, CounterInv

(* A submission gives out the next number and moves the counter to it.      *)
LEMMA NumberGiven ==
  ASSUME TypeInv, CounterInv, [Next]_vars, NEW w \in Workers, CommitSubmit(w)
  PROVE  /\ NumbersExact'
         /\ tx[w].year \in Years
         /\ tx[w].last = seq[tx[w].year]
         /\ seq' = [seq EXCEPT ![tx[w].year] = @ + 1]
<1> USE DEF TypeInv, TypeOK
<1>0. /\ tx[w].pc = "inserted" /\ tx[w].year \in Years /\ tx[w].last \in Nat
      /\ tx[w].actor \in Users
  BY Shapes DEF CommitSubmit
<1>1. PICK y \in Years : y = tx[w].year
  BY <1>0
<1>2. /\ tx[w].last = seq[y] /\ seq[y] \in Nat /\ seq[y] >= BaseValue
      /\ NumbersOf(y) = (BaseValue + 1)..seq[y]
  BY <1>0, <1>1 DEF CounterInv, NumbersExact
<1>3. PICK n \in Nat : n = seq[y] + 1
  BY <1>2
<1>4. PICK q \in Requests :
        ~ Exists(q) /\ rows' = [rows EXCEPT ![q] = NewRow(tx[w].actor, y, n)]
  BY <1>1, <1>2, <1>3 DEF CommitSubmit
<1>5. /\ Exists(q)' /\ rows'[q].number = <<y, n>>
      /\ \A r \in Requests \ {q} : rows'[r] = rows[r]
  <2>1. NewRow(tx[w].actor, y, n) \in Row
    BY <1>0 DEF NewRow, Row, Statuses
  <2>2. rows'[q] = NewRow(tx[w].actor, y, n)
    BY <1>4
  <2> QED
    BY <1>4, <2>1, <2>2, RowNotAbsent DEF NewRow, Exists
<1>6. seq' = [seq EXCEPT ![y] = n]
  BY <1>1, <1>2, <1>3 DEF CommitSubmit
<1>7. ~ NumberTaken(y, n)
  <2>1. n \notin NumbersOf(y)
    BY <1>2, <1>3 DEF BaseValue
  <2> QED
    BY <2>1, NumbersOfElements
<1>8. \A r \in Requests, x \in Requests :
        Exists(r)' /\ Exists(x)' /\ rows'[r].number = rows'[x].number => r = x
  <2>1. \A r \in Requests \ {q} : Exists(r)' => Exists(r) /\ rows'[r].number # <<y, n>>
    BY <1>5, <1>7 DEF NumberTaken, Exists
  <2>2. \A r \in Requests \ {q}, x \in Requests \ {q} :
          Exists(r)' /\ Exists(x)' /\ rows'[r].number = rows'[x].number => r = x
    BY <1>5, <2>1 DEF CounterInv, NumbersExact
  <2> QED
    BY <1>5, <2>1, <2>2
<1>9. \A z \in Years : NumbersOf(z)' = IF z = y THEN NumbersOf(z) \cup {n}
                                              ELSE NumbersOf(z)
  <2>1. \A r \in Requests \ {q} : /\ Exists(r)' <=> Exists(r)
                                  /\ rows'[r].number = rows[r].number
    BY <1>5 DEF Exists
  <2>2. Exists(q)' /\ ~ Exists(q) /\ rows'[q].number[1] = y /\ rows'[q].number[2] = n
    BY <1>4, <1>5
  <2> QED
    BY <2>1, <2>2 DEF NumbersOf
<1>10. \A z \in Years : NumbersOf(z)' = (BaseValue + 1)..seq'[z]
  <2> SUFFICES ASSUME NEW z \in Years
               PROVE  NumbersOf(z)' = (BaseValue + 1)..seq'[z]
    OBVIOUS
  <2>1. CASE z = y
    <3>1. NumbersOf(z)' = ((BaseValue + 1)..seq[y]) \cup {n} /\ seq'[z] = n
      BY <1>2, <1>6, <1>9, <2>1
    <3>2. ((BaseValue + 1)..seq[y]) \cup {n} = (BaseValue + 1)..n
      BY <1>2, <1>3 DEF BaseValue
    <3> QED
      BY <3>1, <3>2
  <2>2. CASE z # y
    BY <1>6, <1>9, <2>2 DEF CounterInv, NumbersExact
  <2> QED
    BY <2>1, <2>2
<1>11. NumbersExact'
  BY <1>8, <1>10 DEF NumbersExact
<1> QED
  BY <1>0, <1>1, <1>2, <1>3, <1>6, <1>11

(* Every step keeps the counter's invariant: the commit of a submission by   *)
(* NumberGiven, every other step by CounterKnown, CounterHeld, NumbersKept. *)
LEMMA NextCounter == TypeInv /\ CounterInv /\ [Next]_vars => CounterInv'
<1> SUFFICES ASSUME TypeInv, CounterInv, [Next]_vars PROVE CounterInv'
  OBVIOUS
<1> USE DEF TypeInv, TypeOK
<1>1. CASE \A w \in Workers : ~ CommitSubmit(w)
  <2>1. NumbersExact' /\ seq' = seq
    BY <1>1, NumbersKept
  <2>2. \A y \in Years : seq[y] <= seq'[y]
    BY <2>1
  <2> QED
    BY <2>1, <2>2, CounterKnown, CounterHeld DEF CounterInv
<1>2. ASSUME NEW w \in Workers, CommitSubmit(w) PROVE CounterInv'
  <2> DEFINE y == tx[w].year
  <2>1. /\ NumbersExact' /\ y \in Years /\ tx[w].pc = "inserted"
        /\ seq' = [seq EXCEPT ![y] = @ + 1]
    BY <1>2, NumberGiven DEF CommitSubmit
  <2>2. \A z \in Years : seq'[z] \in Nat /\ seq[z] <= seq'[z] /\ seq'[z] >= BaseValue
    BY <2>1 DEF CounterInv, BaseValue
  <2>3. \A v \in Workers : tx'[v].pc = "inserted" =>
          tx'[v] = tx[v] /\ tx[v].year # y /\ tx[v].year \in Years
    <3> SUFFICES ASSUME NEW v \in Workers, tx'[v].pc = "inserted"
                 PROVE  tx'[v] = tx[v] /\ tx[v].year # y /\ tx[v].year \in Years
      OBVIOUS
    <3>1. v # w /\ tx'[v] = tx[v]
      BY <1>2 DEF CommitSubmit, Become, Idle
    <3> QED
      BY <2>1, <3>1, Shapes DEF CounterInv
  <2>4. \A v \in Workers : tx'[v].pc = "inserted" =>
          /\ tx'[v].last = seq'[tx'[v].year]
          /\ \A u \in Workers :
               tx'[u].pc = "inserted" /\ tx'[u].year = tx'[v].year => u = v
    BY <2>1, <2>3 DEF CounterInv
  <2> QED
    BY <2>1, <2>2, <2>4, CounterKnown DEF CounterInv
<1> QED
  BY <1>1, <1>2

(* Every year starts with its counter at 100 and no number given out.       *)
LEMMA InitCounter == Init => CounterInv
<1> SUFFICES ASSUME Init PROVE CounterInv
  OBVIOUS
<1>1. \A r \in Requests : ~ Exists(r)
  BY DEF Init, Exists
<1>2. \A y \in Years : NumbersOf(y) = (BaseValue + 1)..seq[y]
  BY <1>1 DEF NumbersOf, Init, BaseValue
<1>3. NumbersExact
  BY <1>1, <1>2 DEF NumbersExact
<1> QED
  BY <1>3 DEF CounterInv, Init, Idle, BaseValue

(* Whatever a handler has read of the counter is never too large, and one   *)
(* that is past the unique number holds the year's counter alone.           *)
THEOREM SpecCounterInv == Spec => []CounterInv
<1>1. Init => TypeInv /\ CounterInv
  BY InitType, InitTargets, InitCounter DEF TypeInv
<1>2. TypeInv /\ CounterInv /\ [Next]_vars => (TypeInv /\ CounterInv)'
  BY NextType, NextTargets, NextCounter DEF TypeInv
<1> QED
  BY <1>1, <1>2, PTL DEF Spec

(* With any number of handlers submitting at once, request numbers are      *)
(* unique and gapless: the unique constraint turns every stale read of the  *)
(* counter into a rolled-back submission.                                   *)
THEOREM SpecNumbersExact == Spec => []NumbersExact
  BY SpecCounterInv, PTL DEF CounterInv
=============================================================================
