--------------------------- MODULE PassRequests ---------------------------
(***************************************************************************)
(* The use cases of the bot (application/use_cases.py) over the database    *)
(* (infrastructure/persistence), as run_db executes them: a worker takes    *)
(* one event, resolves its sender in a first transaction and runs the use   *)
(* case in a second one.  A transaction commits or rolls back as a whole;   *)
(* PostgreSQL runs it at READ COMMITTED, so every SELECT and every UPDATE   *)
(* sees what has been committed by then.                                    *)
(*                                                                         *)
(* One worker is the long-polling bot, which handles events one by one.     *)
(* Two or more are the webhook bot, where every HTTP request is a handler   *)
(* of its own.                                                              *)
(*                                                                         *)
(* Names with an underscore are slips, see RequestStateMachine.             *)
(***************************************************************************)
EXTENDS Integers, Sequences, FiniteSets, RequestStateMachine

CONSTANTS Users,            \* users known to the bot
          TechAdmins,       \* those listed in TECH_ADMIN_MAX_IDS
          Nobody,           \* NULL in a column that names a user
          Workers,          \* handlers that can be in flight at once
          Requests,         \* the request identifiers (uuid4)
          Years,            \* the calendar years the clock goes through
          Operations,       \* the use cases that events ask for
          MaxAudit          \* bound: no new event for a request with so
                            \* many audit events

RequestOps == {"cancel", "answer", "approve", "reject", "clarify", "close"}

AllOperations == RequestOps \cup {"submit", "consent", "setadmin"}

(* Operations that arrive as a text message: on_text checks the consent.    *)
TextOps == {"answer", "clarify", "setadmin"}

ASSUME ConstantsAssumption ==
  /\ TechAdmins \subseteq Users
  /\ Nobody \notin Users
  /\ Years \subseteq Nat /\ Years # {}
  /\ Operations \subseteq AllOperations
  /\ MaxAudit \in Nat

ASSUME WorkersAssumption == IsFiniteSet(Workers)

VARIABLES year,             \* the year of SystemClock.today()
          role,             \* users.role
          consented,        \* users with a consent_records row
          consentLog,       \* consent_accepted audit events of each user
          draft,            \* users whose bot_sessions row is complete
          rows,             \* requests
          audit,            \* audit events of each request
          seq,              \* request_number_seq.last_value of each year
          tx                \* what each worker is doing

vars == <<year, role, consented, consentLog, draft, rows, audit, seq, tx>>

dbVars == <<year, role, consented, consentLog, draft, rows, audit, seq>>

-----------------------------------------------------------------------------
(* Rows, entities and transactions.                                         *)

Absent == [status |-> "absent"]

Row == [status    : Statuses,
        initiator : Users,
        number    : Years \X Nat,
        decidedBy : Users \cup {Nobody},
        reason    : BOOLEAN,      \* reject_reason is set
        question  : BOOLEAN,      \* clarification_question is set
        answer    : BOOLEAN]      \* clarification_answer is set

(* A sequence row is inserted with last_value 100 and stepped at once, so a *)
(* year whose value is still BaseValue has no row.                          *)
BaseValue == 100

Idle == [pc |-> "idle"]

(* read is the row as get() found it, entity is what execute() made of it,  *)
(* base the row as save() found it.                                         *)
Transactions ==
  {Idle}
  \cup [pc : {"resolved"}, op : RequestOps, actor : Users, role : Roles,
        target : Requests]
  \cup [pc : {"resolved"}, op : {"setadmin"}, actor : Users, role : Roles,
        target : Users]
  \cup [pc : {"resolved"}, op : {"submit", "consent"}, actor : Users,
        role : Roles, target : {Nobody}]
  \cup [pc : {"loaded"}, op : RequestOps, actor : Users,
        target : Requests, read : Row, entity : Row]
  \cup [pc : {"reread", "updated"}, op : RequestOps, actor : Users,
        target : Requests, read : Row, entity : Row, base : Row]
  \cup [pc : {"drafted"}, op : {"submit"}, actor : Users]
  \cup [pc : {"numbered"}, op : {"submit"}, actor : Users,
        year : Years, last : Nat]
  \cup [pc : {"inserted"}, op : {"submit"}, actor : Users,
        year : Years, last : Nat, hasDraft : BOOLEAN]
  \cup [pc : {"checked"}, op : {"consent"}, actor : Users]
  \cup [pc : {"recording"}, op : {"consent"}, actor : Users, adds : BOOLEAN]
  \cup [pc : {"granting"}, op : {"setadmin"}, target : Users, base : Roles]

EventTypes == {"submitted", "approved", "rejected", "clarification_requested",
               "clarification_answered", "cancelled", "closed"}

TypeOK ==
  /\ year \in Years
  /\ role \in [Users -> Roles]
  /\ consented \subseteq Users
  /\ consentLog \in [Users -> Nat]
  /\ draft \subseteq Users
  /\ rows \in [Requests -> Row \cup {Absent}]
  /\ audit \in [Requests -> Seq([type : EventTypes, actor : Users])]
  /\ seq \in [Years -> Nat]
  /\ tx \in [Workers -> Transactions]

Exists(r) == rows[r] # Absent

(* Every user has talked to the bot and the seed has run; nothing else yet. *)
Init ==
  /\ year \in Years /\ \A y \in Years : year <= y
  /\ role = [u \in Users |-> IF u \in TechAdmins THEN "tech_admin"
                                                 ELSE "initiator"]
  /\ consented = {}
  /\ consentLog = [u \in Users |-> 0]
  /\ draft = {}
  /\ rows = [r \in Requests |-> Absent]
  /\ audit = [r \in Requests |-> << >>]
  /\ seq = [y \in Years |-> BaseValue]
  /\ tx = [w \in Workers |-> Idle]

Become(w, t) == tx' = [tx EXCEPT ![w] = t]

-----------------------------------------------------------------------------
(* An event arrives: _resolve_user commits a transaction of its own, and    *)
(* the role it returns is what the use case will judge the actor by.        *)

SubmitsInFlight == {w \in Workers : tx[w] # Idle /\ tx[w].op = "submit"}

RoomForRequest ==
  Cardinality({r \in Requests : Exists(r)}) + Cardinality(SubmitsInFlight)
    < Cardinality(Requests)

Targets(op) ==
  CASE op \in RequestOps -> {r \in Requests : Exists(r) /\ Len(audit[r]) < MaxAudit}
    [] op = "setadmin"   -> Users
    [] op = "submit"     -> IF RoomForRequest THEN {Nobody} ELSE {}
    [] op = "consent"    -> {Nobody}

Receive(w) ==
  /\ tx[w] = Idle
  /\ \E u \in Users, op \in Operations :
       /\ op \in TextOps => u \in consented
       /\ \E t \in Targets(op) :
            Become(w, [pc |-> "resolved", op |-> op, actor |-> u,
                       role |-> role[u], target |-> t])
  /\ UNCHANGED dbVars

-----------------------------------------------------------------------------
(* Cancel, answer, approve, reject, clarify, close.                         *)

TargetStatus == [cancel  |-> "cancelled", answer |-> "pending",
                 approve |-> "approved",  reject |-> "rejected",
                 clarify |-> "clarification", close |-> "closed"]

(* Slip: the audit event of another operation.                              *)
EventOf_CloseAsApproved ==
           [cancel  |-> "cancelled", answer |-> "clarification_answered",
            approve |-> "approved",  reject |-> "rejected",
            clarify |-> "clarification_requested", close |-> "approved"]

EventOf == [cancel  |-> "cancelled", answer |-> "clarification_answered",
            approve |-> "approved",  reject |-> "rejected",
            clarify |-> "clarification_requested", close |-> "closed"]

(* The checks of each execute(), on the entity it has read.                 *)
MayCancel(e, u) == e.initiator = u

(* Slip: the initiator is not compared, only asserted to the state machine. *)
MayAnswer_Anybody(e, u) == e.status = "clarification"

MayAnswer(e, u) == e.initiator = u /\ e.status = "clarification"

MayDecide(e, actorRole) == RequireAdmin(actorRole) /\ e.status = "pending"

MayClose(e, actorRole) ==
  RequireAdmin(actorRole) /\ e.status \in {"approved", "rejected"}

Permitted(op, e, u, actorRole) ==
  /\ CASE op = "cancel" -> MayCancel(e, u)
       [] op = "answer" -> MayAnswer(e, u)
       [] op = "close"  -> MayClose(e, actorRole)
       [] OTHER         -> MayDecide(e, actorRole)
  /\ EnsureTransition(e.status, TargetStatus[op], actorRole,
                      op \in {"cancel", "answer"})

(* What each execute() assigns to the entity.                               *)
(* Slip: a rejection is not signed.                                         *)
Edited_UnsignedReject(op, e, u) ==
  [e EXCEPT !.status    = TargetStatus[op],
            !.decidedBy = IF op = "approve" THEN u ELSE @,
            !.reason    = IF op = "reject" THEN TRUE ELSE @,
            !.question  = IF op = "clarify" THEN TRUE ELSE @,
            !.answer    = IF op = "answer" THEN TRUE ELSE @]

(* Slip: closing a request signs it again.                                  *)
Edited_SignedClose(op, e, u) ==
  [e EXCEPT !.status    = TargetStatus[op],
            !.decidedBy = IF op \in {"approve", "reject", "close"} THEN u ELSE @,
            !.reason    = IF op = "reject" THEN TRUE ELSE @,
            !.question  = IF op = "clarify" THEN TRUE ELSE @,
            !.answer    = IF op = "answer" THEN TRUE ELSE @]

Edited(op, e, u) ==
  [e EXCEPT !.status    = TargetStatus[op],
            !.decidedBy = IF op \in {"approve", "reject"} THEN u ELSE @,
            !.reason    = IF op = "reject" THEN TRUE ELSE @,
            !.question  = IF op = "clarify" THEN TRUE ELSE @,
            !.answer    = IF op = "answer" THEN TRUE ELSE @]

LoadRequest(w) ==
  LET t == tx[w] IN
  /\ t.pc = "resolved" /\ t.op \in RequestOps
  /\ Exists(t.target)
  /\ Permitted(t.op, rows[t.target], t.actor, t.role)
  /\ Become(w, [pc |-> "loaded", op |-> t.op, actor |-> t.actor,
                target |-> t.target, read |-> rows[t.target],
                entity |-> Edited(t.op, rows[t.target], t.actor)])
  /\ UNCHANGED dbVars

(* save() selects the row again: the session's identity map is weak and     *)
(* get() kept only the entity, not the model object.                        *)
RereadRequest(w) ==
  LET t == tx[w] IN
  /\ t.pc = "loaded"
  /\ Become(w, [pc |-> "reread", op |-> t.op, actor |-> t.actor,
                target |-> t.target, read |-> t.read, entity |-> t.entity,
                base |-> rows[t.target]])
  /\ UNCHANGED dbVars

(* The flush sends the UPDATE, which holds the row's lock until the end of  *)
(* the transaction (updated_at always differs, so there always is one).     *)
RowLocked(r) == \E v \in Workers : tx[v].pc = "updated" /\ tx[v].target = r

UpdateRequest(w) ==
  LET t == tx[w] IN
  /\ t.pc = "reread"
  /\ ~ RowLocked(t.target)
  /\ Become(w, [t EXCEPT !.pc = "updated"])
  /\ UNCHANGED dbVars

(* The UPDATE sets the columns in which entity and re-read row differ, on   *)
(* top of whatever is committed.  The audit event commits with it.          *)
Merged(current, entity, base) ==
  [c \in DOMAIN current |->
     IF entity[c] = base[c] THEN current[c] ELSE entity[c]]

CommitRequest(w) ==
  LET t == tx[w] IN
  /\ t.pc = "updated"
  /\ rows' = [rows EXCEPT ![t.target] = Merged(@, t.entity, t.base)]
  /\ audit' = [audit EXCEPT ![t.target] =
                 Append(@, [type |-> EventOf[t.op], actor |-> t.actor])]
  /\ Become(w, Idle)
  /\ UNCHANGED <<year, role, consented, consentLog, draft, seq>>

-----------------------------------------------------------------------------
(* Submit: read the draft and the consent, read the counter, step it and    *)
(* insert the request, commit together with the removal of the draft.       *)

MaySubmit(u) == u \in draft /\ u \in consented

LoadDraft(w) ==
  LET t == tx[w] IN
  /\ t.pc = "resolved" /\ t.op = "submit"
  /\ MaySubmit(t.actor)
  /\ Become(w, [pc |-> "drafted", op |-> "submit", actor |-> t.actor])
  /\ UNCHANGED dbVars

ReadNumber(w) ==
  LET t == tx[w] IN
  /\ t.pc = "drafted"
  /\ Become(w, [pc |-> "numbered", op |-> "submit", actor |-> t.actor,
                year |-> year, last |-> seq[year]])
  /\ UNCHANGED dbVars

SeqLocked(y) == \E v \in Workers : tx[v].pc = "inserted" /\ tx[v].year = y

(* requests.number is unique, and so is the year of a sequence row: a       *)
(* violation raises IntegrityError, and the transaction rolls back.         *)
NumberTaken_NotUnique(y, n) == FALSE     \* slip: no unique constraint

NumberTaken(y, n) == \E r \in Requests : Exists(r) /\ rows[r].number = <<y, n>>

SeqRowClash(y, last) == last = BaseValue /\ seq[y] # BaseValue

(* Slip: the insert is repeated with the number that was taken.             *)
InsertRequest_RetrySame(w) ==
  LET t == tx[w] IN
  /\ t.pc = "numbered"
  /\ ~ SeqLocked(t.year)
  /\ ~ NumberTaken(t.year, t.last + 1)
  /\ Become(w, [pc |-> "inserted", op |-> "submit", actor |-> t.actor,
                year |-> t.year, last |-> t.last,
                hasDraft |-> t.actor \in draft])
  /\ UNCHANGED dbVars

InsertRequest(w) ==
  LET t == tx[w] IN
  /\ t.pc = "numbered"
  /\ ~ SeqLocked(t.year)
  /\ Become(w, IF SeqRowClash(t.year, t.last) \/ NumberTaken(t.year, t.last + 1)
               THEN Idle
               ELSE [pc |-> "inserted", op |-> "submit", actor |-> t.actor,
                     year |-> t.year, last |-> t.last,
                     hasDraft |-> t.actor \in draft])
  /\ UNCHANGED dbVars

NewRow_Created(u, y, n) ==               \* slip: an event for a status
  [status |-> "created", initiator |-> u, number |-> <<y, n>>,
   decidedBy |-> Nobody, reason |-> FALSE, question |-> FALSE, answer |-> FALSE]

NewRow(u, y, n) ==
  [status |-> "pending", initiator |-> u, number |-> <<y, n>>,
   decidedBy |-> Nobody, reason |-> FALSE, question |-> FALSE, answer |-> FALSE]

(* Slip: the draft survives the submission.                                 *)
CommitSubmit_KeepDraft(w) ==
  LET t == tx[w] IN
  /\ t.pc = "inserted"
  /\ \E r \in Requests :
       /\ ~ Exists(r)
       /\ rows' = [rows EXCEPT ![r] = NewRow(t.actor, t.year, t.last + 1)]
       /\ audit' = [audit EXCEPT ![r] =
                      <<[type |-> "submitted", actor |-> t.actor]>>]
  /\ seq' = [seq EXCEPT ![t.year] = t.last + 1]
  /\ Become(w, Idle)
  /\ UNCHANGED <<year, role, consented, consentLog, draft>>

(* Slip: the clock is read again for the number that is written.            *)
CommitSubmit_ClockTwice(w) ==
  LET t == tx[w] IN
  /\ t.pc = "inserted"
  /\ \E r \in Requests :
       /\ ~ Exists(r)
       /\ rows' = [rows EXCEPT ![r] = NewRow(t.actor, year, t.last + 1)]
       /\ audit' = [audit EXCEPT ![r] =
                      <<[type |-> "submitted", actor |-> t.actor]>>]
  /\ seq' = [seq EXCEPT ![t.year] = t.last + 1]
  /\ draft' = IF t.hasDraft THEN draft \ {t.actor} ELSE draft
  /\ Become(w, Idle)
  /\ UNCHANGED <<year, role, consented, consentLog>>

CommitSubmit(w) ==
  LET t == tx[w] IN
  /\ t.pc = "inserted"
  /\ \E r \in Requests :
       /\ ~ Exists(r)
       /\ rows' = [rows EXCEPT ![r] = NewRow(t.actor, t.year, t.last + 1)]
       /\ audit' = [audit EXCEPT ![r] =
                      <<[type |-> "submitted", actor |-> t.actor]>>]
  /\ seq' = [seq EXCEPT ![t.year] = t.last + 1]
  /\ draft' = IF t.hasDraft THEN draft \ {t.actor} ELSE draft
  /\ Become(w, Idle)
  /\ UNCHANGED <<year, role, consented, consentLog>>

-----------------------------------------------------------------------------
(* Consent: execute() looks for the row, record() looks again and returns   *)
(* silently if another handler has committed it by then; the audit event is  *)
(* added either way.  Both are inserted at the commit, where (user, version) *)
(* must still be unique: a violation loses the event with the row.          *)

(* Slip: only record() looks for the row.                                   *)
LoadConsent_Unchecked(w) ==
  LET t == tx[w] IN
  /\ t.pc = "resolved" /\ t.op = "consent"
  /\ Become(w, [pc |-> "checked", op |-> "consent", actor |-> t.actor])
  /\ UNCHANGED dbVars

LoadConsent(w) ==
  LET t == tx[w] IN
  /\ t.pc = "resolved" /\ t.op = "consent"
  /\ t.actor \notin consented
  /\ Become(w, [pc |-> "checked", op |-> "consent", actor |-> t.actor])
  /\ UNCHANGED dbVars

RereadConsent(w) ==
  LET t == tx[w] IN
  /\ t.pc = "checked"
  /\ Become(w, [pc |-> "recording", op |-> "consent", actor |-> t.actor,
                adds |-> t.actor \notin consented])
  /\ UNCHANGED dbVars

ConsentClash(t) == t.adds /\ t.actor \in consented

CommitConsent(w) ==
  LET t == tx[w] IN
  /\ t.pc = "recording"
  /\ IF ConsentClash(t)
     THEN UNCHANGED <<consented, consentLog>>
     ELSE /\ consented' = IF t.adds THEN consented \cup {t.actor} ELSE consented
          /\ consentLog' = [consentLog EXCEPT ![t.actor] = @ + 1]
  /\ Become(w, Idle)
  /\ UNCHANGED <<year, role, draft, rows, audit, seq>>

-----------------------------------------------------------------------------
(* SetUserRole, which the bot only calls with Role.ADMIN.  A row that is    *)
(* already admin is not written.                                            *)

LoadTarget(w) ==
  LET t == tx[w] IN
  /\ t.pc = "resolved" /\ t.op = "setadmin"
  /\ RequireTechAdmin(t.role)
  /\ Become(w, [pc |-> "granting", op |-> "setadmin", target |-> t.target,
                base |-> role[t.target]])
  /\ UNCHANGED dbVars

CommitRole(w) ==
  LET t == tx[w] IN
  /\ t.pc = "granting"
  /\ role' = IF t.base = "admin" THEN role
                                 ELSE [role EXCEPT ![t.target] = "admin"]
  /\ Become(w, Idle)
  /\ UNCHANGED <<year, consented, consentLog, draft, rows, audit, seq>>

-----------------------------------------------------------------------------
(* A use case that refuses raises a DomainError or returns early: nothing   *)
(* is written.                                                              *)
Refused(t) ==
  CASE t.op \in RequestOps -> \/ ~ Exists(t.target)
                              \/ ~ Permitted(t.op, rows[t.target], t.actor, t.role)
    [] t.op = "submit"     -> ~ MaySubmit(t.actor)
    [] t.op = "consent"    -> t.actor \in consented
    [] t.op = "setadmin"   -> ~ RequireTechAdmin(t.role)

Refuse(w) ==
  /\ tx[w].pc = "resolved" /\ Refused(tx[w])
  /\ Become(w, Idle)
  /\ UNCHANGED dbVars

(* Any exception before the commit (a text or date the use case rejects, a  *)
(* lost connection, the end of the process) rolls the transaction back.     *)
RollBack(w) ==
  /\ tx[w] # Idle
  /\ Become(w, Idle)
  /\ UNCHANGED dbVars

(* The wizard, seen from here: a handler that completes or discards the     *)
(* sender's draft in one transaction.                                       *)
WizardStep(w) ==
  /\ tx[w] = Idle
  /\ "submit" \in Operations
  /\ \E u \in Users : draft' \in {draft \cup {u}, draft \ {u}}
  /\ UNCHANGED <<year, role, consented, consentLog, rows, audit, seq, tx>>

NewYear ==
  /\ year + 1 \in Years
  /\ year' = year + 1
  /\ UNCHANGED <<role, consented, consentLog, draft, rows, audit, seq, tx>>

-----------------------------------------------------------------------------
(* What a worker does with an event it has taken.                           *)
Advance(w) ==
  \/ LoadRequest(w) \/ RereadRequest(w) \/ UpdateRequest(w) \/ CommitRequest(w)
  \/ LoadDraft(w) \/ ReadNumber(w) \/ InsertRequest(w) \/ CommitSubmit(w)
  \/ LoadConsent(w) \/ RereadConsent(w) \/ CommitConsent(w)
  \/ LoadTarget(w) \/ CommitRole(w)
  \/ Refuse(w)

Next ==
  \/ \E w \in Workers : Receive(w) \/ Advance(w) \/ RollBack(w) \/ WizardStep(w)
  \/ NewYear

Spec == Init /\ [][Next]_vars

(* A handler keeps running, and PostgreSQL queues the waiters of a lock, so *)
(* a wait does not lose against later comers for ever.                      *)
Fairness == \A w \in Workers : /\ WF_vars(Advance(w))
                               /\ SF_vars(UpdateRequest(w))
                               /\ SF_vars(InsertRequest(w))

FairSpec == Spec /\ Fairness

-----------------------------------------------------------------------------
(* Properties of any number of workers.                                     *)

NumbersOf(y) == {rows[r].number[2] : r \in {q \in Requests :
                                             Exists(q) /\ rows[q].number[1] = y}}

(* Request numbers are never shared, and each year's numbers run from 101   *)
(* to the counter without a gap, although the counter is read before its    *)
(* row is locked and written back blindly (allocate_number): a transaction  *)
(* that read a stale value must die on the unique number.                   *)
NumbersExact ==
  /\ \A r, q \in Requests :
       Exists(r) /\ Exists(q) /\ rows[r].number = rows[q].number => r = q
  /\ \A y \in Years : NumbersOf(y) = (BaseValue + 1)..seq[y]

OwnEvents == {"submitted", "cancelled", "clarification_answered"}

(* Every audit event was caused by someone entitled to it: the initiator    *)
(* submits, cancels and answers; everything else was done by a user who is  *)
(* still an administrator, even when the role the handler judged by was     *)
(* read in an earlier transaction and roles changed meanwhile.  The trail   *)
(* of a request starts with its only submission.                            *)
AuthorisedTrail ==
  \A r \in Requests :
    /\ Exists(r) => audit[r] # << >>
    /\ \A i \in 1..Len(audit[r]) :
         LET e == audit[r][i] IN
         /\ Exists(r)
         /\ IF e.type \in OwnEvents THEN e.actor = rows[r].initiator
                                    ELSE role[e.actor] \in AdminRoles
         /\ e.type = "submitted" <=> i = 1

ResultOf == [submitted |-> "pending", approved |-> "approved",
             rejected |-> "rejected",
             clarification_requested |-> "clarification",
             clarification_answered |-> "pending",
             cancelled |-> "cancelled", closed |-> "closed"]

(* No status without a trace: the row's status is the result of some event  *)
(* of its trail, because every save commits together with its event.        *)
StatusAudited ==
  \A r \in Requests : Exists(r) =>
    \E i \in 1..Len(audit[r]) : rows[r].status = ResultOf[audit[r][i].type]

TrailEvents(r) == {audit[r][i] : i \in 1..Len(audit[r])}

(* What the columns of a row say has happened is among the events.          *)
Accounted(m, events) ==
  /\ m.decidedBy # Nobody =>
       \E e \in events : /\ e.type \in {"approved", "rejected"}
                         /\ e.actor = m.decidedBy
  /\ m.reason => \E e \in events : e.type = "rejected"
  /\ m.question => \E e \in events : e.type = "clarification_requested"
  /\ m.answer => \E e \in events : /\ e.type = "clarification_answered"
                                  /\ e.actor = m.initiator

(* No signature without its decision: whoever a row says has decided it did *)
(* decide it at some time, and a reason, a question and an answer have been *)
(* given, even where save() mixed the columns of two handlers.              *)
ColumnsAudited ==
  \A r \in Requests : Exists(r) => Accounted(rows[r], TrailEvents(r))

(* Who has not consented has no consent event and no request; who has, has  *)
(* an event for the consent and at most one for every handler.  More than   *)
(* one only when handlers overlap: an event is written again by a handler   *)
(* that looked before the first commit and looked again after it            *)
(* (use_cases.py:47, repositories.py:141), and such a handler was there at  *)
(* that commit.  The long-polling bot logs each consent once.               *)
ConsentTrail ==
  /\ \A u \in Users :
       consentLog[u] \in IF u \in consented THEN 1..Cardinality(Workers) ELSE {0}
  /\ \A r \in Requests : Exists(r) => rows[r].initiator \in consented

(* Every event a worker has taken is finished, waits for row locks included. *)
HandlerFinishes == \A w \in Workers : tx[w] # Idle ~> tx[w] = Idle

(* A request that a transaction works on exists, and its initiator is the   *)
(* one the transaction has read: rows are never deleted or handed over.     *)
TargetExists(w) ==
  tx[w].pc \in {"loaded", "reread", "updated"} =>
    /\ Exists(tx[w].target)
    /\ tx[w].entity.initiator = rows[tx[w].target].initiator
    /\ tx[w].entity.number = rows[tx[w].target].number
    /\ tx[w].pc # "loaded" =>
         /\ tx[w].base.initiator = rows[tx[w].target].initiator
         /\ tx[w].base.number = rows[tx[w].target].number

TargetsExist == \A w \in Workers : TargetExists(w)

(* Why NumbersExact survives the race: what a transaction has read of the   *)
(* counter can only be too small, and whoever has got past the unique       *)
(* number holds the counter's row alone, with its current value.            *)
CounterInv ==
  /\ NumbersExact
  /\ \A y \in Years : seq[y] >= BaseValue
  /\ \A w \in Workers : tx[w].pc \in {"numbered", "inserted"} =>
       /\ BaseValue <= tx[w].last
       /\ tx[w].last <= seq[tx[w].year]
  /\ \A w \in Workers : tx[w].pc = "inserted" =>
       /\ tx[w].last = seq[tx[w].year]
       /\ \A v \in Workers :
            tx[v].pc = "inserted" /\ tx[v].year = tx[w].year => v = w

-----------------------------------------------------------------------------
(* Properties of the long-polling bot: one worker.                          *)

(* The decision columns tell the story of the status: a decision is signed  *)
(* exactly when there is one, a reject reason never stands beside an        *)
(* approval, and clarification and answers presuppose a question.           *)
ColumnsAgree ==
  \A r \in Requests : Exists(r) =>
    LET m == rows[r] IN
    /\ m.status \in {"approved", "rejected", "closed"} <=> m.decidedBy # Nobody
    /\ m.status = "rejected" => m.reason
    /\ m.reason => m.status \in {"rejected", "closed"}
    /\ m.answer \/ m.status = "clarification" => m.question
    /\ m.question /\ m.status # "clarification" /\ ~ m.answer
         => m.status = "cancelled"

(* The terminal statuses of docs/state-machine.md are never left.           *)
TerminalStable ==
  [][\A r \in Requests :
       rows[r].status \in Terminal => rows'[r].status = rows[r].status]_rows

(* Each submission uses up a draft of its initiator, so one completed       *)
(* wizard makes at most one request.                                        *)
SubmitConsumesDraft ==
  [][\A r \in Requests :
       ~ Exists(r) /\ Exists(r)' =>
         /\ rows'[r].initiator \in draft
         /\ rows'[r].initiator \notin draft']_vars

(* The rows and the audit trail implement the request's abstract life: a    *)
(* committed transaction is one atomic move of the state machine, recorded  *)
(* in order.                                                                *)
Lifecycle ==
  INSTANCE RequestLifecycle WITH
    status <- [r \in Requests |-> rows[r].status],
    trail  <- [r \in Requests |->
                 [i \in 1..Len(audit[r]) |-> ResultOf[audit[r][i].type]]]

LifecycleSpec == Lifecycle!Spec

(* A transaction is overtaken when its request is no longer as get() and    *)
(* save() have read it: another handler has committed in between.           *)
Overtaken(w) == tx[w].read # rows[tx[w].target] \/ tx[w].base # rows[tx[w].target]

(* What is left of the abstract life with any number of handlers: a commit  *)
(* leaves the state machine, or records it out of order, only when it was   *)
(* overtaken.  Roles that change under way are no way out of it.            *)
MovesUnlessOvertaken ==
  [][(\E w \in Workers : CommitRequest(w) /\ Overtaken(w))
       \/ Lifecycle!Next]_<<rows, audit>>
=============================================================================
