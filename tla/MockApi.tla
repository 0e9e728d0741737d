------------------------------ MODULE MockApi ------------------------------
(***************************************************************************)
(* The mini-app's only server: the MSW handlers in the page                 *)
(* (src/mocks/handlers.ts, state.ts).  JavaScript runs one handler at a     *)
(* time, but a handler that awaits the body of its call lets others run:    *)
(* answer, approve, reject and clarify check a request first, await, and    *)
(* then save a copy of what they had checked.                               *)
(*                                                                         *)
(* Calls come from anybody here and with any body; MiniApp says which ones  *)
(* the pages make.  Names with an underscore are slips, see                 *)
(* RequestStateMachine.                                                     *)
(***************************************************************************)
EXTENDS Integers, Sequences, FiniteSets, RequestStateMachine

CONSTANTS Users,
          DefaultUser,      \* currentUser before the first session call
          SessionUsers,     \* users a session call may name
          Colleague,        \* the initiator of the first demo request
          Nobody,
          Requests,
          Slots,            \* calls that can be in flight at once
          MaxAudit,         \* bound: no new call on a request with so many
                            \* audit events
          MaxNumber         \* bound: nothing is created beyond this number

ASSUME MockAssumption ==
  /\ SessionUsers \subseteq Users
  /\ {DefaultUser, Colleague} \subseteq Users
  /\ Nobody \notin Users
  /\ MaxAudit \in Nat /\ MaxNumber \in Nat

VARIABLES user,             \* currentUser
          role,             \* MOCK_ROLE in the browser's local storage
          accepted,         \* consentAccepted
          rows,             \* requests
          audit,            \* auditByRequest, the types of the events
          lastNumber,       \* seq
          calls             \* what each call in flight is doing

mockVars == <<user, role, accepted, rows, audit, lastNumber, calls>>

-----------------------------------------------------------------------------
Absent == [status |-> "absent"]

Row == [status    : Statuses,
        initiator : Users,
        number    : Nat,
        decidedBy : Users \cup {Nobody},  \* decision.byId, if there is one
        reason    : BOOLEAN,              \* decision.reason
        question  : BOOLEAN,              \* clarification.question
        answer    : BOOLEAN]              \* clarification.answer

EventTypes == {"submitted", "approved", "rejected", "clarification_requested",
               "clarification_answered", "cancelled", "closed"}

(* Handlers without an await between reading and saving, and with one.      *)
SyncOps  == {"cancel", "close"}
AwaitOps == {"answer", "approve", "reject", "clarify"}
OtherOps == {"session", "consent", "create"}

Idle == [pc |-> "idle"]

CallRecords ==
  {Idle}
  \cup [pc : {"sent"}, op : SyncOps \cup AwaitOps, target : Requests]
  \cup [pc : {"sent"}, op : OtherOps, target : {Nobody}]
  \cup [pc : {"body"}, op : AwaitOps, target : Requests, read : Row]
  \cup [pc : {"body"}, op : {"session"}, target : {Nobody}]
  \cup [pc : {"answered"}, op : SyncOps \cup AwaitOps \cup OtherOps,
        target : Requests \cup {Nobody}, ok : BOOLEAN]

TypeOK ==
  /\ user \in Users
  /\ role \in Roles
  /\ accepted \in BOOLEAN
  /\ rows \in [Requests -> Row \cup {Absent}]
  /\ audit \in [Requests -> Seq(EventTypes)]
  /\ lastNumber \in Nat
  /\ calls \in [Slots -> CallRecords]

Exists(r) == rows[r] # Absent

(* The page has been loaded: nothing in memory, a role in the local storage. *)
BaseValue == 100

Init ==
  /\ user = DefaultUser
  /\ role \in Roles
  /\ accepted = FALSE
  /\ rows = [r \in Requests |-> Absent]
  /\ audit = [r \in Requests |-> << >>]
  /\ lastNumber = BaseValue
  /\ calls = [c \in Slots |-> Idle]

Become(c, x) == calls' = [calls EXCEPT ![c] = x]

Answered(c, ok) ==
  [pc |-> "answered", op |-> calls[c].op, target |-> calls[c].target, ok |-> ok]

Answer(c, ok) == Become(c, Answered(c, ok))

memoryUnchanged == UNCHANGED <<user, role, accepted, rows, audit, lastNumber>>

-----------------------------------------------------------------------------
(* A call reaches the service worker.  Bound: there are identifiers for the  *)
(* creations in flight, and for the demo requests of a session call that     *)
(* will find none.                                                          *)
Existing == {r \in Requests : Exists(r)}

InRoom(op) ==
  LET sent(o) == {c \in Slots : calls[c].pc = "sent" /\ calls[c].op = o}
      taken   == Cardinality(Existing) + Cardinality(sent("create"))
      seeds   == IF Existing = {} THEN 2 ELSE 0
  IN CASE op = "create"  ->
              /\ lastNumber + Cardinality(sent("create")) < MaxNumber
              /\ taken + (IF sent("session") = {} THEN 0 ELSE seeds)
                    < Cardinality(Requests)
       [] op = "session" -> taken + seeds <= Cardinality(Requests)
       [] OTHER          -> TRUE

Send(c, op, r) ==
  /\ calls[c] = Idle
  /\ InRoom(op)
  /\ Become(c, [pc |-> "sent", op |-> op, target |-> r])
  /\ memoryUnchanged

SendAny(c) ==
  \/ \E op \in SyncOps \cup AwaitOps, r \in Existing :
       Len(audit[r]) < MaxAudit /\ Send(c, op, r)
  \/ \E op \in OtherOps : Send(c, op, Nobody)

-----------------------------------------------------------------------------
(* The checks of each handler, and what it saves.                           *)
TargetStatus == [cancel  |-> "cancelled", answer |-> "pending",
                 approve |-> "approved",  reject |-> "rejected",
                 clarify |-> "clarification", close |-> "closed"]

EventOf == [cancel  |-> "cancelled", answer |-> "clarification_answered",
            approve |-> "approved",  reject |-> "rejected",
            clarify |-> "clarification_requested", close |-> "closed"]

StatusAllows(op, status) ==
  CASE op = "cancel" -> status \in {"pending", "clarification"}
    [] op = "answer" -> status = "clarification"
    [] op = "close"  -> status \in {"approved", "rejected"}
    [] OTHER         -> status = "pending"

ActorAllowed(op, r) ==
  IF op \in {"cancel", "answer"} THEN rows[r].initiator = user
                                 ELSE role \in AdminRoles

(* Slip: a decision is accepted in any status.                              *)
Allowed_AnyStatus(op, r) == Exists(r) /\ ActorAllowed(op, r)

Allowed(op, r) ==
  Exists(r) /\ ActorAllowed(op, r) /\ StatusAllows(op, rows[r].status)

(* A decision object replaces the whole decision; the clarification object  *)
(* of a new question takes the answer of the last one along.                *)
Edited_NoAnswer(op, m, u) ==     \* slip: the answer is not stored
  [m EXCEPT !.status    = TargetStatus[op],
            !.decidedBy = IF op \in {"approve", "reject"} THEN u ELSE @,
            !.reason    = IF op = "reject" THEN TRUE ELSE @,
            !.question  = IF op = "clarify" THEN TRUE ELSE @]

Edited(op, m, u) ==
  [m EXCEPT !.status    = TargetStatus[op],
            !.decidedBy = IF op \in {"approve", "reject"} THEN u ELSE @,
            !.reason    = IF op \in {"approve", "reject"} THEN op = "reject" ELSE @,
            !.question  = IF op = "clarify" THEN TRUE ELSE @,
            !.answer    = IF op = "answer" THEN TRUE ELSE @]

Save(r, op, m) ==
  /\ rows' = [rows EXCEPT ![r] = Edited(op, m, user)]
  /\ audit' = [audit EXCEPT ![r] = Append(@, EventOf[op])]
  /\ UNCHANGED <<user, role, accepted, lastNumber>>

(* Cancel and close: one step.                                              *)
HandleAtOnce(c) ==
  LET x == calls[c] IN
  /\ x.pc = "sent" /\ x.op \in SyncOps
  /\ IF Allowed(x.op, x.target)
     THEN Save(x.target, x.op, rows[x.target]) /\ Answer(c, TRUE)
     ELSE memoryUnchanged /\ Answer(c, FALSE)

(* The others up to their await ...                                         *)
Check(c) ==
  LET x == calls[c] IN
  /\ x.pc = "sent" /\ x.op \in AwaitOps
  /\ IF Allowed(x.op, x.target)
     THEN Become(c, [pc |-> "body", op |-> x.op, target |-> x.target,
                     read |-> rows[x.target]])
     ELSE Answer(c, FALSE)
  /\ memoryUnchanged

(* ... and after it: what is saved is built from the copy read before.      *)
Store(c) ==
  LET x == calls[c] IN
  /\ x.pc = "body" /\ x.op \in AwaitOps
  /\ Save(x.target, x.op, x.read)
  /\ Answer(c, TRUE)

(* A body that is no JSON or lacks what the call needs.                     *)
RejectBody(c) ==
  /\ \/ calls[c].pc = "body"
     \/ calls[c].pc = "sent" /\ calls[c].op \in {"consent", "create"}
  /\ Answer(c, FALSE)
  /\ memoryUnchanged

-----------------------------------------------------------------------------
(* POST /requests reads nothing before its await.  It asks for no consent.  *)
NewRow(status, u, n, question) ==
  [status |-> status, initiator |-> u, number |-> n, decidedBy |-> Nobody,
   reason |-> FALSE, question |-> question, answer |-> FALSE]

Create(c) ==
  /\ calls[c].pc = "sent" /\ calls[c].op = "create"
  /\ \E r \in Requests \ Existing :
       /\ rows' = [rows EXCEPT ![r] = NewRow("pending", user, lastNumber + 1, FALSE)]
       /\ audit' = [audit EXCEPT ![r] = <<"submitted">>]
       /\ Become(c, [Answered(c, TRUE) EXCEPT !.target = r])
  /\ lastNumber' = lastNumber + 1
  /\ UNCHANGED <<user, role, accepted>>

AcceptConsent(c) ==
  /\ calls[c].pc = "sent" /\ calls[c].op = "consent"
  /\ accepted' = TRUE
  /\ Answer(c, TRUE)
  /\ UNCHANGED <<user, role, rows, audit, lastNumber>>

(* seedIfEmpty: a colleague's request, and one of the current user that     *)
(* has been asked a question.                                               *)
Seed_NoTrail(a, b) ==            \* slip: the question has no audit event
  /\ rows' = [rows EXCEPT ![a] = NewRow("pending", Colleague, lastNumber + 1, FALSE),
                          ![b] = NewRow("clarification", user, lastNumber + 2, TRUE)]
  /\ audit' = [audit EXCEPT ![a] = <<"submitted">>, ![b] = <<"submitted">>]
  /\ lastNumber' = lastNumber + 2

Seed(a, b) ==
  /\ rows' = [rows EXCEPT ![a] = NewRow("pending", Colleague, lastNumber + 1, FALSE),
                          ![b] = NewRow("clarification", user, lastNumber + 2, TRUE)]
  /\ audit' = [audit EXCEPT ![a] = <<"submitted">>,
                            ![b] = <<"submitted", "clarification_requested">>]
  /\ lastNumber' = lastNumber + 2

(* POST /auth/session seeds before it awaits the body that names the user.  *)
OpenSession(c) ==
  /\ calls[c].pc = "sent" /\ calls[c].op = "session"
  /\ Become(c, [pc |-> "body", op |-> "session", target |-> Nobody])
  /\ IF Existing = {}
     THEN \E a \in Requests : \E b \in Requests \ {a} : Seed(a, b)
     ELSE UNCHANGED <<rows, audit, lastNumber>>
  /\ UNCHANGED <<user, role, accepted>>

AnswerSession_NoCheck(c) ==      \* slip: a body without a user is not refused
  /\ calls[c].pc = "body" /\ calls[c].op = "session"
  /\ user' \in SessionUsers \cup {Nobody}
  /\ Answer(c, TRUE)
  /\ UNCHANGED <<role, accepted, rows, audit, lastNumber>>

AnswerSession(c) ==
  /\ calls[c].pc = "body" /\ calls[c].op = "session"
  /\ user' \in SessionUsers
  /\ Answer(c, TRUE)
  /\ UNCHANGED <<role, accepted, rows, audit, lastNumber>>

-----------------------------------------------------------------------------
Handle(c) ==
  \/ HandleAtOnce(c) \/ Check(c) \/ Store(c) \/ Create(c)
  \/ AcceptConsent(c) \/ OpenSession(c) \/ AnswerSession(c)

(* The caller takes the response.                                           *)
TakeResponse(c) == calls[c].pc = "answered" /\ Become(c, Idle) /\ memoryUnchanged

SetRole ==
  /\ role' \in Roles
  /\ UNCHANGED <<user, accepted, rows, audit, lastNumber, calls>>

Next ==
  \/ \E c \in Slots : SendAny(c) \/ Handle(c) \/ RejectBody(c) \/ TakeResponse(c)
  \/ SetRole

Spec == Init /\ [][Next]_mockVars

-----------------------------------------------------------------------------
(* Properties for any number of calls in flight.                            *)

ResultOf == [submitted |-> "pending", approved |-> "approved",
             rejected |-> "rejected",
             clarification_requested |-> "clarification",
             clarification_answered |-> "pending",
             cancelled |-> "cancelled", closed |-> "closed"]

(* The status is always what the last audit event says, whoever overwrote   *)
(* whom, because a request is saved whole and with its event in one go.     *)
StatusIsLastEvent ==
  \A r \in Requests : Exists(r) =>
    /\ audit[r] # << >>
    /\ rows[r].status = ResultOf[audit[r][Len(audit[r])]]

(* What a card displays fits together: a decision exactly in the statuses   *)
(* that follow one, a reason for each rejection and for nothing else, a     *)
(* question behind each answer, an answer behind whatever came after a      *)
(* question.                                                                *)
Agrees(m) ==
  /\ m.status \in {"approved", "rejected", "closed"} <=> m.decidedBy # Nobody
  /\ m.status = "rejected" => m.reason
  /\ m.reason => m.status \in {"rejected", "closed"}
  /\ m.answer \/ m.status = "clarification" => m.question
  /\ m.question /\ m.status \notin {"clarification", "cancelled"} => m.answer

(* Every request agrees with itself, although handlers save copies of       *)
(* requests that have changed in the meantime.  (In the bot, where a save    *)
(* writes single columns, this takes one event at a time.)                  *)
ColumnsAgree == \A r \in Requests : Exists(r) => Agrees(rows[r])

(* The terminal statuses stay, as long as no two calls overlap.             *)
TerminalStable ==
  [][\A r \in Requests :
       rows[r].status \in Terminal => rows'[r].status = rows[r].status]_rows

-----------------------------------------------------------------------------
(* The mock does to a request what the bot does, with one exception, the     *)
(* save of a copy that another call has made stale: apart from the demo      *)
(* requests every other change is a move of the abstract life of a request,  *)
(* with its audit event.                                                    *)
Lifecycle ==
  INSTANCE RequestLifecycle WITH
    status <- [r \in Requests |-> rows[r].status],
    trail  <- [r \in Requests |-> [i \in 1..Len(audit[r]) |-> ResultOf[audit[r][i]]]]

Seeding == Existing = {} /\ \E a, b \in Requests : a # b /\ Seed(a, b)

Overtaken == \E c \in Slots : Store(c) /\ calls[c].read # rows[calls[c].target]

MovesOfLifecycle == [][Seeding \/ Overtaken \/ Lifecycle!Next]_<<rows, audit>>
=============================================================================
