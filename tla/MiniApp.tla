------------------------------ MODULE MiniApp ------------------------------
(***************************************************************************)
(* The mini-app: what the pages cache of the session and of the requests,   *)
(* what they offer by it, and how answers find their way back into the      *)
(* caches while the user moves on (src/app, src/features, src/pages), on    *)
(* top of MockApi.  A run begins with the loading of the page; a reload     *)
(* begins another one.                                                      *)
(*                                                                         *)
(* The caches follow TanStack Query 5: a query that is mounted or           *)
(* invalidated fetches; a mount joins a fetch under way, an invalidation    *)
(* replaces it; a refused fetch is tried once more while its page is open,  *)
(* and leaves the data of the last successful one in the cache;             *)
(* useMutation's onSuccess runs even when its page is gone, its isPending   *)
(* goes with the page.                                                      *)
(* Lists, zones and audit feeds decide nothing and are left out.            *)
(***************************************************************************)
EXTENDS MockApi

CONSTANTS Patient,          \* the user leaves a page only when all that
                            \* was pressed on it has been answered
          Opened            \* bound: requests the user opens by hand

ASSUME AppAssumption ==
  /\ Patient \in BOOLEAN
  /\ Opened \subseteq Requests
  /\ Nobody \notin Requests \cup Slots

VARIABLES page,             \* the location in the URL's hash
          session,          \* cached answer of POST /auth/session
          sessionCall,      \* the call the session query waits for
          carried,          \* the session in each call's response
          view,             \* cached answers of GET /requests/{id}
          viewFetch,        \* and the fetches of them under way
          refused,          \* requests whose last fetch ended in an error
          draft,            \* useRequestDraftStore
          submitting,       \* createMut.isPending of the open form
          goingHome,        \* how far the consent button's handler has come
          created           \* created requests not navigated to yet

appVars == <<page, session, sessionCall, carried, view, viewFetch, refused,
             draft, submitting, goingHome, created>>
allVars == <<mockVars, appVars>>

-----------------------------------------------------------------------------
NoData == [status |-> "no data"]
Session == [role : Roles, required : BOOLEAN]

Plain(p) == [name |-> p, of |-> Nobody]
Details(r) == [name |-> "details", of |-> r]
Card(r) == [name |-> "card", of |-> r]

Pages == [name : {"home", "onboarding", "mine", "form", "queue"}, of : {Nobody}]
           \cup [name : {"details", "card"}, of : Requests]

Fetches == [state : {"no"}] \cup [state : {"sent", "refused"}, again : BOOLEAN]
             \cup [state : {"served"}, row : Row]
NoFetch == [state |-> "no"]
Sent(again) == [state |-> "sent", again |-> again]

AppTypeOK ==
  /\ TypeOK
  /\ page \in Pages
  /\ session \in Session \cup {NoData}
  /\ sessionCall \in Slots \cup {Nobody}
  /\ carried \in [Slots -> Session \cup {NoData}]
  /\ view \in [Requests -> Row \cup {NoData}]
  /\ viewFetch \in [Requests -> Fetches]
  /\ refused \subseteq Requests
  /\ draft \in {"incomplete", "complete"}
  /\ submitting \in BOOLEAN
  /\ goingHome \in {"no", "posting", "invalidated", "refetching"}
  /\ created \subseteq Requests

AppInit ==
  /\ Init
  /\ page = Plain("home")
  /\ session = NoData
  /\ sessionCall = Nobody
  /\ carried = [c \in Slots |-> NoData]
  /\ view = [r \in Requests |-> NoData]
  /\ viewFetch = [r \in Requests |-> NoFetch]
  /\ refused = {}
  /\ draft = "incomplete"
  /\ submitting = FALSE
  /\ goingHome = "no"
  /\ created = {}

-----------------------------------------------------------------------------
(* AppLayout and RequireRole: where a page leads under a session.           *)
Redirected_NoConsent(p, s) ==    \* slip: only the consent page asks for it
  IF s # NoData /\ ~ s.required /\ p.name = "onboarding" THEN Plain("home") ELSE p

Redirected(p, s) ==
  IF s = NoData THEN p
  ELSE IF s.required THEN Plain("onboarding")
  ELSE IF \/ p.name = "onboarding"
          \/ p.name \in {"queue", "card"} /\ s.role \notin AdminRoles
       THEN Plain("home")
       ELSE p

(* GET /requests/{id} answers with the row.                                 *)
CanAccess(r) == Exists(r) /\ (role \in AdminRoles \/ rows[r].initiator = user)

(* The page that is opened fetches its request, or joins the fetch that is  *)
(* under way.                                                               *)
Fetching(r) == [viewFetch EXCEPT ![r] = Sent(FALSE)]

Show(p) ==
  /\ page' = p
  /\ viewFetch' = IF p # page /\ p.of # Nobody /\ viewFetch[p.of] = NoFetch
                  THEN Fetching(p.of) ELSE viewFetch
  /\ submitting' = (submitting /\ p = page)

(* A session fetch replaces the one under way.                              *)
StartSession(c) ==
  /\ Become(c, [pc |-> "sent", op |-> "session", target |-> Nobody])
  /\ sessionCall' = c

InFlight(ops) == \E c \in Slots : calls[c].pc # "idle" /\ calls[c].op \in ops

(* Until the consent has led home, the role switched to has shown up and    *)
(* every button's call has been answered; while a request is being created   *)
(* the user goes nowhere but to the list where it will appear.              *)
MayLeaveFor(p) ==
  Patient => /\ goingHome = "no" /\ session.role = role
             /\ ~ InFlight(SyncOps \cup AwaitOps)
             /\ InFlight({"create"}) \/ created # {} => p.name = "mine"

-----------------------------------------------------------------------------
(* What the user does.                                                      *)

LoadSession(c) ==
  /\ session = NoData /\ sessionCall = Nobody
  /\ calls[c] = Idle /\ StartSession(c)
  /\ memoryUnchanged
  /\ UNCHANGED <<page, session, carried, view, viewFetch, refused, draft,
                 submitting, goingHome, created>>

(* Where there are links, and where a URL typed by hand or the history      *)
(* leads.                                                                   *)
Open(p) ==
  /\ session # NoData /\ MayLeaveFor(Redirected(p, session))
  /\ Redirected(p, session) # page
  /\ Show(Redirected(p, session))
  /\ UNCHANGED <<mockVars, session, sessionCall, carried, view, refused, draft,
                 goingHome, created>>

(* A page that uses the session is mounted when the cached one has aged 30  *)
(* seconds.                                                                 *)
RefreshSession(c) ==
  /\ session # NoData /\ sessionCall = Nobody
  /\ page.name \in {"home", "onboarding", "queue", "card"}
  /\ calls[c] = Idle /\ StartSession(c)
  /\ memoryUnchanged
  /\ UNCHANGED <<page, session, carried, view, viewFetch, refused, draft,
                 submitting, goingHome, created>>

(* The buttons of the two request pages, by the row in the cache.           *)
OffersAnswer(m) == m.status = "clarification" /\ ~ m.answer

Offered(p) ==
  IF p.of = Nobody \/ view[p.of] = NoData THEN {}
  ELSE LET m == view[p.of] IN
    IF p.name = "details"
    THEN {op \in {"cancel"} : m.status \in {"pending", "clarification"}}
           \cup {op \in {"answer"} : OffersAnswer(m)}
    ELSE {op \in {"approve", "reject", "clarify"} : m.status = "pending"}
           \cup {op \in {"close"} : m.status \in {"approved", "rejected"}}

Press(c, op) ==
  /\ op \in Offered(page)
  /\ Len(audit[page.of]) < MaxAudit
  /\ Send(c, op, page.of)
  /\ UNCHANGED <<page, session, sessionCall, carried, view, viewFetch, refused,
                 draft, submitting, goingHome, created>>

(* HomePage.toggleRole: the next role is derived from the cached one.       *)
NextRole == IF session.role = "initiator" THEN "admin" ELSE "initiator"

ToggleRole_Join(c) ==            \* slip: a fetch under way is let finish
  /\ page.name = "home" /\ session # NoData
  /\ role' = NextRole
  /\ IF sessionCall = Nobody THEN calls[c] = Idle /\ StartSession(c)
                             ELSE UNCHANGED <<calls, sessionCall>>
  /\ UNCHANGED <<user, accepted, rows, audit, lastNumber, page, session,
                 carried, view, viewFetch, refused, draft, submitting,
                 goingHome, created>>

ToggleRole(c) ==
  /\ page.name = "home" /\ session # NoData
  /\ role' = NextRole
  /\ calls[c] = Idle /\ StartSession(c)
  /\ goingHome' = IF goingHome = "refetching" THEN "no" ELSE goingHome
  /\ UNCHANGED <<user, accepted, rows, audit, lastNumber, page, session,
                 carried, view, viewFetch, refused, draft, submitting, created>>

(* The steps of the form are URLs, and any of them may be opened; what      *)
(* counts is the whole draft at the end.  A date entered in time is past    *)
(* after midnight.                                                          *)
Fill ==
  /\ page.name = "form"
  /\ draft' \in {"incomplete", "complete"} /\ draft' # draft
  /\ UNCHANGED <<mockVars, page, session, sessionCall, carried, view, viewFetch,
                 refused, submitting, goingHome, created>>

Midnight ==
  /\ draft = "complete" /\ draft' = "incomplete"
  /\ UNCHANGED <<mockVars, page, session, sessionCall, carried, view, viewFetch,
                 refused, submitting, goingHome, created>>

(* The button is disabled while this form's creation is pending; a form left *)
(* and opened again knows nothing of an earlier one.                        *)
Submit(c) ==
  /\ page.name = "form" /\ draft = "complete" /\ ~ submitting
  /\ submitting' = TRUE
  /\ Send(c, "create", Nobody)
  /\ UNCHANGED <<page, session, sessionCall, carried, view, viewFetch, refused,
                 draft, goingHome, created>>

CancelForm ==
  /\ page.name = "form" /\ MayLeaveFor(Plain("home"))
  /\ draft' = "incomplete"
  /\ Show(Plain("home"))
  /\ UNCHANGED <<mockVars, session, sessionCall, carried, view, refused,
                 goingHome, created>>

Accept(c) ==
  /\ page.name = "onboarding" /\ session # NoData /\ goingHome = "no"
  /\ Send(c, "consent", Nobody)
  /\ goingHome' = "posting"
  /\ UNCHANGED <<page, session, sessionCall, carried, view, viewFetch, refused,
                 draft, submitting, created>>

-----------------------------------------------------------------------------
(* What the server and the network do.                                      *)
SessionNow == [role |-> role, required |-> ~ accepted]

Serve(c) ==
  /\ Handle(c)
  /\ carried' = IF calls[c].op = "session" /\ calls[c].pc = "body"
                THEN [carried EXCEPT ![c] = SessionNow] ELSE carried
  /\ UNCHANGED <<page, session, sessionCall, view, viewFetch, refused, draft,
                 submitting, goingHome, created>>

(* The answer, the row or a refusal, has yet to travel back.                *)
ServeView(r) ==
  /\ viewFetch[r].state = "sent"
  /\ viewFetch' = [viewFetch EXCEPT ![r] =
       IF CanAccess(r) THEN [state |-> "served", row |-> rows[r]]
                       ELSE [state |-> "refused", again |-> @.again]]
  /\ UNCHANGED <<mockVars, page, session, sessionCall, carried, view, refused,
                 draft, submitting, goingHome, created>>

-----------------------------------------------------------------------------
(* What the page does with the answers.                                     *)
TakeView(r) ==
  /\ viewFetch[r].state = "served"
  /\ view' = [view EXCEPT ![r] = viewFetch[r].row]
  /\ viewFetch' = [viewFetch EXCEPT ![r] = NoFetch]
  /\ refused' = refused \ {r}
  /\ UNCHANGED <<mockVars, page, session, sessionCall, carried, draft,
                 submitting, goingHome, created>>

(* A refusal is retried once, a second after it arrived, if the page of the  *)
(* request is still open by then.  Otherwise the query is in error, and the  *)
(* pages go on showing the data it has.                                     *)
TakeRefusal(r) ==
  /\ viewFetch[r].state = "refused"
  /\ IF page.of = r /\ ~ viewFetch[r].again
     THEN /\ viewFetch' = [viewFetch EXCEPT ![r] = Sent(TRUE)]
          /\ UNCHANGED refused
     ELSE /\ viewFetch' = [viewFetch EXCEPT ![r] = NoFetch]
          /\ refused' = refused \cup {r}
  /\ UNCHANGED <<mockVars, page, session, sessionCall, carried, view, draft,
                 submitting, goingHome, created>>

Returned(c, ops) == calls[c].pc = "answered" /\ calls[c].op \in ops

(* The session query keeps the answer of its last fetch.  The consent       *)
(* button's handler waits for it twice, once in the mutation's onSuccess    *)
(* and once by itself, and then goes home.                                  *)
TakeSession(c) ==
  /\ Returned(c, {"session"})
  /\ carried' = [carried EXCEPT ![c] = NoData]
  /\ IF c # sessionCall
     THEN /\ Become(c, Idle)
          /\ UNCHANGED <<page, session, sessionCall, viewFetch, submitting,
                         goingHome>>
     ELSE /\ session' = carried[c]
          /\ Show(Redirected(IF goingHome = "refetching" THEN Plain("home") ELSE page,
                             carried[c]))
          /\ IF goingHome = "invalidated"
             THEN StartSession(c) /\ goingHome' = "refetching"
             ELSE /\ Become(c, Idle) /\ sessionCall' = Nobody
                  /\ goingHome' = IF goingHome = "refetching" THEN "no" ELSE goingHome
  /\ memoryUnchanged
  /\ UNCHANGED <<view, refused, draft, created>>

TakeConsent(c) ==
  /\ Returned(c, {"consent"})
  /\ StartSession(c)
  /\ goingHome' = "invalidated"
  /\ memoryUnchanged
  /\ UNCHANGED <<page, session, carried, view, viewFetch, refused, draft,
                 submitting, created>>

(* onSuccess of the request mutations: the request is fetched again if its  *)
(* page is open.  A refused mutation does nothing.                          *)
TakeMutation_Join(c) ==          \* slip: a fetch under way is let finish
  LET r == calls[c].target IN
  /\ Returned(c, SyncOps \cup AwaitOps)
  /\ viewFetch' = IF calls[c].ok /\ page.of = r /\ viewFetch[r] = NoFetch
                  THEN Fetching(r) ELSE viewFetch
  /\ Become(c, Idle)
  /\ memoryUnchanged
  /\ UNCHANGED <<page, session, sessionCall, carried, view, refused, draft,
                 submitting, goingHome, created>>

TakeMutation(c) ==
  LET r == calls[c].target IN
  /\ Returned(c, SyncOps \cup AwaitOps)
  /\ viewFetch' = IF calls[c].ok /\ page.of = r THEN Fetching(r) ELSE viewFetch
  /\ Become(c, Idle)
  /\ memoryUnchanged
  /\ UNCHANGED <<page, session, sessionCall, carried, view, refused, draft,
                 submitting, goingHome, created>>

(* onSuccess of a creation: the draft is dropped and the new request shown, *)
(* after the list of one's own requests has been fetched again if it is     *)
(* open.                                                                    *)
TakeCreated(c) ==
  /\ Returned(c, {"create"})
  /\ draft' = "incomplete"
  /\ IF page.name = "mine"
     THEN /\ created' = created \cup {calls[c].target}
          /\ UNCHANGED <<page, viewFetch, submitting>>
     ELSE Show(Redirected(Details(calls[c].target), session)) /\ UNCHANGED created
  /\ Become(c, Idle)
  /\ memoryUnchanged
  /\ UNCHANGED <<session, sessionCall, carried, view, refused, goingHome>>

GoToCreated(r) ==
  /\ r \in created
  /\ Show(Redirected(Details(r), session))
  /\ created' = created \ {r}
  /\ UNCHANGED <<mockVars, session, sessionCall, carried, view, refused, draft,
                 goingHome>>

-----------------------------------------------------------------------------
UserStep ==
  \/ \E p \in Pages : (p.of # Nobody => p.of \in Opened \cap Existing) /\ Open(p)
  \/ Fill \/ Midnight \/ CancelForm
  \/ \E c \in Slots :
       \/ LoadSession(c) \/ RefreshSession(c) \/ ToggleRole(c)
       \/ Submit(c) \/ Accept(c)
       \/ \E op \in SyncOps \cup AwaitOps : Press(c, op)

Delivery ==
  \/ \E c \in Slots :
       Serve(c) \/ TakeSession(c) \/ TakeConsent(c) \/ TakeMutation(c) \/ TakeCreated(c)
  \/ \E r \in Requests :
       ServeView(r) \/ TakeView(r) \/ TakeRefusal(r) \/ GoToCreated(r)

AppNext == UserStep \/ Delivery

AppSpec == AppInit /\ [][AppNext]_allVars

-----------------------------------------------------------------------------
(* Properties.                                                              *)

(* No request is created before its author has consented, although only the *)
(* layout asks for the consent, by a cached session; POST /requests does    *)
(* not.  (The first two numbers are the demo requests'.)                    *)
ConsentBeforeRequest ==
  \A r \in Requests : Exists(r) /\ rows[r].number > BaseValue + 2 => accepted

(* When everything about it has been answered, the cached session is what   *)
(* the server would say: the role the user has switched to, the consent     *)
(* given, however fetches, switches and the consent overlapped.             *)
SessionSettles ==
  session # NoData /\ sessionCall = Nobody /\ ~ InFlight({"consent"}) =>
    session = SessionNow

(* When everything has been answered, an open request page shows the        *)
(* request as it is, whatever was fetched before, during or after a change,  *)
(* unless the last fetch of it was refused: then the old data stay.          *)
(* Holds for a patient user: otherwise the page may be left with a fetch    *)
(* under way, and join that fetch when it is opened again after the change. *)
ShowsTruth ==
  LET r == page.of IN
  /\ r # Nobody /\ view[r] # NoData
  /\ viewFetch[r] = NoFetch /\ r \notin refused
  /\ ~ InFlight(SyncOps \cup AwaitOps)
  => view[r] = rows[r]

-----------------------------------------------------------------------------
(* What documents say of the mini-app and the code does not do.             *)

(* From "clarification" the initiator's answer leads on                     *)
(* (max-pass-bot/docs/state-machine.md): the page of a request that waits   *)
(* for an answer takes one.                                                 *)
AnswerOffered ==
  page.name = "details" /\ view[page.of] # NoData
    /\ view[page.of].status = "clarification" => "answer" \in Offered(page)
=============================================================================
