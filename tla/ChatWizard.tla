---------------------------- MODULE ChatWizard ----------------------------
(***************************************************************************)
(* The chat handlers of the bot (infrastructure/max/handlers.py): the       *)
(* wizard of a new request and the texts the bot waits for.  The wizard's   *)
(* step and draft live in the bot_sessions row; which text is awaited lives *)
(* in the dictionary _pending_text of the process.  A handler gives up the  *)
(* event loop at every database call and the process may end at any time.   *)
(*                                                                         *)
(* What the use cases do to requests is the subject of PassRequests; here   *)
(* they succeed or refuse.                                                  *)
(*                                                                         *)
(* Names with an underscore are slips, see RequestStateMachine.             *)
(***************************************************************************)
EXTENDS FiniteSets, Naturals

CONSTANTS Users,
          Techs,            \* users whose role is tech_admin
          Handlers,         \* handlers in flight at once (one: long polling)
          Requests,         \* requests with a card in somebody's chat
          Nothing,          \* None: no row, no pending text, no request
          DbFailures        \* whether a database call may fail

ASSUME WizardAssumption == Techs \subseteq Users /\ DbFailures \in BOOLEAN

VARIABLES session,          \* bot_sessions row of each user
          pending,          \* _pending_text of each user
          shown,            \* keyboards each user's chat has received
          consented,        \* users who accepted the current consent text
          handler,          \* what each handler is doing
          asked,            \* history: the card button a user tapped last
          failed            \* history: a call failed since the process started

vars == <<session, pending, shown, consented, handler, asked, failed>>

-----------------------------------------------------------------------------
(* Sessions, keyboards, events.                                             *)

WizardSteps == {"choose_zone", "choose_time", "choose_date",
                "enter_guest_name", "enter_purpose", "confirm"}

Steps == WizardSteps \cup {"answer", "admin"}

DraftKeys == {"zone_id", "visit_time", "visit_date", "guest_full_name", "purpose"}

Waits == {"guest_name", "purpose", "clarify_answer", "admin_question", "tech_target"}

(* The JSON draft: the filled keys of the form, `waiting', and              *)
(* `pending_request_id'.                                                    *)
Draft == [keys : SUBSET DraftKeys, waiting : Waits \cup {Nothing},
          request : Requests \cup {Nothing}]

Session == [step : Steps, draft : Draft]

(* None is none of the values it stands in for.                             *)
ASSUME NothingAssumption ==
  Nothing \notin Session /\ Nothing \notin Requests /\ Nothing \notin Waits

EmptyDraft == [keys |-> {}, waiting |-> Nothing, request |-> Nothing]

NewSession(step) == [step |-> step, draft |-> EmptyDraft]

(* Buttons of each keyboard that reach a handler which changes something.   *)
ButtonsOf ==
  [consent |-> {"accept"},
   menu    |-> {"new", "setadmin"},
   zones   |-> {"zone", "cancel"},
   time    |-> {"time", "back_zone"},
   date    |-> {"date", "back_time"},
   confirm |-> {"submit", "edit_zone", "cancel"},
   card    |-> {"answer", "clar"}]

Keyboards == DOMAIN ButtonsOf

(* A keyboard stays in the chat's history: its buttons can be tapped at any *)
(* later time.  Cards come from the lists of the menu.                      *)
Buttons(u) == UNION {ButtonsOf[k] : k \in shown[u]}

CardWait == [answer |-> "clarify_answer", clar |-> "admin_question"]

(* What on_text does with each awaited text.                                *)
TextEvent == [guest_name |-> "guest", purpose |-> "purpose",
              clarify_answer |-> "reply", admin_question |-> "question",
              tech_target |-> "target"]

Events == (UNION {ButtonsOf[k] : k \in Keyboards})
            \cup {TextEvent[t] : t \in Waits}

Idle == [pc |-> "idle"]

TypeOK ==
  /\ session \in [Users -> Session \cup {Nothing}]
  /\ pending \in [Users -> Waits \cup {Nothing}]
  /\ shown \in [Users -> SUBSET Keyboards]
  /\ consented \subseteq Users
  /\ handler \in [Handlers ->
        {Idle}
        \cup [pc : {"begin", "finish"}, user : Users, event : Events,
              request : Requests \cup {Nothing}]
        \cup [pc : {"save", "write"}, user : Users, event : Events,
              request : Requests \cup {Nothing}, entity : Session,
              base : Session \cup {Nothing}]
        \cup [pc : {"delete", "usecase"}, user : Users, event : Events,
              request : Requests \cup {Nothing}]]
  /\ asked \in [Users -> ({"answer", "clar"} \X Requests) \cup {Nothing}]
  /\ failed \in BOOLEAN

Init ==
  /\ session = [u \in Users |-> Nothing]
  /\ pending = [u \in Users |-> Nothing]
  /\ shown = [u \in Users |-> {}]
  /\ consented = {}
  /\ handler = [h \in Handlers |-> Idle]
  /\ asked = [u \in Users |-> Nothing]
  /\ failed = FALSE

Become(h, x) == handler' = [handler EXCEPT ![h] = x]

Call(pc, u, e, r) == [pc |-> pc, user |-> u, event |-> e, request |-> r]

Show(u, k) == shown' = [shown EXCEPT ![u] = @ \cup {k}]

-----------------------------------------------------------------------------
(* Events that need no session: on_start and /start, and consent.           *)

Start(h, u) ==
  /\ handler[h] = Idle
  /\ IF u \in consented
     THEN shown' = [shown EXCEPT ![u] = @ \cup {"menu", "card"}]
     ELSE Show(u, "consent")
  /\ UNCHANGED <<session, pending, consented, handler, asked, failed>>

Accept(h, u) ==
  /\ handler[h] = Idle
  /\ "accept" \in Buttons(u)
  /\ consented' = consented \cup {u}
  /\ shown' = [shown EXCEPT ![u] = @ \cup {"menu", "card"}]
  /\ UNCHANGED <<session, pending, handler, asked, failed>>

(* The button waits for a text but touches no row.                          *)
SetAdmin(h, u) ==
  /\ handler[h] = Idle
  /\ "setadmin" \in Buttons(u) /\ u \in Techs
  /\ pending' = [pending EXCEPT ![u] = "tech_target"]
  /\ UNCHANGED <<session, shown, consented, handler, asked, failed>>

-----------------------------------------------------------------------------
(* A handler starts: the sender has been resolved and the tap acknowledged. *)

(* on_callback; only the menu looks at the consent.                         *)
Tap(h, u) ==
  /\ handler[h] = Idle
  /\ \E e \in Buttons(u) \ {"accept", "setadmin", "answer", "clar"} :
       /\ e = "new" => u \in consented
       /\ Become(h, Call("begin", u, e, Nothing))
  /\ UNCHANGED <<session, pending, shown, consented, asked, failed>>

(* The buttons of a card announce the text first and mark the row next.     *)
TapCard(h, u) ==
  /\ handler[h] = Idle
  /\ \E e \in Buttons(u) \cap {"answer", "clar"}, r \in Requests :
       /\ Become(h, Call("begin", u, e, r))
       /\ pending' = [pending EXCEPT ![u] = CardWait[e]]
       /\ asked' = [asked EXCEPT ![u] = <<e, r>>]
  /\ UNCHANGED <<session, shown, consented, failed>>

(* on_text: what the text means is decided by _pending_text alone.  A text  *)
(* nobody waits for, or one the field rejects, changes nothing.             *)
Text(h, u) ==
  /\ handler[h] = Idle
  /\ u \in consented
  /\ pending[u] # Nothing
  /\ Become(h, Call("begin", u, TextEvent[pending[u]], Nothing))
  /\ UNCHANGED <<session, pending, shown, consented, asked, failed>>

(* A text without a current consent is answered with the consent keyboard.  *)
TextWithoutConsent(h, u) ==
  /\ handler[h] = Idle
  /\ u \notin consented
  /\ Show(u, "consent")
  /\ UNCHANGED <<session, pending, consented, handler, asked, failed>>

-----------------------------------------------------------------------------
(* The handler's transaction.                                               *)

Fill_KeepWaiting(s, key, step, wait) ==     \* slip: `waiting' not moved on
  [step |-> step, draft |-> [s.draft EXCEPT !.keys = @ \cup {key}]]

Fill(s, key, step, wait) ==
  [step |-> step, draft |-> [s.draft EXCEPT !.keys = @ \cup {key}, !.waiting = wait]]

(* A card's button notes its request and the text that will follow.         *)
Mark_First(s, e, r) ==                      \* slip: keeps an earlier request
  [s EXCEPT !.draft.request = IF @ = Nothing THEN r ELSE @,
            !.draft.waiting = CardWait[e]]

Mark(s, e, r) ==
  [s EXCEPT !.draft.request = r, !.draft.waiting = CardWait[e]]

(* The session each handler saves, from the row it has selected.            *)
Saved(e, r, row) ==
  CASE e \in {"new", "back_zone", "edit_zone"} -> NewSession("choose_zone")
    [] e = "zone" ->
         LET s == IF row = Nothing THEN NewSession("choose_zone") ELSE row
         IN  Fill(s, "zone_id", "choose_time", s.draft.waiting)
    [] e = "time"    -> Fill(row, "visit_time", "choose_date", row.draft.waiting)
    [] e = "date"    -> Fill(row, "visit_date", "enter_guest_name", "guest_name")
    [] e = "guest"   -> Fill(row, "guest_full_name", "enter_purpose", "purpose")
    [] e = "purpose" -> Fill(row, "purpose", "confirm", Nothing)
    [] e = "back_time" -> [row EXCEPT !.step = "choose_time"]
    [] e \in {"answer", "clar"} ->
         LET s == IF row = Nothing
                  THEN NewSession(IF e = "answer" THEN "answer" ELSE "admin")
                  ELSE row
         IN  Mark(s, e, r)

(* Handlers that raise Conflict when there is no row; nobody catches it.    *)
NeedRow == {"time", "date", "guest", "purpose"}

Savers == NeedRow \cup {"new", "back_zone", "edit_zone", "zone", "back_time",
                        "answer", "clar"}

SelectAndEdit(h) ==
  LET c == handler[h]
      row == session[c.user] IN
  /\ c.pc = "begin" /\ c.event \in Savers
  /\ Become(h,
       IF row = Nothing /\ c.event \in NeedRow THEN Idle
       ELSE IF row = Nothing /\ c.event = "back_time"
       THEN Call("finish", c.user, c.event, Nothing)
       ELSE [pc |-> "save", user |-> c.user, event |-> c.event,
             request |-> c.request, base |-> Nothing,
             entity |-> Saved(c.event, c.request, row)])
  /\ UNCHANGED <<session, pending, shown, consented, asked, failed>>

(* A past date on an old keyboard and an ill-formed text raise before the   *)
(* save; the sender is told so.                                             *)
RejectInput(h) ==
  /\ handler[h].pc = "begin"
  /\ handler[h].event \in {"date", "guest", "purpose"}
  /\ Become(h, Idle)
  /\ UNCHANGED <<session, pending, shown, consented, asked, failed>>

(* save() selects the row again ...                                         *)
SelectForSave(h) ==
  LET c == handler[h] IN
  /\ c.pc = "save"
  /\ Become(h, [c EXCEPT !.pc = "write", !.base = session[c.user]])
  /\ UNCHANGED <<session, pending, shown, consented, asked, failed>>

(* ... and writes the columns that differ from it, or inserts the row.  A   *)
(* row that came or went meanwhile fails the statement, and with it the     *)
(* handler; where nothing differs there is no statement.                    *)
(* Slip: the JSON draft is changed in place, which SQLAlchemy cannot see.   *)
Written_InPlace(current, entity, base) ==
  [step  |-> IF entity.step = base.step THEN current.step ELSE entity.step,
   draft |-> current.draft]

Written(current, entity, base) ==
  [step  |-> IF entity.step = base.step THEN current.step ELSE entity.step,
   draft |-> IF entity.draft = base.draft THEN current.draft ELSE entity.draft]

WriteAndCommit(h) ==
  LET c == handler[h]
      row == session[c.user] IN
  /\ c.pc = "write"
  /\ IF c.entity # c.base /\ (row = Nothing) # (c.base = Nothing)
     THEN Become(h, Idle) /\ UNCHANGED session
     ELSE /\ session' = [session EXCEPT ![c.user] =
                IF c.base = Nothing THEN c.entity
                ELSE IF c.entity = c.base THEN row
                ELSE Written(row, c.entity, c.base)]
          /\ Become(h, Call("finish", c.user, c.event, c.request))
  /\ UNCHANGED <<pending, shown, consented, asked, failed>>

(* wizard:cancel selects the row and deletes what it has found.             *)
SelectForDelete(h) ==
  LET c == handler[h] IN
  /\ c.pc = "begin" /\ c.event = "cancel"
  /\ Become(h, Call(IF session[c.user] = Nothing THEN "finish" ELSE "delete",
                    c.user, c.event, Nothing))
  /\ UNCHANGED <<session, pending, shown, consented, asked, failed>>

DeleteAndCommit(h) ==
  LET c == handler[h] IN
  /\ c.pc = "delete"
  /\ session' = [session EXCEPT ![c.user] = Nothing]
  /\ Become(h, Call("finish", c.user, c.event, Nothing))
  /\ UNCHANGED <<pending, shown, consented, asked, failed>>

(* The handlers that call a use case read its arguments from the row: a     *)
(* missing row is a Conflict or NotFound, a missing key a KeyError.         *)
Arguments(c) ==
  LET row == session[c.user] IN
  CASE c.event = "submit" -> row # Nothing /\ row.draft.keys = DraftKeys
    [] c.event \in {"reply", "question"} ->
         row # Nothing /\ row.draft.request # Nothing
    [] OTHER -> TRUE

UseCases == {"submit", "reply", "question", "target"}

CallUseCase(h) ==
  LET c == handler[h] IN
  /\ c.pc = "begin" /\ c.event \in UseCases
  /\ Become(h,
       IF Arguments(c)
       THEN Call("usecase", c.user, c.event,
                 IF c.event \in {"reply", "question"}
                 THEN session[c.user].draft.request ELSE Nothing)
       ELSE Idle)
  /\ UNCHANGED <<session, pending, shown, consented, asked, failed>>

(* A submission takes the row with it, and needs the current consent.       *)
UseCaseCommits(h) ==
  LET c == handler[h] IN
  /\ c.pc = "usecase"
  /\ c.event = "submit" => c.user \in consented
  /\ session' = IF c.event = "submit" THEN [session EXCEPT ![c.user] = Nothing]
                                      ELSE session
  /\ Become(h, Call("finish", c.user, c.event, c.request))
  /\ UNCHANGED <<pending, shown, consented, asked, failed>>

(* Refused: the sender is told, and a text stays awaited.                   *)
UseCaseRefuses(h) ==
  /\ handler[h].pc = "usecase"
  /\ Become(h, Idle)
  /\ UNCHANGED <<session, pending, shown, consented, asked, failed>>

-----------------------------------------------------------------------------
(* Back on the event loop: _pending_text and the next keyboard.             *)

NextPending_StepName(e, old) ==             \* slip: a step for a wait
  CASE e = "date"  -> "guest_name"
    [] e = "guest" -> "enter_purpose"
    [] e \in {"purpose", "cancel"} \cup UseCases -> Nothing
    [] OTHER -> old

NextPending_CancelKeeps(e, old) ==          \* slip: cancel forgets the pop
  CASE e = "date"  -> "guest_name"
    [] e = "guest" -> "purpose"
    [] e \in {"purpose"} \cup UseCases -> Nothing
    [] OTHER -> old

NextPending(e, old) ==
  CASE e = "date"  -> "guest_name"
    [] e = "guest" -> "purpose"
    [] e \in {"purpose", "cancel"} \cup UseCases -> Nothing
    [] OTHER -> old

NextKeyboard ==
  [new |-> "zones", back_zone |-> "zones", edit_zone |-> "zones",
   zone |-> "time", back_time |-> "time", time |-> "date",
   purpose |-> "confirm", cancel |-> "menu", submit |-> "menu"]

Finish(h) ==
  LET c == handler[h] IN
  /\ c.pc = "finish"
  /\ pending' = [pending EXCEPT ![c.user] = NextPending(c.event, @)]
  /\ IF c.event \in DOMAIN NextKeyboard THEN Show(c.user, NextKeyboard[c.event])
                                        ELSE UNCHANGED shown
  /\ Become(h, Idle)
  /\ UNCHANGED <<session, consented, asked, failed>>

(* A failed call ends the handler; the dispatcher logs the exception.       *)
DbFails(h) ==
  /\ DbFailures
  /\ handler[h].pc \notin {"idle", "finish"}
  /\ Become(h, Idle)
  /\ failed' = TRUE
  /\ UNCHANGED <<session, pending, shown, consented, asked>>

(* The process ends and starts again, maybe with a new CONSENT_VERSION:     *)
(* open transactions roll back, _pending_text is empty, rows and chats      *)
(* stay.  An event the process had taken is not delivered again.            *)
Restart ==
  /\ handler' = [h \in Handlers |-> Idle]
  /\ pending' = [u \in Users |-> Nothing]
  /\ consented' \in {consented, {}}
  /\ failed' = FALSE
  /\ UNCHANGED <<session, shown, asked>>

-----------------------------------------------------------------------------
Receive(h) ==
  \E u \in Users :
    \/ Start(h, u) \/ Accept(h, u) \/ SetAdmin(h, u)
    \/ Tap(h, u) \/ TapCard(h, u) \/ Text(h, u) \/ TextWithoutConsent(h, u)

Proceed(h) ==
  \/ SelectAndEdit(h) \/ RejectInput(h) \/ SelectForSave(h) \/ WriteAndCommit(h)
  \/ SelectForDelete(h) \/ DeleteAndCommit(h)
  \/ CallUseCase(h) \/ UseCaseCommits(h) \/ UseCaseRefuses(h)
  \/ Finish(h)

Next ==
  \/ \E h \in Handlers : Receive(h) \/ Proceed(h) \/ DbFails(h)
  \/ Restart

Spec == Init /\ [][Next]_vars

-----------------------------------------------------------------------------
(* Properties.                                                              *)

Quiet(u) == \A h \in Handlers : handler[h] # Idle => handler[h].user # u

(* A text of the form is only awaited while there is a row to put it in,    *)
(* whatever buttons of old keyboards were tapped, whichever calls failed    *)
(* and wherever the process was restarted.                                  *)
FormTextHasSession ==
  \A u \in Users :
    Quiet(u) /\ pending[u] \in {"guest_name", "purpose"} => session[u] # Nothing

(* Unless a call has failed since the process started, it never awaits      *)
(* another text than the row: there is a row, and where it names a text, it *)
(* is the same one, whatever a process before this one has left in it.      *)
WaitsAgree ==
  failed \/ \A u \in Users :
    Quiet(u) /\ pending[u] \notin {Nothing, "tech_target"} =>
      /\ session[u] # Nothing
      /\ session[u].draft.waiting \in {Nothing, pending[u]}

AskedBy == [reply |-> "answer", question |-> "clar"]

(* Unless a call has failed since the process started, an answer or a       *)
(* question goes to the request whose card the user tapped last, and as     *)
(* what that button announced, although wizard, answers and questions share *)
(* one draft and one pending text.                                          *)
AnswersWhereAsked ==
  failed \/ \A h \in Handlers :
    LET c == handler[h] IN
    c.pc = "usecase" /\ c.event \in {"reply", "question"} =>
      asked[c.user] = <<AskedBy[c.event], c.request>>

(* The row is not torn: a step that follows an answer of the form finds     *)
(* that answer in the draft.                                                *)
KeyBefore == [choose_date |-> "visit_time", enter_guest_name |-> "visit_date",
              enter_purpose |-> "guest_full_name", confirm |-> "purpose"]

StepHasItsKey ==
  \A u \in Users :
    session[u] # Nothing /\ session[u].step \in DOMAIN KeyBefore =>
      KeyBefore[session[u].step] \in session[u].draft.keys

(* docs/state-machine.md, line 7: the steps before confirm fill the form,   *)
(* so what the user is asked to confirm is complete.                        *)
ConfirmComplete ==
  \A u \in Users :
    session[u] # Nothing /\ session[u].step = "confirm" =>
      session[u].draft.keys = DraftKeys

(* docs/state-machine.md, line 5: the wizard is kept in bot_sessions until  *)
(* it is sent, so the row alone says that the guest's name is expected.     *)
WizardInSession ==
  \A u \in Users :
    Quiet(u) /\ session[u] # Nothing /\ session[u].step = "enter_guest_name" =>
      pending[u] # Nothing
=============================================================================
