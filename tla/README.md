# Specifications of the MAX pass bot

TLA+ models, TLC runs and TLAPS proofs for the guest-pass bot in
`max-pass-bot/` (paths below are relative to
`max-pass-bot/src/pass_bot/` unless they start with a directory of the
repository's root). Initiators fill in a form in a chat; the security office
approves, rejects, asks back or closes; every step is audited.

## 1. The system

| component | code | state | operations | talks to |
|---|---|---|---|---|
| Domain rules | `domain/services/*`, `domain/enums.py` | none | `ensure_transition`, `require_admin`, `require_tech_admin` | called by the use cases |
| Use cases | `application/use_cases.py` | none of their own | submit, cancel, answer, approve, reject, clarify, close, record consent, set role | repositories, inside one transaction each |
| Persistence | `infrastructure/persistence/*` | tables `users`, `consent_records`, `requests`, `audit_events`, `bot_sessions`, `request_number_seq`, `zones` | select, flush, commit, roll back | PostgreSQL at READ COMMITTED |
| Chat handlers | `infrastructure/max/handlers.py`, `keyboards.py` | `_pending_text` (a dictionary of the process), the `bot_sessions` row | one handler per callback action and per awaited text | `run_db` for every transaction, MAX for messages |
| Payload codec | `infrastructure/max/payloads.py` | none | `encode`, `decode` | handlers, keyboards |
| Value objects | `domain/value_objects/*` | none | validation of names, purposes, dates | use cases, handlers |
| User directory | `SqlUserRepository`, `seed.py` | `users` | first contact, seed of the technical administrators, set role | every handler starts with it |
| Entry points | `main_polling.py`, `main_webhook.py`, `bootstrap.py`, `interfaces/webhook` | none | start polling, serve the webhook | dispatcher of `maxapi` |
| Mini-app mock API | `src/mocks/*` | requests, audit, counter, current user, consent in the page's memory; the role in its local storage | the operations of `openapi.yaml` | the mini-app |
| Mini-app | `src/app`, `src/features`, `src/pages`, `src/shared` | query caches, the form's draft, the location | pages, fetches and mutations | the mock API |

What is hard about it:

* **Two ways to run.** Long polling handles one event after another. Behind the
  webhook every HTTP request is its own handler, and every `await run_db(...)`
  lets another one in; the transactions run in threads.
* **Transactions that check what they have read.** Use cases read a request,
  check its status, and save it with no lock, no version and no condition on
  the status. Safety rests on unique constraints, on row locks taken by a
  flush, and on commits being atomic.
* **An actor's role is read one transaction earlier** than it is used.
* **One conversation in two places.** The form's step and answers are in a row,
  the text that is awaited in the memory of the process. Keyboards stay in the
  chat for ever and any of their buttons can be tapped at any time; form,
  clarification answers and admin questions share one row and one awaited text.
* **Crashes, failed calls.** `_pending_text` goes with the process; an event
  whose handler fails is not delivered again.

* **A server in the page.** The mini-app has no backend but handlers of a
  service worker; each awaits the body of its call, so two calls interleave.
* **Pages decide by caches.** Who may see a page and which buttons a request
  has follow a cached session and a cached row; answers arrive in any order,
  some after their page is gone.

`PROJECT.json` lists each hazard at its line with the properties that watch it.

What makes each part correct: request numbers unique and gapless; each status
change permitted by the table, made by somebody entitled to it and recorded
exactly once; terminal requests stay; decision columns agree with the status; a
form makes at most one request; consent is logged and precedes any request;
every role goes back to the configured list; a handler never waits for
ever; texts go where the user was asked for them; what a page shows is what the
server has.

## 2. Modules

| module | what it is |
|---|---|
| `RequestStateMachine` | the transition table and the role checks as operators; no state |
| `RequestLifecycle` | the abstract specification: status and trail of each request, one atomic move per accepted operation |
| `PassRequests` | the use cases over the database, as transactions of concurrent workers |
| `ChatWizard` | the chat handlers: session row, awaited text, buttons of the chat's history |
| `UserDirectory` | the `users` table: start-ups, first contacts, the naming of administrators |
| `MockApi` | the mock server of the mini-app, with the awaits of its handlers |
| `MiniApp` | the page on top of it (`EXTENDS MockApi`): location, caches, form |
| `CallbackPayload` | the codec of the buttons' payloads, with its theorems; no state |
| `PassRequestsProofs`, `PassRequestsAuditProofs`, `PassRequestsPollingProofs` | proofs about `PassRequests`, each building on the one before: numbers; roles, trail and consents; moves of the abstract life, the bot with one event at a time |
| `ChatWizardProofs`, `UserDirectoryProofs`, `MockApiProofs`, `MiniAppProofs` | proofs about the module of that name |
| `MCPassRequests`, `MCChatWizard`, `MCUserDirectory`, `MCMockApi`, `MCMiniApp` | model values, operator values and symmetry sets for TLC |

How they fit together: `PassRequests` and `ChatWizard` show one chat bot from
two sides, and meet in `WizardStep` (all that the first sees of the form) and in
`UseCaseCommits` (all that the second sees of a use case). `UserDirectory` is
what happens before `PassRequests` finds a row for everybody. `PassRequests` and
`MockApi` are two servers for one life of a request, and both are compared with
`RequestLifecycle`; all use the table of `RequestStateMachine`. `MiniApp` is
composed with `MockApi`: its steps send and take the calls the mock handles.

Definitions whose name has an underscore (`MayAnswer_Anybody`) are plausible
slips of the code. No specification uses them; substituted for the definition of
the same first name they show that a property can fail.

### PassRequests

A worker takes an event (`Receive`): `_resolve_user` commits a transaction of its
own, and the role it returned is kept in the worker's record `tx[w]`. The
second transaction runs in the steps the database can interleave:

    request operations   LoadRequest -> RereadRequest -> UpdateRequest -> CommitRequest
    submit               LoadDraft -> ReadNumber -> InsertRequest -> CommitSubmit
    consent              LoadConsent -> RereadConsent -> CommitConsent
    set role             LoadTarget -> CommitRole

* `LoadRequest` is the `get` and all checks of `execute()`; `Refuse` its refusals.
* `save()` selects the row *again* (the session's identity map is weak and
  the model object of the first `get` is no longer referenced), copies the
  entity into it, and the flush sends the columns that differ from that second
  read: `RereadRequest`, `UpdateRequest` and `Merged`. Status and columns read
  by the first `get` therefore overwrite blindly what has been committed since,
  unless the second read shows the same value. `updated_at` always differs, so
  there is always an UPDATE and always a row lock.
* `allocate_number` reads the counter (`ReadNumber`), then steps and flushes it
  (`InsertRequest`, waiting for `SeqLocked`), which is a blind write of an
  absolute value. `requests.number` and the sequence's year are unique: a clash
  aborts the transaction.
* A consent is looked for twice, by `execute()` (`LoadConsent`) and by `record()`
  (`RereadConsent`). If it is found only the second time, `record()` returns
  silently and the event is written all the same. Row and event are inserted at
  the commit; if another handler's row is there by then (`ConsentClash`), both are
  lost. `consentLog` counts each user's events.
* `RollBack` may end any transaction at any point: it stands for exceptions in
  the use case (an ill-formed text, a past date), lost connections and the end
  of the process.
* `WizardStep` is all the request component sees of the wizard: the sender's
  draft gets complete or goes. `NewYear` moves the clock.

Data that no property tells apart is dropped: texts, dates, zones, names,
comments; the reason, question and answer columns are only "set" or "not
set". Users already have rows (`UserDirectory`). `is_active` is left out, no code
path sets it. The event's target is any existing request, not only one whose
card the user has: a superset of the inputs.

### ChatWizard

Per user: `session` (the `bot_sessions` row: step, filled keys, `waiting`,
`pending_request_id`), `pending` (`_pending_text`), `shown` (keyboards the chat
has ever received; none is ever taken back). A handler goes through
`begin -> save -> write -> finish` (select and edit, select again, write and
commit, back on the event loop), or `begin -> delete -> finish`, or
`begin -> usecase -> finish`. `_pending_text` is set before the transaction by
the card buttons (`TapCard`) and after it by the others (`Finish`), as in the
code. A row that came or went between the second select and the statement
fails the statement (duplicate key, or an UPDATE of no row), and with it the
handler; where nothing differs from the second select there is no statement and
nothing to fail. `DbFails` ends a handler at any database call, `Restart` the process,
after which `CONSENT_VERSION` may be a new one.

Two history variables: `asked` is the card button a user tapped last, `failed`
says that a call has failed since the last restart. After a failure the
awaited text and the row may disagree for good (a card button sets the text
before its transaction, a cancelled form drops it after), so `WaitsAgree` and
`AnswersWhereAsked` are about chats without one; `FormTextHasSession` and
`StepHasItsKey` hold over failures too.

The use cases called here succeed (`UseCaseCommits`) or refuse
(`UseCaseRefuses`) without saying why: their own behaviour is `PassRequests`'.

### UserDirectory

The table begins empty. `StartUp(l)` is `seed` with the list `l` of technical
administrators, one transaction before the first event; `Stop` ends the process
with everything its handlers were doing. The seed adds a row per unknown id
without a flush between, so an id that is listed twice and has no row is
inserted twice and the unique `max_user_id` ends the process before it serves
(`SeedClash`: such a start-up does not happen).

A handler resolves its sender with `SelectUser -> InsertUser -> CommitUser`, or,
if the sender has a row under another display name,
`SelectUser -> FlushName -> CommitName`. Two first contacts of one user both see
no row; the second INSERT waits for the first one's commit and then fails. A
command goes on with `LoadTarget -> FlushRole -> CommitRole`, judged by the role
read in the first transaction; the flush writes only if the role differs from
the one read. What a flush has written is locked until the end of its
transaction (`RowLocked`), and the other flushes of that row wait (`TakesLock`).
Of display names the model has only whether the stored one differs. `Done` ends the others: a refusal, an unknown target (a
`ValueError` no handler catches), any other event.

Histories: `appointed` (ids seeded at some start-up), `granter` (who named an id
administrator last), `renamed` (ids so named since the start-up).

### MockApi

Handlers of the service worker, in the one thread of JavaScript. Cancel and close
are one step (`HandleAtOnce`). Answer, approve, reject and clarify check the
request (`Check`), await the body, and save a copy of what they had checked
(`Store`, from the field `read`): a change in between is overwritten whole.
`Create` reads nothing before its await. `OpenSession` fills in the two demo
requests if there are none, `AnswerSession` names the user after the await. A
refused body is `RejectBody`. Calls come from anybody, with any body; a reload of
the page loses the memory and begins another run.

### MiniApp

* `page` is the location; `Redirected` is what `AppLayout` and `RequireRole` make
  of it under a cached session.
* `session`, `sessionCall`, `carried`: the cached session, the call its query waits
  for (a later one replaces it), what each response in flight says.
* `view`, `viewFetch`: the cached requests and their fetches. `Offered` is which
  buttons a page has, by the cached row. The server's answer to a fetch, a row or
  a refusal (`ServeView`), travels before the page takes it (`TakeView`,
  `TakeRefusal`). A refused fetch is tried once more if its page is still open;
  then the request is in `refused`, and its page shows the row of before.
* `draft`: whether the form can be sent; `submitting`: whether the form that is
  open waits for its creation, which a form left and opened again does not know;
  `created`: new requests the page still has to go to.
* `goingHome`: how far the consent button has come (its mutation refetches the
  session, then the page does so again and goes home).

TanStack Query is external (`node_modules` is not in the repository): a mount
fetches or joins a fetch under way, an invalidation replaces it, a refused fetch
is retried as `main.tsx:12` says, `onSuccess` of a mutation runs although its page
is gone, and `isPending` goes with its page.
`Patient` says that the user does not leave a page before what was pressed has
been answered, except for the list where a request being created will appear.
`ShowsTruth` needs it; the other properties do not. A session call names whoever
`readMaxUser` finds, `SessionUsers`.

The calls of a page are accepted or refused by the state of the server. Calls
that fail on their way are left out (the server is in the page), and so are
refused session and consent calls: the page always sends a body that is JSON and
names a user (`readMaxUser` has a default), so the branches of the mock that
refuse them, which `MockApi` has, cannot be reached from the page.

### CallbackPayload

A payload is the sequence of its parts between colons. `encode` and `decode` are
the code's; `split` is how the handlers of the cards cut an argument at its first
colon.

### RequestLifecycle and the refinements

`RequestLifecycle` has no workers and no transactions. `PassRequests` maps
`status` to the rows and `trail` to the statuses that the audit events stand
for (`Lifecycle`). `LifecycleSpec`, for one worker, says that every committed
transaction is one move of the table, recorded in order. With two workers it
does not hold: see `webhook_terminal`. What does hold for any number of them is
`MovesUnlessOvertaken`: a commit that is no such move belongs to a transaction
whose row has changed since `get()` or `save()` read it (`Overtaken`; the model's
transactions remember both readings, `read` and `base`). `MockApi` has the same mapping;
`MovesOfLifecycle` says that it makes such moves too, for any number of calls,
but for the demo data (`Seeding`) and the save of a copy that another call has
made stale (`Overtaken`).

## 3. Runs

| run | instance | shows |
|---|---|---|
| `polling` | 1 worker, a user and a technical admin, 2 requests, all operations | types, `ColumnsAgree`, `TerminalStable`, refinement of the abstract life, `SubmitConsumesDraft` |
| `webhook_numbers` | 2 workers, a user, 3 requests, 2 years, fairness | `NumbersExact`, `CounterInv`, `ConsentTrail`, `HandlerFinishes` |
| `webhook_decisions` | 2 workers, 2 users, 1 request, all operations | `AuthorisedTrail`, `StatusAudited`, `ColumnsAudited`, `MovesUnlessOvertaken` |
| `webhook_terminal` | 2 workers, 1 request | **violated** `TerminalStable` |
| `wizard_polling` | 1 handler, 1 user, 2 cards, failing calls, restarts | types, `FormTextHasSession`, `StepHasItsKey`, `WaitsAgree`, `AnswersWhereAsked` |
| `wizard_confirm` | 1 handler | **violated** `ConfirmComplete` |
| `wizard_restart` | 1 handler | **violated** `WizardInSession` |
| `directory` | 2 ids, 2 handlers, 4 lists (one with an id written twice), fairness | types, `RolesHaveSource`, `TechAdminsInOffice`, `AdminsStay`, `HandlerFinishes` |
| `mock_calls` | the demo requests, 2 calls in flight | types, `StatusIsLastEvent`, `ColumnsAgree`, `MovesOfLifecycle` |
| `app` | the page on the mock, 3 requests, 2 calls in flight, a patient user | `ShowsTruth` |
| `app_impatient` | the same, 2 users named by the session calls, any page left at any time | types, `ConsentBeforeRequest`, `SessionSettles` |
| `app_answer` | `app` with the demo requests alone | **violated** `AnswerOffered` |

The four violations are findings:

1. *A terminal request comes back* (`webhook_terminal`). An administrator's
   approval reads status pending; the initiator's cancellation commits; the
   approval re-reads the row, finds `cancelled` where its entity says `approved`,
   and writes `approved`. `docs/state-machine.md:20` calls `cancelled` terminal.
2. *An incomplete form to confirm* (`wizard_confirm`). While the purpose is
   awaited, the user taps "back" on an old keyboard: the draft is emptied, the
   awaited text is not. The purpose typed next is saved into the empty draft
   and the step becomes `confirm`; sending it raises a `KeyError` nobody
   catches. `docs/state-machine.md:7` gives the chain of steps.
3. *A wizard that forgets* (`wizard_restart`). After a restart the row still has
   step `enter_guest_name`, but the name typed next is answered with "use the
   menu". `docs/state-machine.md:5` says the wizard is kept in `bot_sessions`.
4. *A second question cannot be answered* (`app_answer`). The mock keeps the
   answer to the last question when a new one is asked
   (`src/mocks/handlers.ts:291`), and the page has an answer form only where
   there is no answer yet (`RequestDetailsPage.tsx:102`).
   `docs/state-machine.md:16` has the initiator's answer lead from
   `clarification` to `pending`.

Seen while modelling, with no document that promises otherwise:

* In the mock, a decision or an answer that awaits its body while the request is
  cancelled revives it (`Overtaken`).
* A user who leaves a page with a fetch under way and comes back after a change
  may be shown the row of before the change until it is fetched again.
* A creation answered after its form was left takes the user to the new
  request and empties whatever draft has been begun since; the consent button's
  second fetch takes a user home who has gone elsewhere.
* Behind the webhook a double tap on the consent may log it twice: the second
  handler looks before the first one's commit (`use_cases.py:47`), looks again
  after it (`repositories.py:141`), and appends the event all the same.
  `ConsentTrail` bounds the events by the number of handlers and allows the
  long-polling bot one.
* A fetch refused for good leaves the row of before on the screen. An
  administrator's refetch may be refused while the role is switched to initiator,
  and the card opened again joins that fetch; or a session call names another
  user (`maxProfile.ts:18` names the demo user whenever the SDK fails). The row stays
  until the next fetch that is answered.
* A form left and opened again while its creation is under way can be sent a
  second time.
* Two quick role switches may both start from one cached role, and cancel out
  to a single one.
* An id written twice in `TECH_ADMIN_MAX_IDS` keeps the bot from its first
  start-up on an empty table (`seed.py:22`).
* A technical administrator renamed administrator has a command under way still
  carried out; the trail is then nevertheless one of an administrator.
* Behind the webhook, two taps on "send" in two handlers can make two requests
  from one draft (`SubmitConsumesDraft` is a property of long polling).

### Bounds

* Two workers are enough for every race between two transactions on one row.
  For the counter, two stale readers that meet one holder of the lock would be
  three; the theorem about it is for any number.
* `MaxAudit` (`PassRequests`, `MockApi`) stops new events for a request whose trail
  has that length: 4 in `polling` (submission, question, answer, decision), 3 with
  two at once, where those under way still land; 2 in `app` and `app_impatient` (one change of a
  request by itself, or two under way at once) and 1 in `webhook_numbers`, where
  only submissions are in play. `app_answer` needs 4: the demo
  request is submitted and asked, then answered and asked again.
* `RoomForRequest` (`PassRequests`) starts no submission that would find no
  identifier left, `InRoom` (`MockApi`) no creation and no session call.
* `MaxNumber` is the last number the mock gives out by a creation. In `mock_calls`
  that is one creation before the first session call, instead of the demo
  requests; in the mini-app, one after them.
* Two years suffice for a change of year under way; the second year is the
  one whose sequence row does not exist yet.
* One user is enough in `ChatWizard`: users share nothing there. Two cards are
  needed for an answer to go to the wrong one.
* The lists of `directory` are none, one id, both, and one id twice: an id can
  come, go and be promoted in between.
* `Opened` is the requests the user opens by hand: one in `app`, which may turn out
  to be either demo request or the created one, and none in `app_impatient`, where
  the created one, which is shown by itself, has the pages.
* One user is enough in `webhook_numbers`: the counter does not know users, and
  consents are each user's own.
* `webhook_decisions` leaves `consentLog` out of its view, `app` the events of the
  trails but for their number: no guard reads them, and none of the properties
  of these runs speaks of them.
* Symmetry is used over workers or calls, requests and plain users, and only in
  runs without liveness. In `app` the opened request is told apart.

### Fairness

`Fairness` (`PassRequests`, `UserDirectory`): a worker that has taken an event
keeps running (weak fairness of `Advance`): the code has no unbounded waits of
its own, and the thread pool runs what was submitted. Steps that wait for a row
lock or for another's INSERT (`TakesLock` in `UserDirectory`) get strong fairness,
because PostgreSQL serves the
waiters of a lock in the order they came and every holder ends its transaction.
Nothing is assumed of users, of the clock, of start-ups or of failures.
`ChatWizard` and the mini-app state no liveness and assume none. `HandlerFinishes` of `webhook_numbers` covers the wait for the counter's
row, that of `directory` the waits for rows of `users`; waits for the rows of
`requests` happen in no run with liveness. Deadlock is checked in every run.

## 4. Proofs

All theorems hold for every value of the constants under the modules' named
assumptions; those with `OneWorker`, `OneHandler` or `OneCall` in their statement
for one event or call at a time, and `PatientShowsTruth` for a patient user. Every invariant and every action property the passing
runs check is proved.

`PassRequestsProofs`:

* `SpecTypeOK`. `TypeOK` alone is not inductive: the commit of an UPDATE edits
  `rows[r]`, which must be a row and not `Absent`. The invariant is
  `TypeInv == TypeOK /\ TargetsExist`: a transaction past its first read works on a
  row that exists, with the initiator and number it read. `RowsPermanent` is the
  reason: no step deletes a row or changes those two.
* `SpecNumbersExact`, `SpecCounterInv`. The invariant is `CounterInv`: what a
  transaction has read of the counter is never too large; one that is past
  the unique number holds the counter's row alone and knows its current value.
  `FreshNumber` is the heart: since the numbers given out are exactly
  101..counter, a reader of an old value would take a number that exists, so
  the unique constraint catches exactly the stale readers. `NumberGiven` is the
  commit, `CounterKnown`, `CounterHeld` and `NumbersKept` everything else.

`PassRequestsAuditProofs`:

* `SpecAuthorisedTrail`, with `AuditInv`: whoever was an administrator when a
  handler resolved the sender still is one, because no operation takes the
  right away (`AdminsGrow`); and a transaction past its checks still has the
  entitlement they established (`Rights`, `NextRights`).
* `SpecStatusAudited`, from the same `AuditInv`. A commit may lose against another
  (`Merged`), but the status it leaves is then the one already there, whose
  event is still in the trail (`CommittedTrail`).
* `SpecColumnsAudited`, with `ColumnsInv`: what the row says has happened is among
  its events, and what the entity of a transaction says is, with the event the
  transaction will record. `Merged` takes each column from one of the two, so the mixture of two
  handlers is accounted for as well (`MergedAccounted`); the events of an
  operation account for what it sets (`EditedAccounted`); trails only grow.
* `SpecConsentTrail`, with `ConsentInv`: a submission past its checks is by a user
  whose consent is recorded, and consents only grow. A consent is logged again
  only by a handler that was past its first look when the first row was
  committed (`Repeats`). The events of a user and the handlers that may still
  repeat are together no more than the handlers (`LogOf`): the handler of the
  first row is none of them, each repetition uses one up, and no new one comes
  (`NoNewRepeaters`).

`PassRequestsPollingProofs`. For any number of workers, `WebhookMovesUnlessOvertaken`,
with `Grounded`: what a transaction is about to save is the row it has read, edited
by an operation that the read status allows. If that row is still there, the commit
does to it what the operation does to what it checked (`CommitMoves`), which maps to
`Decide` or `React` of the abstract life, a submission to `Submit` and everything
else to a stutter (`MoveMapped`, `AppendMapped`, `NextMoves`). For `OneWorker` the
invariant is `Fresh`: what the one transaction has read is still the row, so nothing
is overtaken. From it `PollingColumnsAgree`, `PollingTerminalStable`, and the
refinement `PollingImplementsLifecycle`. `PollingSubmitConsumesDraft` adds
`DraftsHeld`: a submission past its checks is by a user whose completed draft is
still there, since nobody else can use it up (`DraftsAwait`).

`ChatWizardProofs`. `SpecTypeOK` is for any number of handlers. For `OneHandler` the
invariant is `WizardInv`: the row's step has its key; a text of the form is
awaited without a row only while the handler that has just deleted the row is
at `finish` (`Ending`); and, until a call fails, the row, the awaited text and the
card tapped last fit together for every user whose handler is not under way
(`Fits`), while a handler under way is about to make them fit (`Placed`,
`Expected`). From it the four `Polling...` theorems.

`UserDirectoryProofs`, for any number of handlers. `DirectoryInv` adds to the
properties that nothing is under way while the bot is down, that only one
INSERT of an id is open and then there is no row (`InsertAlone`), and that a
handler's role was its sender's by right (`Entitled`). `InsertAlone` is why
the insert of a stale reader never takes a promotion back (`SpecAdminsStay`).

`MockApiProofs`, for any number of calls. The copy a call saves may be stale
(`CopiesFit`): it only belongs to a request that exists, agrees with itself and
has a status its operation accepts. That is enough for
`SpecColumnsAgree` and `SpecStatusIsLastEvent`, since a request is saved whole.
`SpecMovesOfLifecycle` follows case by case. For `OneCall` copies are fresh
(`CopiesFresh`), nothing is overtaken, and `SequentialTerminalStable` and
`SequentialMovesOfLifecycle` follow.

`MiniAppProofs`, for any number of calls and requests, patient user or not.
`AppInv` adds to the mock's invariant that answers carry what they are to bring
(`CallsCarry`), that the session query waits for a session call
(`WaitsForSession`), that nothing in flight or in
the cache says the consent was given when it was not (`ConsentInv`), that the
answer the session query waits for is the present one unless the consent is
still unanswered (`SessionInv`), and that the demo requests have the first two
numbers (`NumberInv`). From it `AppSpecConsentBeforeRequest` and
`AppSpecSessionSettles`.

`PatientShowsTruth` needs `PatientInv` besides. Its last part, `FreshViews`, is
`ShowsTruth` made inductive: unless a change has been made whose answer the page
has not taken yet (`Changed`), what a fetch brings is the row, and so is what an
open page shows when no fetch is under way and the last one was answered. A
refusal needs nothing of its own: it brings no row, and marks the request until
one is brought. A change by the user's own button
ends in a fetch, because the page is still the one where it was pressed
(`PressedHere`). That this is so rests on what sends a user elsewhere: no
redirection does (`Admitted`: away from home the user has been let in by a session
that is still right, and no consent is on its way, `OneConsent`), no
creation does (`OneCreation`: there is one at a time and it ends at the form or the
list, for a patient user who leaves the form only goes to the list and stays
there), and a patient user does not leave. `Known` says that pages only name
requests that exist. TLC checked `PatientInv` before it was proved.

`CallbackPayload`: `RoundTrip` (what is put into a button comes out of it, colons in
the argument included), `OnlyEncoded` (nothing else decodes to an action) and
`PartsArrive` (what a card's button was made of reaches its handler).

Only model-checked: the liveness properties (`HandlerFinishes` of `PassRequests` and of
`UserDirectory`), which the proof system does not cover.

## 5. Not modelled, and what could come next

Nearly all of the repository's 640 000 lines are vendored packages
(`max-pass-bot/.deps`) and generated files. Its own code is about 6 000 lines,
and much of that is markup, styling and wording. Of it are not modelled:

* the dispatcher of `maxapi`, the entry points' wiring, the settings, the
  webhook's secret and subscription: I/O and configuration;
* texts, message layout, lists with their limits and filters, the audit feed and
  the zones: they are only read and decide nothing;
* the lengths and alphabets of names and purposes and the calendar of visit
  dates: only that a value can be refused, at any time, is in the models (a date
  can become past between the form and its submission, `RollBack`, `Midnight`);
* the migration (one initial schema, read from `models.py`) and the HTTP
  contract, which no server in the repository implements.

Possible next steps:

1. `ChatWizard` composed with `PassRequests` in place of `WizardStep`: two taps on
   "send" in two handlers, whose effect is now only described from either side.
2. Two handlers of one user over a whole form: `ChatWizard` has them, and its types
   are proved for any number, but no document says what the form should then
   be, and no run checks it.
3. Liveness for the waits on rows of `requests`.
