--------------------------- MODULE MiniAppProofs ---------------------------
(***************************************************************************)
(* MiniApp, for any requests, calls in flight and users, patient or not:    *)
(* types, ConsentBeforeRequest and SessionSettles; and for a patient user,  *)
(* ShowsTruth.                                                              *)
(***************************************************************************)
EXTENDS MiniApp, MockApiProofs

(* What the calls in flight carry.                                          *)
CallsCarry ==
  \A c \in Slots :
    /\ calls[c].pc = "answered" /\ calls[c].op = "create" =>
         calls[c].target \in Requests
    /\ calls[c].pc = "answered" /\ calls[c].op = "session" => carried[c] \in Session

(* The session query waits for a session call.                              *)
WaitsForSession ==
  sessionCall # Nobody =>
    calls[sessionCall].pc # "idle" /\ calls[sessionCall].op = "session"

(* A session answer is as good as new but for a consent that is on its way. *)
UpToDate(s) ==
  s.role = role /\ (~ InFlight({"consent"}) => s.required = ~ accepted)

SessionInv ==
  /\ sessionCall # Nobody /\ calls[sessionCall].pc = "answered"
       => UpToDate(carried[sessionCall])
  /\ sessionCall = Nobody /\ session # NoData => UpToDate(session)

(* No cached or travelling session knows of a consent the server does not.  *)
Consented(s) == s # NoData /\ ~ s.required => accepted

ConsentInv ==
  /\ Consented(session)
  /\ \A c \in Slots : Consented(carried[c])
  /\ page.name = "form" => session # NoData /\ ~ session.required
  /\ \A c \in Slots : calls[c].pc = "sent" /\ calls[c].op = "create" => accepted

(* Numbers are given once, the first two to the demo requests.              *)
NumberInv ==
  /\ Existing = {} => lastNumber = BaseValue
  /\ ConsentBeforeRequest
  /\ \A c \in Slots : calls[c].pc = "body" /\ calls[c].op \in AwaitOps =>
       calls[c].read.number = rows[calls[c].target].number

AppInv ==
  /\ MockInv /\ AppTypeOK /\ CallsCarry /\ WaitsForSession
  /\ SessionInv /\ ConsentInv /\ NumberInv

-----------------------------------------------------------------------------
(* Shapes.                                                                  *)

LEMMA PageShapes ==
  /\ \A p \in {"home", "onboarding", "mine", "form", "queue"} : Plain(p) \in Pages
  /\ \A r \in Requests : Details(r) \in Pages /\ Card(r) \in Pages
  /\ \A p \in Pages : p.of \in Requests \cup {Nobody}
  BY DEF Plain, Details, Card, Pages

LEMMA RedirectedType ==
  ASSUME NEW p \in Pages, NEW s
  PROVE  /\ Redirected(p, s) \in Pages
         /\ Redirected(p, s).name = "form" =>
              p.name = "form" /\ (s # NoData => ~ s.required)
<1>1. Plain("home") \in Pages /\ Plain("onboarding") \in Pages
  BY PageShapes
<1>2. Plain("home").name # "form" /\ Plain("onboarding").name # "form"
  BY DEF Plain
<1> QED
  BY <1>1, <1>2 DEF Redirected

LEMMA ShowType ==
  ASSUME NEW p \in Pages, viewFetch \in [Requests -> Fetches], Show(p)
  PROVE  page' = p /\ viewFetch' \in [Requests -> Fetches] /\ submitting' \in BOOLEAN
<1>1. Sent(FALSE) \in Fetches
  BY DEF Fetches, Sent
<1>2. \A r \in Requests : Fetching(r) \in [Requests -> Fetches]
  BY <1>1 DEF Fetching
<1>3. p.of # Nobody => p.of \in Requests
  BY PageShapes
<1> QED
  BY <1>2, <1>3 DEF Show

LEMMA NoDataApart == NoData \notin Session /\ \A m \in Row : m # NoData
<1>1. NoData \notin Session
  <2>1. "role" \notin DOMAIN NoData
    BY DEF NoData
  <2>2. \A s \in Session : "role" \in DOMAIN s
    BY DEF Session
  <2> QED
    BY <2>1, <2>2
<1>2. \A m \in Row : m # NoData
  <2>1. "no data" \notin Statuses /\ NoData.status = "no data"
    BY DEF Statuses, NoData
  <2>2. \A m \in Row : m.status \in Statuses
    BY DEF Row
  <2> QED
    BY <2>1, <2>2
<1> QED
  BY <1>1, <1>2

LEMMA HandleEffect ==
  ASSUME TypeOK, NEW c \in Slots, Handle(c)
  PROVE  /\ calls' \in [Slots -> CallRecords]
         /\ \A d \in Slots : d # c => calls'[d] = calls[d]
         /\ calls'[c].op = calls[c].op
         /\ calls[c].pc \in {"sent", "body"} /\ calls'[c].pc \in {"body", "answered"}
         /\ calls'[c].pc = "answered" /\ calls[c].op = "create" =>
              calls'[c].target \in Requests
         /\ calls'[c].pc = "answered" /\ calls[c].op = "session" => calls[c].pc = "body"
         /\ calls'[c].pc = "body" /\ calls[c].op \in AwaitOps =>
              calls'[c].read = rows[calls'[c].target] /\ UNCHANGED rows
         /\ role' = role
         /\ \/ accepted' = accepted
            \/ accepted' = TRUE /\ calls[c].op = "consent"
<1>0. calls[c] \in CallRecords
  BY DEF TypeOK
<1>10. \A x \in CallRecords : Become(c, x) =>
        /\ calls' \in [Slots -> CallRecords]
        /\ \A d \in Slots : d # c => calls'[d] = calls[d]
        /\ calls'[c] = x
  BY BecomeType DEF TypeOK
<1> DEFINE Ends == {Answered(c, TRUE), Answered(c, FALSE)}
<1>1. calls[c].pc \in {"sent", "body"} =>
        \A a \in Ends :
          /\ a \in CallRecords /\ a.pc = "answered" /\ a.op = calls[c].op
          /\ \A r \in Requests :
               /\ [a EXCEPT !.target = r] \in CallRecords
               /\ [a EXCEPT !.target = r].pc = "answered"
               /\ [a EXCEPT !.target = r].op = calls[c].op
               /\ [a EXCEPT !.target = r].target = r
  <2> SUFFICES ASSUME calls[c].pc \in {"sent", "body"}, NEW a \in Ends
               PROVE  /\ a \in CallRecords /\ a.pc = "answered" /\ a.op = calls[c].op
                      /\ \A r \in Requests :
                           /\ [a EXCEPT !.target = r] \in CallRecords
                           /\ [a EXCEPT !.target = r].pc = "answered"
                           /\ [a EXCEPT !.target = r].op = calls[c].op
                           /\ [a EXCEPT !.target = r].target = r
    OBVIOUS
  <2>1. CASE a = Answered(c, TRUE)
    BY <1>0, <2>1, AnsweredShape DEF Answered
  <2>2. CASE a = Answered(c, FALSE)
    BY <1>0, <2>2, AnsweredShape DEF Answered
  <2> QED
    BY <2>1, <2>2
<1> HIDE DEF Ends
<1>11. Answered(c, TRUE) \in Ends /\ Answered(c, FALSE) \in Ends
  BY DEF Ends
<1>2. \A op \in AwaitOps : op \notin {"create", "session", "consent"}
  BY DEF AwaitOps
<1>3. CASE HandleAtOnce(c)
  <2>1. PICK a \in Ends : Become(c, a)
    BY <1>3, <1>11 DEF HandleAtOnce, Answer
  <2>2. calls[c].pc = "sent" /\ calls[c].op \in SyncOps
        /\ UNCHANGED <<role, accepted>>
    BY <1>3 DEF HandleAtOnce, Save, memoryUnchanged
  <2> QED
    BY <1>10, <1>11, <1>1, <2>1, <2>2 DEF SyncOps
<1>4. CASE Check(c)
  <2>1. /\ calls[c].pc = "sent" /\ calls[c].op \in AwaitOps
        /\ UNCHANGED <<role, accepted, rows>>
    BY <1>4 DEF Check, memoryUnchanged
  <2>2. CASE Allowed(calls[c].op, calls[c].target)
    <3> DEFINE y == [pc |-> "body", op |-> calls[c].op, target |-> calls[c].target,
                     read |-> rows[calls[c].target]]
    <3>1. calls[c].target \in Requests
      BY <1>0, <2>1, Shapes DEF RequestOps
    <3>2. rows[calls[c].target] \in Row
      BY <2>2, <3>1 DEF Allowed, Exists, TypeOK
    <3>3. y \in CallRecords /\ y.op = calls[c].op /\ y.pc = "body"
          /\ y.read = rows[y.target]
      BY <2>1, <3>1, <3>2, NewShapes
    <3>4. Become(c, y)
      BY <1>4, <2>2 DEF Check
    <3> HIDE DEF y
    <3> QED
      BY <1>10, <1>2, <2>1, <3>3, <3>4
  <2>3. CASE ~ Allowed(calls[c].op, calls[c].target)
    <3>1. PICK a \in Ends : Become(c, a)
      BY <1>4, <1>11, <2>3 DEF Check, Answer
    <3>2. a \in CallRecords /\ a.pc = "answered" /\ a.op = calls[c].op
      BY <1>1, <2>1
    <3> QED
      BY <1>10, <1>2, <2>1, <3>1, <3>2
  <2> QED
    BY <2>2, <2>3
<1>5. CASE Store(c)
  <2>1. /\ calls[c].pc = "body" /\ calls[c].op \in AwaitOps
        /\ Become(c, Answered(c, TRUE)) /\ UNCHANGED <<role, accepted>>
    BY <1>5 DEF Store, Save, Answer
  <2> QED
    BY <1>10, <1>11, <1>1, <1>2, <2>1
<1>6. CASE Create(c)
  <2>1. PICK a \in Ends, r \in Requests : Become(c, [a EXCEPT !.target = r])
    BY <1>6, <1>11 DEF Create
  <2>2. calls[c].pc = "sent" /\ calls[c].op = "create" /\ UNCHANGED <<role, accepted>>
    BY <1>6 DEF Create
  <2> DEFINE y == [a EXCEPT !.target = r]
  <2>3. y \in CallRecords /\ y.pc = "answered" /\ y.op = calls[c].op /\ y.target = r
    BY <1>1, <2>2
  <2> HIDE DEF y
  <2>4. Become(c, y)
    BY <2>1 DEF y
  <2> QED
    BY <1>10, <2>2, <2>3, <2>4
<1>7. CASE AcceptConsent(c)
  <2>1. /\ calls[c].pc = "sent" /\ calls[c].op = "consent"
        /\ Become(c, Answered(c, TRUE)) /\ accepted' = TRUE /\ role' = role
    BY <1>7 DEF AcceptConsent, Answer
  <2> QED
    BY <1>10, <1>11, <1>1, <2>1
<1>8. CASE OpenSession(c)
  <2> DEFINE y == [pc |-> "body", op |-> "session", target |-> Nobody]
  <2>1. y \in CallRecords /\ y.pc = "body" /\ y.op = "session"
    BY NewShapes
  <2>2. /\ calls[c].pc = "sent" /\ calls[c].op = "session" /\ Become(c, y)
        /\ UNCHANGED <<role, accepted>>
    BY <1>8 DEF OpenSession
  <2> HIDE DEF y
  <2> QED
    BY <1>10, <1>2, <2>1, <2>2
<1>9. CASE AnswerSession(c)
  <2>1. /\ calls[c].pc = "body" /\ calls[c].op = "session"
        /\ Become(c, Answered(c, TRUE)) /\ UNCHANGED <<role, accepted>>
    BY <1>9 DEF AnswerSession, Answer
  <2> QED
    BY <1>10, <1>11, <1>1, <2>1
<1> QED
  BY <1>3, <1>4, <1>5, <1>6, <1>7, <1>8, <1>9 DEF Handle

(* What every other step does to the calls: nothing, or it puts something   *)
(* else in one slot, with no creation answered and no session answered.     *)
LEMMA SendEffect ==
  ASSUME TypeOK, NEW c \in Slots, NEW op \in RequestOps \cup OtherOps, NEW r,
         op \in RequestOps => r \in Requests, op \in OtherOps => r = Nobody,
         Send(c, op, r)
  PROVE  /\ calls[c].pc = "idle"
         /\ calls' = [calls EXCEPT ![c] = [pc |-> "sent", op |-> op, target |-> r]]
         /\ [pc |-> "sent", op |-> op, target |-> r] \in CallRecords
         /\ memoryUnchanged
<1>1. [pc |-> "sent", op |-> op, target |-> r] \in CallRecords
  BY NewShapes
<1> QED
  BY <1>1 DEF Send, Become, Idle

LEMMA StartEffect ==
  ASSUME TypeOK, NEW c \in Slots, StartSession(c)
  PROVE  /\ calls' = [calls EXCEPT ![c] = [pc |-> "sent", op |-> "session",
                                         target |-> Nobody]]
         /\ [pc |-> "sent", op |-> "session", target |-> Nobody] \in CallRecords
         /\ sessionCall' = c
<1>1. [pc |-> "sent", op |-> "session", target |-> Nobody] \in CallRecords
  BY NewShapes DEF OtherOps
<1> QED
  BY <1>1 DEF StartSession, Become

-----------------------------------------------------------------------------
(* The server's part of the invariant.                                      *)

(* A slot is given something that is no copy, and the memory stays.         *)
LEMMA CallStep ==
  ASSUME MockInv, NEW c \in Slots, NEW x \in CallRecords,
         calls' = [calls EXCEPT ![c] = x], x.pc # "body",
         role' \in Roles, UNCHANGED <<user, accepted, rows, audit, lastNumber>>
  PROVE  MockInv'
<1>1. /\ calls' \in [Slots -> CallRecords]
      /\ calls'[c] = x
      /\ \A d \in Slots : d # c => calls'[d] = calls[d]
  BY DEF MockInv, TypeOK
<1>2. TypeOK'
  BY <1>1 DEF MockInv, TypeOK
<1>3. CopiesFit'
  BY <1>1 DEF MockInv, CopiesFit, Exists
<1>4. StatusIsLastEvent' /\ ColumnsAgree'
  BY DEF MockInv, StatusIsLastEvent, ColumnsAgree, Exists
<1> QED
  BY <1>2, <1>3, <1>4 DEF MockInv

LEMMA MemoryStays ==
  ASSUME MockInv, UNCHANGED mockVars
  PROVE  MockInv'
  BY NextInv

LEMMA NextRoleType == NextRole \in Roles
  BY DEF NextRole, Roles

-----------------------------------------------------------------------------
(* The kinds of step, and that each keeps the invariant.                    *)

FormAllowed == page.name = "form" => session # NoData /\ ~ session.required

ClientTypes ==
  /\ page \in Pages
  /\ view \in [Requests -> Row \cup {NoData}]
  /\ viewFetch \in [Requests -> Fetches]
  /\ refused \subseteq Requests
  /\ draft \in {"incomplete", "complete"}
  /\ submitting \in BOOLEAN
  /\ goingHome \in {"no", "posting", "invalidated", "refetching"}
  /\ created \subseteq Requests

(* Nothing but the page's own state changes.                                *)
LEMMA ClientStep ==
  ASSUME AppInv, UNCHANGED <<mockVars, session, sessionCall, carried>>,
         ClientTypes', FormAllowed'
  PROVE  AppInv'
<1>1. MockInv'
  BY MemoryStays DEF AppInv
<1>2. AppTypeOK'
  BY <1>1 DEF AppInv, AppTypeOK, ClientTypes, MockInv
<1>3. CallsCarry' /\ WaitsForSession'
  BY DEF AppInv, CallsCarry, WaitsForSession, mockVars
<1>4. SessionInv'
  BY DEF AppInv, SessionInv, UpToDate, InFlight, mockVars
<1>5. ConsentInv'
  BY DEF AppInv, ConsentInv, Consented, FormAllowed, mockVars
<1>6. NumberInv'
  BY DEF AppInv, NumberInv, ConsentBeforeRequest, Existing, Exists, mockVars
<1> QED
  BY <1>1, <1>2, <1>3, <1>4, <1>5, <1>6 DEF AppInv

(* A slot that waits for nothing about the session is given x: a call that  *)
(* has been sent, or nothing.                                               *)
LEMMA SlotStep ==
  ASSUME AppInv, NEW c \in Slots, NEW x \in CallRecords,
         calls' = [calls EXCEPT ![c] = x], memoryUnchanged,
         c # sessionCall,
         calls[c].pc # "idle" => calls[c].op # "consent",
         x.pc \in {"sent", "idle"},
         x.pc = "sent" /\ x.op = "create" => accepted,
         UNCHANGED <<session, sessionCall, carried>>, ClientTypes', FormAllowed'
  PROVE  AppInv'
<1>0. /\ calls' \in [Slots -> CallRecords]
      /\ calls'[c] = x
      /\ \A d \in Slots : d # c => calls'[d] = calls[d]
  BY DEF AppInv, AppTypeOK, TypeOK
<1>1. MockInv'
  BY CallStep DEF AppInv, memoryUnchanged, AppTypeOK, TypeOK
<1>2. AppTypeOK'
  BY <1>1 DEF AppInv, AppTypeOK, ClientTypes, MockInv
<1>3. CallsCarry' /\ WaitsForSession'
  BY <1>0, AppAssumption DEF AppInv, CallsCarry, WaitsForSession, AppTypeOK, AppAssumption
<1>4. SessionInv'
  <2>1. InFlight({"consent"}) => InFlight({"consent"})'
    BY <1>0 DEF InFlight
  <2>2. \A s : UpToDate(s) => UpToDate(s)'
    BY <2>1 DEF UpToDate, memoryUnchanged
  <2>3. sessionCall # Nobody => calls'[sessionCall] = calls[sessionCall]
    BY <1>0 DEF AppInv, AppTypeOK
  <2> QED
    BY <2>1, <2>3 DEF AppInv, SessionInv, UpToDate, memoryUnchanged
<1>5. ConsentInv'
  BY <1>0 DEF AppInv, ConsentInv, Consented, FormAllowed, memoryUnchanged
<1>6. NumberInv'
  BY <1>0 DEF AppInv, NumberInv, ConsentBeforeRequest, Existing, Exists, memoryUnchanged
<1> QED
  BY <1>1, <1>2, <1>3, <1>4, <1>5, <1>6 DEF AppInv

(* A session fetch starts in a slot that is idle or has just been answered, *)
(* and perhaps the role has changed.                                        *)
LEMMA StartStep ==
  ASSUME AppInv, NEW c \in Slots, StartSession(c),
         role' \in Roles, UNCHANGED <<user, accepted, rows, audit, lastNumber>>,
         UNCHANGED <<session, carried>>, ClientTypes', FormAllowed'
  PROVE  AppInv'
<1> DEFINE x == [pc |-> "sent", op |-> "session", target |-> Nobody]
<1>0. /\ calls' = [calls EXCEPT ![c] = x] /\ x \in CallRecords /\ sessionCall' = c
      /\ x.pc = "sent" /\ x.op = "session"
  BY StartEffect DEF AppInv, MockInv
<1> HIDE DEF x
<1>1. MockInv'
  BY <1>0, CallStep DEF AppInv
<1>2. /\ calls' \in [Slots -> CallRecords]
      /\ calls'[c] = x
      /\ \A d \in Slots : d # c => calls'[d] = calls[d]
  BY <1>0 DEF AppInv, AppTypeOK, TypeOK
<1>3. AppTypeOK'
  BY <1>0, <1>1 DEF AppInv, AppTypeOK, ClientTypes, MockInv
<1>4. CallsCarry' /\ WaitsForSession'
  BY <1>0, <1>2 DEF AppInv, CallsCarry, WaitsForSession
<1>5. SessionInv'
  BY <1>0, <1>2, AppAssumption DEF SessionInv, AppAssumption
<1>6. ConsentInv'
  BY <1>0, <1>2 DEF AppInv, ConsentInv, Consented, FormAllowed
<1>7. NumberInv'
  BY <1>0, <1>2 DEF AppInv, NumberInv, ConsentBeforeRequest, Existing, Exists
<1> QED
  BY <1>1, <1>3, <1>4, <1>5, <1>6, <1>7 DEF AppInv

(* An answer about the session arrives.                                     *)
LEMMA TakeSessionStep ==
  ASSUME AppInv, NEW c \in Slots, TakeSession(c)
  PROVE  AppInv'
<1>0. /\ calls[c].pc = "answered" /\ calls[c].op = "session"
      /\ carried' = [carried EXCEPT ![c] = NoData]
      /\ memoryUnchanged /\ UNCHANGED <<view, refused, draft, created>>
  BY DEF TakeSession, Returned
<1>1. /\ carried' \in [Slots -> Session \cup {NoData}]
      /\ carried'[c] = NoData
      /\ \A d \in Slots : d # c => carried'[d] = carried[d]
  BY <1>0 DEF AppInv, AppTypeOK
<1> DEFINE x == IF c = sessionCall /\ goingHome = "invalidated"
                THEN [pc |-> "sent", op |-> "session", target |-> Nobody] ELSE Idle
<1>2. calls' = [calls EXCEPT ![c] = x]
  BY StartEffect DEF TakeSession, Become, AppInv, MockInv
<1>3. /\ x \in CallRecords /\ x.pc \in {"sent", "idle"}
      /\ x.pc = "sent" => x.op = "session"
  BY NewShapes DEF OtherOps, Idle
<1> HIDE DEF x
<1>4. /\ calls' \in [Slots -> CallRecords]
      /\ calls'[c] = x
      /\ \A d \in Slots : d # c => calls'[d] = calls[d]
  BY <1>2, <1>3 DEF AppInv, AppTypeOK, TypeOK
<1>5. MockInv'
  BY <1>0, <1>2, <1>3, CallStep DEF AppInv, AppTypeOK, TypeOK, memoryUnchanged
<1>6. CallsCarry'
  BY <1>1, <1>3, <1>4 DEF AppInv, CallsCarry
<1>7. NumberInv'
  BY <1>0, <1>3, <1>4
     DEF AppInv, NumberInv, ConsentBeforeRequest, Existing, Exists, memoryUnchanged
<1>8. InFlight({"consent"}) = InFlight({"consent"})'
  BY <1>0, <1>3, <1>4 DEF InFlight
<1>9. CASE c # sessionCall
  <2>1. UNCHANGED <<page, session, sessionCall, viewFetch, submitting, goingHome>>
    BY <1>9 DEF TakeSession
  <2>2. AppTypeOK'
    BY <1>0, <1>1, <1>5, <2>1 DEF AppInv, AppTypeOK, MockInv
  <2>3. WaitsForSession'
    BY <1>4, <1>9, <2>1 DEF AppInv, AppTypeOK, WaitsForSession
  <2>4. SessionInv'
    <3>1. sessionCall # Nobody => calls'[sessionCall] = calls[sessionCall]
                                  /\ carried'[sessionCall] = carried[sessionCall]
      BY <1>1, <1>4, <1>9 DEF AppInv, AppTypeOK
    <3> QED
      BY <1>0, <1>8, <2>1, <3>1 DEF AppInv, SessionInv, UpToDate, memoryUnchanged
  <2>5. ConsentInv'
    BY <1>0, <1>1, <1>3, <1>4, <2>1 DEF AppInv, ConsentInv, Consented, memoryUnchanged
  <2> QED
    BY <1>5, <1>6, <1>7, <2>2, <2>3, <2>4, <2>5 DEF AppInv
<1>10. CASE c = sessionCall
  <2> DEFINE p == IF goingHome = "refetching" THEN Plain("home") ELSE page
  <2>1. session' = carried[c] /\ Show(Redirected(p, carried[c]))
    BY <1>10 DEF TakeSession
  <2>2. carried[c] \in Session /\ carried[c] # NoData
    BY <1>0, NoDataApart DEF AppInv, CallsCarry
  <2>3. p \in Pages
    BY PageShapes DEF AppInv, AppTypeOK
  <2> HIDE DEF p
  <2>4. /\ page' \in Pages /\ viewFetch' \in [Requests -> Fetches]
        /\ submitting' \in BOOLEAN
        /\ page'.name = "form" => ~ session'.required
    <3> DEFINE q == Redirected(p, carried[c])
    <3>1. q \in Pages /\ (q.name = "form" => ~ carried[c].required)
      BY <2>2, <2>3, RedirectedType
    <3> HIDE DEF q
    <3>2. Show(q)
      BY <2>1 DEF q
    <3> QED
      BY <2>1, <3>1, <3>2, ShowType DEF AppInv, AppTypeOK
  <2>5. \/ goingHome = "invalidated" /\ goingHome' = "refetching" /\ sessionCall' = c
        \/ goingHome # "invalidated" /\ goingHome' \in {"no", goingHome}
           /\ sessionCall' = Nobody
    BY <1>10 DEF TakeSession, StartSession
  <2>6. AppTypeOK'
    BY <1>0, <1>1, <1>5, <2>1, <2>2, <2>4, <2>5 DEF AppInv, AppTypeOK, MockInv
  <2>7. sessionCall' = c => x.pc = "sent"
    BY <1>10, <2>5, AppAssumption DEF x, AppAssumption
  <2>8. WaitsForSession'
    BY <1>3, <1>4, <2>5, <2>7 DEF WaitsForSession
  <2>9. UpToDate(carried[c])
    BY <1>0, <1>10, AppAssumption DEF AppInv, SessionInv, AppAssumption
  <2>10. SessionInv'
    BY <1>0, <1>4, <1>8, <2>1, <2>5, <2>7, <2>9 DEF SessionInv, UpToDate, memoryUnchanged
  <2>11. ConsentInv'
    BY <1>0, <1>1, <1>3, <1>4, <2>1, <2>2, <2>4
       DEF AppInv, ConsentInv, Consented, memoryUnchanged
  <2> QED
    BY <1>5, <1>6, <1>7, <2>6, <2>8, <2>10, <2>11 DEF AppInv
<1> QED
  BY <1>9, <1>10

-----------------------------------------------------------------------------
(* The server's steps.                                                      *)

LEMMA HandleNumbers ==
  ASSUME MockInv, NumberInv, ConsentInv, NEW c \in Slots, Handle(c)
  PROVE  NumberInv'
<1>0. TypeOK /\ CopiesFit /\ calls[c] \in CallRecords
  BY DEF MockInv, TypeOK
<1>1. /\ calls' \in [Slots -> CallRecords]
      /\ \A d \in Slots : d # c => calls'[d] = calls[d]
      /\ calls'[c].op = calls[c].op
      /\ calls'[c].pc = "body" /\ calls[c].op \in AwaitOps =>
           calls'[c].read = rows[calls'[c].target] /\ UNCHANGED rows
      /\ accepted => accepted'
  BY <1>0, HandleEffect
<1>2. \A d \in Slots : calls[d].pc = "body" /\ calls[d].op \in AwaitOps =>
        calls[d].target \in Requests /\ Exists(calls[d].target)
  <2> SUFFICES ASSUME NEW d \in Slots, calls[d].pc = "body", calls[d].op \in AwaitOps
               PROVE  calls[d].target \in Requests /\ Exists(calls[d].target)
    OBVIOUS
  <2>1. calls[d] \in CallRecords
    BY <1>0 DEF TypeOK
  <2> QED
    BY <1>0, <2>1, Shapes DEF CopiesFit
(* Requests come to be no step away from their numbers.                     *)
<1>3. ASSUME \A q \in Requests : Exists(q)' <=> Exists(q),
             \A q \in Requests : Exists(q) => rows'[q].number = rows[q].number,
             lastNumber' = lastNumber
      PROVE  NumberInv'
  <2>1. Existing' = Existing
    BY <1>3 DEF Existing
  <2>2. ConsentBeforeRequest'
    BY <1>1, <1>3 DEF NumberInv, ConsentBeforeRequest
  <2>3. ASSUME NEW d \in Slots, calls'[d].pc = "body", calls'[d].op \in AwaitOps
        PROVE  calls'[d].read.number = rows'[calls'[d].target].number
    <3>1. CASE d = c
      BY <1>1, <2>3, <3>1
    <3>2. CASE d # c
      BY <1>1, <1>2, <1>3, <2>3, <3>2 DEF NumberInv
    <3> QED
      BY <3>1, <3>2
  <2> QED
    BY <1>3, <2>1, <2>2, <2>3 DEF NumberInv
<1>4. ASSUME UNCHANGED <<rows, lastNumber>> PROVE NumberInv'
  BY <1>3, <1>4 DEF Exists
<1>5. ASSUME NEW r \in Requests, Exists(r), NEW op, NEW m \in Row,
             m.number = rows[r].number, Save(r, op, m)
      PROVE  NumberInv'
  <2>1. rows \in [Requests -> Row \cup {Absent}]
    BY <1>0 DEF TypeOK
  <2>2. Edited(op, m, user).number = m.number
    BY DEF Edited, Row
  <2>3. Edited(op, m, user) # Absent
    <3>1. "number" \in DOMAIN Edited(op, m, user) /\ "number" \notin DOMAIN Absent
      BY DEF Edited, Row, Absent
    <3> QED
      BY <3>1
  <2>4. /\ rows'[r] = Edited(op, m, user)
        /\ \A q \in Requests : q # r => rows'[q] = rows[q]
        /\ lastNumber' = lastNumber
    BY <1>5, <2>1 DEF Save
  <2> QED
    BY <1>3, <1>5, <2>2, <2>3, <2>4 DEF Exists
<1>6. CASE HandleAtOnce(c)
  <2>1. CASE Allowed(calls[c].op, calls[c].target)
    <3>1. calls[c].target \in Requests
      BY <1>0, <1>6, Shapes DEF HandleAtOnce, RequestOps
    <3>2. Exists(calls[c].target) /\ rows[calls[c].target] \in Row
      BY <1>0, <2>1, <3>1 DEF Allowed, Exists, TypeOK
    <3>3. Save(calls[c].target, calls[c].op, rows[calls[c].target])
      BY <1>6, <2>1 DEF HandleAtOnce
    <3> QED
      BY <1>5, <3>1, <3>2, <3>3
  <2>2. CASE ~ Allowed(calls[c].op, calls[c].target)
    BY <1>4, <1>6, <2>2 DEF HandleAtOnce, memoryUnchanged
  <2> QED
    BY <2>1, <2>2
<1>7. CASE Store(c)
  <2>1. /\ calls[c].pc = "body" /\ calls[c].op \in AwaitOps
        /\ Save(calls[c].target, calls[c].op, calls[c].read)
    BY <1>7 DEF Store
  <2>2. calls[c].target \in Requests /\ Exists(calls[c].target) /\ calls[c].read \in Row
    BY <1>0, <1>2, <2>1, Shapes
  <2>3. calls[c].read.number = rows[calls[c].target].number
    BY <2>1 DEF NumberInv
  <2> QED
    BY <1>5, <2>1, <2>2, <2>3
<1>8. CASE Create(c)
  <2>1. /\ calls[c].pc = "sent" /\ calls[c].op = "create"
        /\ lastNumber' = lastNumber + 1 /\ accepted' = accepted
    BY <1>8 DEF Create
  <2>2. accepted' = TRUE
    BY <2>1, <1>0 DEF ConsentInv, TypeOK
  <2>3. PICK r \in Requests \ Existing :
          rows' = [rows EXCEPT ![r] = NewRow("pending", user, lastNumber + 1, FALSE)]
    BY <1>8 DEF Create
  <2>4. rows'[r] # Absent /\ \A q \in Requests : q # r => rows'[q] = rows[q]
    <3>1. "number" \in DOMAIN NewRow("pending", user, lastNumber + 1, FALSE)
          /\ "number" \notin DOMAIN Absent
      BY DEF NewRow, Absent
    <3> QED
      BY <1>0, <2>3, <3>1 DEF TypeOK
  <2>5. Existing' # {}
    BY <2>4 DEF Existing, Exists
  <2>6. ASSUME NEW d \in Slots, calls'[d].pc = "body", calls'[d].op \in AwaitOps
        PROVE  calls'[d].read.number = rows'[calls'[d].target].number
    <3>1. d # c
      BY <1>1, <2>1, <2>6 DEF AwaitOps
    <3>2. calls'[d] = calls[d]
      BY <1>1, <3>1
    <3>3. calls[d].target \in Requests /\ Exists(calls[d].target)
          /\ calls[d].read.number = rows[calls[d].target].number
      BY <1>2, <2>6, <3>2 DEF NumberInv
    <3>4. calls[d].target # r
      BY <2>3, <3>3 DEF Existing
    <3> QED
      BY <2>4, <3>2, <3>3, <3>4
  <2> QED
    BY <2>2, <2>5, <2>6 DEF NumberInv, ConsentBeforeRequest
<1>9. CASE AcceptConsent(c)
  BY <1>4, <1>9 DEF AcceptConsent
<1>10. CASE OpenSession(c)
  <2>1. CASE Existing # {}
    BY <1>4, <1>10, <2>1 DEF OpenSession
  <2>2. CASE Existing = {}
    <3>1. PICK a \in Requests, b \in Requests : a # b /\ Seed(a, b)
      BY <1>10, <2>2 DEF OpenSession
    <3>2. lastNumber = 100
      BY <2>2 DEF NumberInv, BaseValue
    <3>3. \A q \in Requests : rows[q] = Absent
      BY <2>2 DEF Existing, Exists
    <3>4. /\ rows'[a] = NewRow("pending", Colleague, lastNumber + 1, FALSE)
          /\ rows'[b] = NewRow("clarification", user, lastNumber + 2, TRUE)
          /\ \A q \in Requests : q \notin {a, b} => rows'[q] = rows[q]
      BY <1>0, <3>1 DEF Seed, TypeOK
    <3>5. rows'[a].number = 101 /\ rows'[b].number = 102
      BY <3>2, <3>4 DEF NewRow
    <3>6. rows'[a] # Absent
      <4>1. "number" \in DOMAIN rows'[a] /\ "number" \notin DOMAIN Absent
        BY <3>4 DEF NewRow, Absent
      <4> QED
        BY <4>1
    <3>7. Existing' # {}
      BY <3>6 DEF Existing, Exists
    <3>8. ConsentBeforeRequest'
      <4>1. ASSUME NEW q \in Requests PROVE rows'[q] = Absent \/ ~ (rows'[q].number > 102)
        <5>1. rows'[q] = Absent \/ rows'[q].number = 101 \/ rows'[q].number = 102
          <6>1. CASE q = a \/ q = b
            BY <3>5, <6>1
          <6>2. CASE q # a /\ q # b
            BY <3>3, <3>4, <6>2
          <6> QED
            BY <6>1, <6>2
        <5>2. \A n : n = 101 \/ n = 102 => ~ (n > 102)
          OBVIOUS
        <5> QED
          BY <5>1, <5>2, Zenon
      <4> QED
        BY <4>1 DEF ConsentBeforeRequest, Exists, BaseValue
    <3>9. ASSUME NEW d \in Slots PROVE ~ (calls'[d].pc = "body" /\ calls'[d].op \in AwaitOps)
      <4>1. CASE d = c
        BY <1>1, <1>10, <4>1 DEF OpenSession, AwaitOps
      <4>2. CASE d # c
        BY <1>1, <1>2, <2>2, <4>2 DEF Existing
      <4> QED
        BY <4>1, <4>2
    <3> QED
      BY <3>7, <3>8, <3>9 DEF NumberInv
  <2> QED
    BY <2>1, <2>2
<1>11. CASE AnswerSession(c)
  BY <1>4, <1>11 DEF AnswerSession
<1>12. CASE Check(c)
  BY <1>4, <1>12 DEF Check, memoryUnchanged
<1> QED
  BY <1>6, <1>7, <1>8, <1>9, <1>10, <1>11, <1>12 DEF Handle

LEMMA ServeStep ==
  ASSUME AppInv, NEW c \in Slots, Serve(c)
  PROVE  AppInv'
<1>0. /\ Handle(c)
      /\ UNCHANGED <<page, session, sessionCall, view, viewFetch, refused, draft,
                     submitting, goingHome, created>>
  BY DEF Serve
<1>1. /\ \A d \in Slots : d # c => calls'[d] = calls[d]
      /\ calls'[c].op = calls[c].op
      /\ calls[c].pc \in {"sent", "body"} /\ calls'[c].pc \in {"body", "answered"}
      /\ calls'[c].pc = "answered" /\ calls[c].op = "create" =>
           calls'[c].target \in Requests
      /\ calls'[c].pc = "answered" /\ calls[c].op = "session" => calls[c].pc = "body"
      /\ role' = role
      /\ \/ accepted' = accepted
         \/ accepted' = TRUE /\ calls[c].op = "consent"
  BY <1>0, HandleEffect DEF AppInv, MockInv
<1>2. MockInv'
  BY <1>0, StepInv DEF AppInv
<1>3. SessionNow \in Session
  BY DEF SessionNow, Session, AppInv, MockInv, TypeOK
<1>4. /\ carried' \in [Slots -> Session \cup {NoData}]
      /\ \A d \in Slots : d # c => carried'[d] = carried[d]
      /\ calls[c].op = "session" /\ calls[c].pc = "body" => carried'[c] = SessionNow
      /\ carried'[c] \in {carried[c], SessionNow}
  BY <1>3 DEF Serve, AppInv, AppTypeOK
<1>5. AppTypeOK'
  BY <1>0, <1>2, <1>4 DEF AppInv, AppTypeOK, MockInv
<1>6. CallsCarry'
  BY <1>1, <1>3, <1>4 DEF AppInv, CallsCarry
<1>7. WaitsForSession'
  BY <1>0, <1>1 DEF AppInv, AppTypeOK, WaitsForSession
<1>8. SessionInv'
  <2>1. InFlight({"consent"})' = InFlight({"consent"})
    BY <1>1 DEF InFlight
  <2>2. calls[c].op = "consent" => InFlight({"consent"})
    BY <1>1 DEF InFlight
  <2>3. \A s : UpToDate(s) => /\ s.role = role'
                              /\ ~ InFlight({"consent"})' => s.required = ~ accepted'
    BY <1>1, <2>1, <2>2 DEF UpToDate
  <2>4. CASE sessionCall = c
    <3>1. calls[c].op = "session"
      BY <2>4, AppAssumption DEF AppInv, WaitsForSession, AppAssumption
    <3>2. calls'[c].pc = "answered" => carried'[c] = SessionNow
      BY <1>1, <1>4, <3>1
    <3>3. accepted' = accepted
      BY <1>1, <3>1
    <3>4. SessionNow.role = role' /\ SessionNow.required = ~ accepted'
      BY <1>1, <3>3 DEF SessionNow
    <3>5. c # Nobody
      BY AppAssumption DEF AppAssumption
    <3> QED
      BY <1>0, <2>4, <3>2, <3>4, <3>5 DEF SessionInv, UpToDate
  <2>5. CASE sessionCall # c
    <3>1. sessionCall # Nobody => /\ calls'[sessionCall] = calls[sessionCall]
                                  /\ carried'[sessionCall] = carried[sessionCall]
      BY <1>1, <1>4, <2>5 DEF AppInv, AppTypeOK
    <3> QED
      BY <1>0, <2>3, <3>1 DEF AppInv, SessionInv, UpToDate
  <2> QED
    BY <2>4, <2>5
<1>9. ConsentInv'
  <2>1. accepted => accepted'
    BY <1>1
  <2>2. \A s : Consented(s) => (s # NoData /\ ~ s.required => accepted')
    BY <2>1 DEF Consented
  <2>3. Consented(SessionNow)
    BY DEF Consented, SessionNow
  <2>4. \A d \in Slots : carried'[d] # NoData /\ ~ carried'[d].required => accepted'
    BY <1>4, <2>2, <2>3 DEF AppInv, ConsentInv
  <2>5. \A d \in Slots : calls'[d].pc = "sent" /\ calls'[d].op = "create" => accepted'
    BY <1>1, <2>1 DEF AppInv, ConsentInv
  <2> QED
    BY <1>0, <2>2, <2>4, <2>5 DEF AppInv, ConsentInv, Consented
<1>10. NumberInv'
  BY <1>0, HandleNumbers DEF AppInv
<1> QED
  BY <1>2, <1>5, <1>6, <1>7, <1>8, <1>9, <1>10 DEF AppInv

-----------------------------------------------------------------------------
(* Every step keeps the invariant.                                          *)

LEMMA InvTypes ==
  ASSUME AppInv
  PROVE  ClientTypes /\ FormAllowed /\ TypeOK
  BY DEF AppInv, AppTypeOK, ClientTypes, ConsentInv, FormAllowed, MockInv

LEMMA NotAwaited ==
  ASSUME AppInv, NEW c \in Slots, calls[c].pc = "idle" \/ calls[c].op # "session"
  PROVE  c # sessionCall
  BY AppAssumption DEF AppInv, WaitsForSession, AppAssumption

LEMMA OpenStep ==
  ASSUME AppInv, NEW p \in Pages, Open(p)
  PROVE  AppInv'
<1>1. /\ session # NoData /\ Show(Redirected(p, session))
      /\ UNCHANGED <<mockVars, session, sessionCall, carried, view, refused, draft,
                     goingHome, created>>
  BY DEF Open
<1>2. /\ page' \in Pages /\ viewFetch' \in [Requests -> Fetches]
      /\ submitting' \in BOOLEAN
      /\ page'.name = "form" => ~ session.required
  <2> DEFINE q == Redirected(p, session)
  <2>1. q \in Pages /\ (q.name = "form" /\ session # NoData => ~ session.required)
    BY RedirectedType
  <2> HIDE DEF q
  <2>2. Show(q)
    BY <1>1 DEF q
  <2> QED
    BY <1>1, <2>1, <2>2, InvTypes, ShowType DEF ClientTypes
<1> QED
  BY <1>1, <1>2, InvTypes, ClientStep DEF ClientTypes, FormAllowed

LEMMA FormSteps ==
  ASSUME AppInv, Fill \/ Midnight \/ CancelForm
  PROVE  AppInv'
<1>1. CASE Fill
  BY <1>1, InvTypes, ClientStep DEF Fill, ClientTypes, FormAllowed
<1>2. CASE Midnight
  BY <1>2, InvTypes, ClientStep DEF Midnight, ClientTypes, FormAllowed
<1>3. CASE CancelForm
  <2>1. Plain("home") \in Pages /\ Plain("home").name # "form"
    BY PageShapes DEF Plain
  <2>2. /\ page' = Plain("home") /\ viewFetch' \in [Requests -> Fetches]
        /\ submitting' \in BOOLEAN
    BY <1>3, <2>1, InvTypes, ShowType DEF CancelForm, ClientTypes
  <2> QED
    BY <1>3, <2>1, <2>2, InvTypes, ClientStep DEF CancelForm, ClientTypes, FormAllowed
<1> QED
  BY <1>1, <1>2, <1>3

LEMMA ViewSteps ==
  ASSUME AppInv, NEW r \in Requests, ServeView(r) \/ TakeView(r) \/ TakeRefusal(r)
  PROVE  AppInv'
<1>1. NoFetch \in Fetches
  BY DEF NoFetch, Fetches
<1>2. CASE ServeView(r)
  <2>1. CanAccess(r) => [state |-> "served", row |-> rows[r]] \in Fetches
    BY InvTypes DEF CanAccess, Exists, TypeOK, Fetches
  <2>2. [state |-> "refused", again |-> viewFetch[r].again] \in Fetches
    <3>1. viewFetch[r] \in Fetches /\ viewFetch[r].state = "sent"
      BY <1>2, InvTypes DEF ServeView, ClientTypes
    <3>2. viewFetch[r].again \in BOOLEAN
      BY <3>1 DEF Fetches
    <3> QED
      BY <3>2 DEF Fetches
  <2>3. viewFetch' \in [Requests -> Fetches]
    BY <1>2, <2>1, <2>2, InvTypes DEF ServeView, ClientTypes
  <2> QED
    BY <1>2, <2>3, InvTypes, ClientStep DEF ServeView, ClientTypes, FormAllowed
<1>3. CASE TakeView(r)
  <2>1. viewFetch[r] \in Fetches /\ viewFetch[r].state = "served"
    BY <1>3, InvTypes DEF TakeView, ClientTypes
  <2>2. viewFetch[r].row \in Row
    BY <2>1 DEF Fetches
  <2>3. view' \in [Requests -> Row \cup {NoData}]
        /\ viewFetch' \in [Requests -> Fetches]
    BY <1>1, <1>3, <2>2, InvTypes DEF TakeView, ClientTypes
  <2> QED
    BY <1>3, <2>3, InvTypes, ClientStep DEF TakeView, ClientTypes, FormAllowed
<1>4. CASE TakeRefusal(r)
  <2>1. Sent(TRUE) \in Fetches
    BY DEF Sent, Fetches
  <2>2. viewFetch' \in [Requests -> Fetches] /\ refused' \subseteq Requests
    BY <1>1, <1>4, <2>1, InvTypes DEF TakeRefusal, ClientTypes
  <2> QED
    BY <1>4, <2>2, InvTypes, ClientStep DEF TakeRefusal, ClientTypes, FormAllowed
<1> QED
  BY <1>2, <1>3, <1>4

LEMMA SessionSteps ==
  ASSUME AppInv, NEW c \in Slots,
         \/ LoadSession(c)
         \/ RefreshSession(c)
         \/ ToggleRole(c)
         \/ TakeConsent(c)
  PROVE  AppInv'
<1>1. /\ StartSession(c) /\ goingHome' \in {"no", "invalidated", goingHome}
      /\ role' \in {role, NextRole} /\ UNCHANGED <<user, accepted, rows, audit, lastNumber>>
      /\ UNCHANGED <<page, session, carried, view, viewFetch, refused, draft,
                     submitting, created>>
  BY DEF LoadSession, RefreshSession, ToggleRole, TakeConsent, memoryUnchanged
<1>2. ClientTypes' /\ FormAllowed' /\ role' \in Roles
  BY <1>1, InvTypes, NextRoleType DEF ClientTypes, FormAllowed, TypeOK
<1> QED
  BY <1>1, <1>2, StartStep

LEMMA SendSteps ==
  ASSUME AppInv, NEW c \in Slots,
         \/ \E op \in SyncOps \cup AwaitOps : Press(c, op)
         \/ Submit(c)
         \/ Accept(c)
  PROVE  AppInv'
<1>1. CASE \E op \in SyncOps \cup AwaitOps : Press(c, op)
  <2>1. PICK op \in SyncOps \cup AwaitOps : Press(c, op)
    BY <1>1
  <2>2. page.of \in Requests
    BY <2>1, InvTypes, PageShapes DEF Press, Offered, ClientTypes
  <2>3. op \in RequestOps /\ op \notin OtherOps
    BY DEF RequestOps, SyncOps, AwaitOps, OtherOps
  <2> DEFINE x == [pc |-> "sent", op |-> op, target |-> page.of]
  <2>4. calls[c].pc = "idle" /\ calls' = [calls EXCEPT ![c] = x]
        /\ x \in CallRecords /\ memoryUnchanged
    BY <2>1, <2>2, <2>3, InvTypes, SendEffect DEF Press
  <2>5. x.pc = "sent" /\ x.op # "create"
    BY <2>3 DEF OtherOps
  <2> HIDE DEF x
  <2>6. ClientTypes' /\ FormAllowed' /\ UNCHANGED <<session, sessionCall, carried>>
    BY <2>1, InvTypes DEF Press, ClientTypes, FormAllowed
  <2> QED
    BY <2>4, <2>5, <2>6, NotAwaited, SlotStep
<1>2. CASE Submit(c)
  <2> DEFINE x == [pc |-> "sent", op |-> "create", target |-> Nobody]
  <2>1. calls[c].pc = "idle" /\ calls' = [calls EXCEPT ![c] = x]
        /\ x \in CallRecords /\ memoryUnchanged
    BY <1>2, InvTypes, SendEffect DEF Submit, OtherOps, RequestOps, SyncOps, AwaitOps
  <2>2. x.pc = "sent"
    OBVIOUS
  <2>3. accepted
    BY <1>2 DEF Submit, AppInv, ConsentInv, Consented
  <2> HIDE DEF x
  <2>4. ClientTypes' /\ FormAllowed' /\ UNCHANGED <<session, sessionCall, carried>>
    BY <1>2, InvTypes DEF Submit, ClientTypes, FormAllowed
  <2> QED
    BY <2>1, <2>2, <2>3, <2>4, NotAwaited, SlotStep
<1>3. CASE Accept(c)
  <2> DEFINE x == [pc |-> "sent", op |-> "consent", target |-> Nobody]
  <2>1. calls[c].pc = "idle" /\ calls' = [calls EXCEPT ![c] = x]
        /\ x \in CallRecords /\ memoryUnchanged
    BY <1>3, InvTypes, SendEffect DEF Accept, OtherOps, RequestOps, SyncOps, AwaitOps
  <2>2. x.pc = "sent" /\ x.op # "create"
    OBVIOUS
  <2> HIDE DEF x
  <2>3. ClientTypes' /\ FormAllowed' /\ UNCHANGED <<session, sessionCall, carried>>
    BY <1>3, InvTypes DEF Accept, ClientTypes, FormAllowed
  <2> QED
    BY <2>1, <2>2, <2>3, NotAwaited, SlotStep
<1> QED
  BY <1>1, <1>2, <1>3

LEMMA TakeSteps ==
  ASSUME AppInv, NEW c \in Slots, TakeMutation(c) \/ TakeCreated(c)
  PROVE  AppInv'
<1>0. Idle \in CallRecords /\ Idle.pc = "idle"
  BY NewShapes DEF Idle
<1>1. CASE TakeMutation(c)
  <2>1. /\ calls[c].op \in SyncOps \cup AwaitOps /\ calls' = [calls EXCEPT ![c] = Idle]
        /\ memoryUnchanged
        /\ UNCHANGED <<page, session, sessionCall, carried, view, refused, draft,
                       submitting, goingHome, created>>
    BY <1>1 DEF TakeMutation, Returned, Become
  <2>2. calls[c].op \notin {"session", "consent"}
    BY <2>1 DEF SyncOps, AwaitOps
  <2>3. viewFetch' \in [Requests -> Fetches]
    <3>1. Sent(FALSE) \in Fetches
      BY DEF Fetches, Sent
    <3> QED
      BY <1>1, <3>1, InvTypes DEF TakeMutation, Fetching, ClientTypes
  <2>4. ClientTypes' /\ FormAllowed'
    BY <2>1, <2>3, InvTypes DEF ClientTypes, FormAllowed
  <2> QED
    BY <1>0, <2>1, <2>2, <2>4, NotAwaited, SlotStep
<1>2. CASE TakeCreated(c)
  <2> DEFINE r == calls[c].target
             q == Redirected(Details(r), session)
  <2>1. /\ calls[c].pc = "answered" /\ calls[c].op = "create"
        /\ calls' = [calls EXCEPT ![c] = Idle] /\ memoryUnchanged /\ draft' = "incomplete"
        /\ UNCHANGED <<session, sessionCall, carried, view, refused, goingHome>>
        /\ \/ created' = created \cup {r} /\ UNCHANGED <<page, viewFetch, submitting>>
           \/ Show(q) /\ UNCHANGED created
    BY <1>2 DEF TakeCreated, Returned, Become
  <2>2. r \in Requests
    BY <2>1 DEF AppInv, CallsCarry
  <2>3. q \in Pages /\ q.name # "form"
    <3>1. Details(r) \in Pages /\ Details(r).name # "form"
      BY <2>2, PageShapes DEF Details
    <3> QED
      BY <3>1, RedirectedType
  <2> HIDE DEF q
  <2>4. /\ viewFetch' \in [Requests -> Fetches] /\ created' \subseteq Requests
        /\ submitting' \in BOOLEAN
        /\ page' \in Pages /\ page' \in {page, q}
    BY <2>1, <2>2, <2>3, InvTypes, ShowType DEF ClientTypes
  <2>5. ClientTypes' /\ FormAllowed'
    BY <2>1, <2>3, <2>4, InvTypes DEF ClientTypes, FormAllowed
  <2> QED
    BY <1>0, <2>1, <2>5, NotAwaited, SlotStep
<1> QED
  BY <1>1, <1>2

LEMMA GoStep ==
  ASSUME AppInv, NEW r \in Requests, GoToCreated(r)
  PROVE  AppInv'
<1> DEFINE q == Redirected(Details(r), session)
<1>1. q \in Pages /\ q.name # "form"
  <2>1. Details(r) \in Pages /\ Details(r).name # "form"
    BY PageShapes DEF Details
  <2> QED
    BY <2>1, RedirectedType
<1>2. Show(q)
  BY DEF GoToCreated
<1> HIDE DEF q
<1>3. /\ page' = q /\ viewFetch' \in [Requests -> Fetches]
      /\ submitting' \in BOOLEAN
  BY <1>1, <1>2, InvTypes, ShowType DEF ClientTypes
<1> QED
  BY <1>1, <1>3, InvTypes, ClientStep DEF GoToCreated, ClientTypes, FormAllowed

LEMMA AppInitInv == AppInit => AppInv
<1> SUFFICES ASSUME AppInit PROVE AppInv
  OBVIOUS
<1>1. MockInv
  BY InitInv DEF AppInit
<1>2. AppTypeOK
  <2>1. Plain("home") \in Pages /\ NoFetch \in Fetches
    BY PageShapes DEF NoFetch, Fetches
  <2> QED
    BY <1>1, <2>1 DEF AppInit, AppTypeOK, MockInv
<1>3. CallsCarry /\ WaitsForSession /\ SessionInv
  BY DEF AppInit, Init, Idle, CallsCarry, WaitsForSession, SessionInv
<1>4. ConsentInv
  BY DEF AppInit, Init, Idle, ConsentInv, Consented, Plain
<1>5. NumberInv
  BY DEF AppInit, Init, Idle, NumberInv, ConsentBeforeRequest, Exists
<1> QED
  BY <1>1, <1>2, <1>3, <1>4, <1>5 DEF AppInv

LEMMA AppNextInv == AppInv /\ [AppNext]_allVars => AppInv'
<1> SUFFICES ASSUME AppInv, [AppNext]_allVars PROVE AppInv'
  OBVIOUS
<1>1. CASE UserStep
  BY <1>1, OpenStep, FormSteps, SessionSteps, SendSteps DEF UserStep
<1>2. CASE Delivery
  BY <1>2, ServeStep, TakeSessionStep, SessionSteps, TakeSteps, ViewSteps, GoStep
     DEF Delivery
<1>3. CASE UNCHANGED allVars
  BY <1>3, InvTypes, ClientStep DEF allVars, appVars, ClientTypes, FormAllowed
<1> QED
  BY <1>1, <1>2, <1>3 DEF AppNext

LEMMA AppSpecInv == AppSpec => []AppInv
  BY AppInitInv, AppNextInv, PTL DEF AppSpec

-----------------------------------------------------------------------------
(* The caches, the calls and the page keep their types (session.ts,         *)
(* queries.ts, draftStore.ts).                                              *)
THEOREM AppSpecTypeOK == AppSpec => []AppTypeOK
<1>1. AppInv => AppTypeOK
  BY DEF AppInv
<1> QED
  BY <1>1, AppSpecInv, PTL

(* However sessions, redirections and calls overlap, the guard in the       *)
(* layout (AppLayout) keeps everybody who has not consented from creating a *)
(* request.                                                                 *)
THEOREM AppSpecConsentBeforeRequest == AppSpec => []ConsentBeforeRequest
<1>1. AppInv => ConsentBeforeRequest
  BY DEF AppInv, NumberInv
<1> QED
  BY <1>1, AppSpecInv, PTL

(* The session cache ends up with what the server would answer, because     *)
(* every change of the role or the consent replaces the fetch under way     *)
(* (HomePage.toggleRole, useAcceptConsent).                                 *)
THEOREM AppSpecSessionSettles == AppSpec => []SessionSettles
<1>1. AppInv => SessionSettles
  <2> SUFFICES ASSUME AppInv, session # NoData, sessionCall = Nobody,
                      ~ InFlight({"consent"})
               PROVE  session = SessionNow
    BY DEF SessionSettles
  <2>1. session.role = role /\ session.required = ~ accepted
    BY DEF AppInv, SessionInv, UpToDate
  <2>2. session \in Session
    BY DEF AppInv, AppTypeOK
  <2> QED
    BY <2>1, <2>2 DEF Session, SessionNow
<1> QED
  BY <1>1, AppSpecInv, PTL
-----------------------------------------------------------------------------
(* A patient user's pages show the truth.                                   *)

Under(c, ops) == calls[c].pc # "idle" /\ calls[c].op \in ops

(* Away from home a session has let the user in: it is the current one, and *)
(* no later answer sends the user elsewhere, for no consent is on its way.  *)
Away == page.name \notin {"home", "onboarding"}

Admitted ==
  /\ Away => /\ session # NoData /\ ~ session.required /\ session.role = role
             /\ goingHome = "no"
  /\ page.name \in {"queue", "card"} => role \in AdminRoles
  /\ sessionCall # Nobody /\ calls[sessionCall].pc = "answered"
       /\ session # NoData /\ ~ session.required => ~ carried[sessionCall].required

OneConsent ==
  /\ \A c \in Slots : Under(c, {"consent"}) => goingHome = "posting"
  /\ \A c, d \in Slots : Under(c, {"consent"}) /\ Under(d, {"consent"}) => c = d

(* Only the form that sent it and the list of requests wait for a creation. *)
OneCreation ==
  /\ \A c, d \in Slots : Under(c, {"create"}) /\ Under(d, {"create"}) => c = d
  /\ \A c \in Slots : Under(c, {"create"}) =>
       /\ created = {}
       /\ \/ page.name = "form" /\ submitting
          \/ page.name = "mine"
  /\ created # {} => page.name = "mine"
  /\ \A r, s \in created : r = s

(* The page has only heard of requests that exist.                          *)
Known ==
  /\ page.of # Nobody => Exists(page.of)
  /\ \A r \in created : Exists(r)
  /\ \A c \in Slots : calls[c].pc = "answered" /\ calls[c].op = "create"
       => Exists(calls[c].target)
  /\ \A r \in Requests : viewFetch[r].state = "served" => Exists(r)

(* A button's call is answered before its page is left.                     *)
PressedHere ==
  \A c \in Slots : Under(c, RequestOps) =>
    page.of # Nobody /\ page.of = calls[c].target

(* A change of r has been made whose answer is still to come, with the      *)
(* fetch it causes.                                                         *)
Changed(r) ==
  \E c \in Slots : /\ calls[c].pc = "answered" /\ calls[c].op \in RequestOps
                   /\ calls[c].ok /\ calls[c].target = r

(* Otherwise what is on its way is the row as it is or a refusal, and what  *)
(* an open page shows when nothing is, is the row or what it was when the   *)
(* last fetch was refused.                                                  *)
FreshView(r) ==
  ~ Changed(r) =>
    /\ viewFetch[r].state = "served" => viewFetch[r].row = rows[r]
    /\ page.of = r /\ viewFetch[r] = NoFetch /\ r \notin refused
         => view[r] \in {NoData, rows[r]}

FreshViews == \A r \in Requests : FreshView(r)

PatientInv ==
  /\ Admitted /\ OneConsent /\ OneCreation /\ Known /\ PressedHere
  /\ FreshViews

-----------------------------------------------------------------------------
(* What a handler does to rows and targets.                                 *)
LEMMA HandleRows ==
  ASSUME MockInv, NEW c \in Slots, Handle(c)
  PROVE  /\ \A r \in Requests : Exists(r) => Exists(r)'
         /\ \A r \in Requests : Exists(r) /\ rows'[r] # rows[r] =>
              /\ calls'[c].pc = "answered" /\ calls'[c].op \in RequestOps
              /\ calls'[c].ok /\ calls'[c].target = r
         /\ calls[c].op \in RequestOps => calls'[c].target = calls[c].target
         /\ calls[c].op = "create" => Exists(calls[c].target)'
<1>0. /\ TypeOK /\ CopiesFit /\ calls[c] \in CallRecords
      /\ \A x : Become(c, x) => calls'[c] = x
  BY DEF MockInv, TypeOK, Become
<1>1. \A op \in RequestOps : op \notin {"create", "session", "consent"}
  BY DEF RequestOps, SyncOps, AwaitOps
<1>2. ASSUME NEW op, NEW m \in Row PROVE Edited(op, m, user) # Absent
  <2>1. "number" \in DOMAIN Edited(op, m, user) /\ "number" \notin DOMAIN Absent
    BY DEF Edited, Row, Absent
  <2> QED
    BY <2>1
<1>3. ASSUME calls[c].op \in RequestOps, NEW m \in Row,
             Save(calls[c].target, calls[c].op, m), Answer(c, TRUE)
      PROVE  /\ \A r \in Requests : Exists(r) => Exists(r)'
             /\ \A r \in Requests : Exists(r) /\ rows'[r] # rows[r] =>
                  /\ calls'[c].pc = "answered" /\ calls'[c].op \in RequestOps
                  /\ calls'[c].ok /\ calls'[c].target = r
             /\ calls'[c].target = calls[c].target
  <2>1. calls'[c] = [pc |-> "answered", op |-> calls[c].op,
                     target |-> calls[c].target, ok |-> TRUE]
    BY <1>0, <1>3 DEF Answer, Answered
  <2>2. /\ calls'[c].pc = "answered" /\ calls'[c].op = calls[c].op
        /\ calls'[c].target = calls[c].target /\ calls'[c].ok
    BY <2>1
  <2>3. \A r \in Requests :
          rows'[r] = IF r = calls[c].target THEN Edited(calls[c].op, m, user)
                                            ELSE rows[r]
    BY <1>0, <1>3 DEF Save, TypeOK
  <2> QED
    BY <1>2, <1>3, <2>2, <2>3 DEF Save, Exists
<1>4. CASE HandleAtOnce(c)
  <2>1. calls[c].op \in RequestOps /\ calls[c].target \in Requests
    BY <1>0, <1>4, Shapes DEF HandleAtOnce, RequestOps
  <2>2. CASE Allowed(calls[c].op, calls[c].target)
    <3>1. rows[calls[c].target] \in Row
      BY <1>0, <2>1, <2>2 DEF Allowed, Exists, TypeOK
    <3>2. /\ Save(calls[c].target, calls[c].op, rows[calls[c].target])
          /\ Answer(c, TRUE)
      BY <1>4, <2>2 DEF HandleAtOnce
    <3> QED
      BY <1>1, <1>3, <2>1, <3>1, <3>2
  <2>3. CASE ~ Allowed(calls[c].op, calls[c].target)
    <3>1. memoryUnchanged /\ calls'[c].target = calls[c].target
      BY <1>0, <1>4, <2>3 DEF HandleAtOnce, Answer, Answered
    <3> QED
      BY <1>1, <2>1, <3>1 DEF memoryUnchanged, Exists
  <2> QED
    BY <2>2, <2>3
<1>5. CASE Check(c)
  <2>1. calls[c].op \in RequestOps /\ memoryUnchanged
    BY <1>5 DEF Check, RequestOps
  <2>2. calls'[c].target = calls[c].target
    <3>1. CASE Allowed(calls[c].op, calls[c].target)
      BY <1>0, <1>5, <3>1 DEF Check
    <3>2. CASE ~ Allowed(calls[c].op, calls[c].target)
      BY <1>0, <1>5, <3>2 DEF Check, Answer, Answered
    <3> QED
      BY <3>1, <3>2
  <2> QED
    BY <1>1, <2>1, <2>2 DEF memoryUnchanged, Exists
<1>6. CASE Store(c)
  <2>1. /\ calls[c].op \in RequestOps /\ calls[c].target \in Requests
        /\ calls[c].read \in Row
    BY <1>0, <1>6, Shapes DEF Store, RequestOps
  <2>2. Save(calls[c].target, calls[c].op, calls[c].read) /\ Answer(c, TRUE)
    BY <1>6 DEF Store
  <2> QED
    BY <1>1, <1>3, <2>1, <2>2
<1>7. CASE Create(c)
  <2>1. PICK r \in Requests \ Existing :
          /\ rows' = [rows EXCEPT ![r] = NewRow("pending", user, lastNumber + 1, FALSE)]
          /\ Become(c, [Answered(c, TRUE) EXCEPT !.target = r])
    BY <1>7 DEF Create
  <2>2. calls'[c].target = r
    BY <1>0, <2>1 DEF Answered
  <2>3. rows'[r] # Absent /\ \A q \in Requests : q # r => rows'[q] = rows[q]
    <3>1. "number" \in DOMAIN NewRow("pending", user, lastNumber + 1, FALSE)
          /\ "number" \notin DOMAIN Absent
      BY DEF NewRow, Absent
    <3> QED
      BY <1>0, <2>1, <3>1 DEF TypeOK
  <2>4. calls[c].op = "create" /\ ~ Exists(r)
    BY <1>7, <2>1 DEF Create, Existing
  <2> QED
    BY <1>1, <2>2, <2>3, <2>4 DEF Exists
<1>8. CASE AcceptConsent(c)
  BY <1>1, <1>8 DEF AcceptConsent, Exists
<1>9. CASE OpenSession(c)
  <2>1. calls[c].op = "session" /\ calls[c].pc = "sent"
    BY <1>9 DEF OpenSession
  <2>2. rows' = rows \/ \A r \in Requests : ~ Exists(r)
    BY <1>9 DEF OpenSession, Existing
  <2> QED
    BY <1>1, <2>1, <2>2 DEF Exists
<1>10. CASE AnswerSession(c)
  BY <1>1, <1>10 DEF AnswerSession, Exists
<1> QED
  BY <1>4, <1>5, <1>6, <1>7, <1>8, <1>9, <1>10 DEF Handle

(* How a slot comes to hold a call: by a button, by a session fetch, or it  *)
(* has held it before.                                                      *)
LEMMA CallMoves ==
  ASSUME AppInv, [AppNext]_allVars, NEW d \in Slots, calls'[d].pc # "idle"
  PROVE  \/ calls'[d].op = "session"
         \/ Submit(d) \/ Accept(d) \/ \E op \in RequestOps : Press(d, op)
         \/ /\ calls[d].pc # "idle" /\ calls'[d].op = calls[d].op
            /\ calls[d].op \in RequestOps => calls'[d].target = calls[d].target
<1>0. \A c \in Slots : \A x : Become(c, x) =>
        calls'[c] = x /\ \A e \in Slots : e # c => calls'[e] = calls[e]
  BY InvTypes DEF Become, TypeOK
<1>1. \A c \in Slots : StartSession(c) =>
        calls'[c].op = "session" /\ \A e \in Slots : e # c => calls'[e] = calls[e]
  BY <1>0 DEF StartSession
<1>2. CASE UNCHANGED calls
  BY <1>2
<1>3. ASSUME NEW c \in Slots,
             \/ LoadSession(c) \/ RefreshSession(c) \/ ToggleRole(c)
             \/ TakeSession(c) \/ TakeConsent(c)
      PROVE  calls'[d].pc = "idle" \/ calls'[d].op = "session" \/ calls'[d] = calls[d]
  <2>1. StartSession(c) \/ Become(c, Idle)
    BY <1>3 DEF LoadSession, RefreshSession, ToggleRole, TakeSession, TakeConsent
  <2> QED
    BY <1>0, <1>1, <2>1 DEF Idle
<1>4. ASSUME NEW c \in Slots, TakeMutation(c) \/ TakeCreated(c)
      PROVE  calls'[d].pc = "idle" \/ calls'[d] = calls[d]
  <2>1. Become(c, Idle)
    BY <1>4 DEF TakeMutation, TakeCreated
  <2> QED
    BY <1>0, <2>1 DEF Idle
<1>5. ASSUME NEW c \in Slots, c # d,
             Submit(c) \/ Accept(c) \/ \E op \in RequestOps : Press(c, op)
      PROVE  calls'[d] = calls[d]
  <2>1. PICK op, r : Send(c, op, r)
    BY <1>5 DEF Submit, Accept, Press
  <2> QED
    BY <1>0, <1>5, <2>1 DEF Send
<1>6. ASSUME NEW c \in Slots, Serve(c)
      PROVE  /\ calls[d].pc # "idle" /\ calls'[d].op = calls[d].op
             /\ calls[d].op \in RequestOps => calls'[d].target = calls[d].target
  <2>1. CASE d = c
    <3>1. calls'[c].op = calls[c].op /\ calls[c].pc \in {"sent", "body"}
      BY <1>6, InvTypes, HandleEffect DEF Serve
    <3>2. calls[c].op \in RequestOps => calls'[c].target = calls[c].target
      BY <1>6, HandleRows DEF Serve, AppInv
    <3> QED
      BY <2>1, <3>1, <3>2
  <2>2. CASE d # c
    BY <1>6, <2>2, InvTypes, HandleEffect DEF Serve
  <2> QED
    BY <2>1, <2>2
<1>7. CASE UserStep
  <2>1. \/ UNCHANGED calls
        \/ \E c \in Slots :
             \/ LoadSession(c) \/ RefreshSession(c) \/ ToggleRole(c)
             \/ Submit(c) \/ Accept(c)
             \/ \E op \in RequestOps : Press(c, op)
    BY <1>7 DEF UserStep, Open, Fill, Midnight, CancelForm, RequestOps, mockVars
  <2> QED
    BY <1>2, <1>3, <1>5, <2>1
<1>8. CASE Delivery
  <2>1. \/ UNCHANGED calls
        \/ \E c \in Slots : \/ Serve(c) \/ TakeSession(c) \/ TakeConsent(c)
                            \/ TakeMutation(c) \/ TakeCreated(c)
    BY <1>8 DEF Delivery, ServeView, TakeView, TakeRefusal, GoToCreated, mockVars
  <2> QED
    BY <1>2, <1>3, <1>4, <1>6, <2>1
<1> QED
  BY <1>2, <1>7, <1>8 DEF AppNext, allVars, mockVars
-----------------------------------------------------------------------------
(* Pages and redirections.                                                  *)
LEMMA PageNames ==
  ASSUME NEW p \in Pages
  PROVE  /\ p.of \in Requests \cup {Nobody}
         /\ p.of # Nobody => p.name \in {"details", "card"}
         /\ p.of = Nobody => p.name \in {"home", "onboarding", "mine", "form", "queue"}
  BY AppAssumption DEF Pages, AppAssumption

LEMMA Redirections ==
  ASSUME NEW p, NEW s
  PROVE  /\ Redirected(p, s) \in {p, Plain("home"), Plain("onboarding")}
         /\ s # NoData /\ s.required => Redirected(p, s) = Plain("onboarding")
         /\ s # NoData /\ Redirected(p, s).name \in {"queue", "card"}
              => s.role \in AdminRoles
         /\ /\ s # NoData /\ ~ s.required /\ p.name # "onboarding"
            /\ p.name \in {"queue", "card"} => s.role \in AdminRoles
            => Redirected(p, s) = p
  BY DEF Redirected, Plain

(* What the buttons send, from a page that stays.                           *)
LEMMA Presses ==
  ASSUME TypeOK, NEW c \in Slots
  PROVE  /\ Submit(c) =>
              /\ calls[c].pc = "idle"
              /\ calls' = [calls EXCEPT ![c] =
                             [pc |-> "sent", op |-> "create", target |-> Nobody]]
              /\ memoryUnchanged
         /\ Accept(c) =>
              /\ calls[c].pc = "idle"
              /\ calls' = [calls EXCEPT ![c] =
                             [pc |-> "sent", op |-> "consent", target |-> Nobody]]
              /\ memoryUnchanged
         /\ \A op \in RequestOps : Press(c, op) =>
              /\ calls[c].pc = "idle" /\ page.of # Nobody
              /\ calls' = [calls EXCEPT ![c] =
                             [pc |-> "sent", op |-> op, target |-> page.of]]
              /\ memoryUnchanged
  BY DEF Submit, Accept, Press, Send, Become, Idle, Offered

(* A button's call becomes what it is, and the other calls stay.            *)
LEMMA PressedCalls ==
  ASSUME TypeOK, NEW c \in Slots
  PROVE  /\ Submit(c) => calls'[c].op = "create" /\ calls'[c].pc = "sent"
         /\ Accept(c) => calls'[c].op = "consent" /\ calls'[c].pc = "sent"
         /\ \A op \in RequestOps : Press(c, op) =>
              /\ calls'[c].op = op /\ calls'[c].pc = "sent"
              /\ calls'[c].target = page.of /\ page.of # Nobody
         /\ Submit(c) \/ Accept(c) \/ (\E op \in RequestOps : Press(c, op)) =>
              /\ \A d \in Slots : d # c => calls'[d] = calls[d]
              /\ calls[c].pc = "idle"
  BY Presses DEF TypeOK

(* Away from home no answer about the session moves the page; at home none  *)
(* leads away.                                                              *)
LEMMA SessionStays ==
  ASSUME AppInv, Admitted, NEW c \in Slots, TakeSession(c)
  PROVE  /\ Away => /\ UNCHANGED <<page, viewFetch, goingHome>>
                    /\ session' # NoData /\ ~ session'.required
                    /\ session'.role = role
         /\ ~ Away => page' = page \/ page' \in {Plain("home"), Plain("onboarding")}
<1>1. CASE c # sessionCall
  BY <1>1 DEF TakeSession, Admitted
<1>2. CASE c = sessionCall
  <2>0. calls[c].pc = "answered" /\ calls[c].op = "session" /\ c # Nobody
    BY AppAssumption DEF TakeSession, Returned, AppAssumption
  <2> DEFINE p == IF goingHome = "refetching" THEN Plain("home") ELSE page
  <2>1. session' = carried[c] /\ Show(Redirected(p, carried[c]))
    BY <1>2 DEF TakeSession
  <2>2. carried[c] # NoData /\ carried[c].role = role
    BY <1>2, <2>0, NoDataApart DEF AppInv, CallsCarry, SessionInv, UpToDate
  <2>3. CASE Away
    <3>1. goingHome = "no" /\ ~ carried[c].required
          /\ (page.name \in {"queue", "card"} => role \in AdminRoles)
      BY <1>2, <2>0, <2>3 DEF Admitted
    <3>2. p = page
      BY <3>1
    <3>3. Redirected(page, carried[c]) = page
      BY <2>2, <2>3, <3>1, Redirections DEF Away
    <3>4. UNCHANGED <<page, viewFetch>>
      BY <2>1, <3>2, <3>3 DEF Show
    <3>5. goingHome' = goingHome
      BY <1>2, <3>1 DEF TakeSession
    <3> QED
      BY <2>1, <2>2, <2>3, <3>1, <3>4, <3>5
  <2>4. CASE ~ Away
    <3>1. page' \in {p, Plain("home"), Plain("onboarding")}
      BY <2>1, Redirections DEF Show
    <3> QED
      BY <2>4, <3>1
  <2> QED
    BY <2>3, <2>4
<1> QED
  BY <1>1, <1>2

(* At home, so to speak: the pages whose names they are.                    *)
LEMMA HomeNames ==
  ~ Away => page.name \in {"home", "onboarding"}
  BY DEF Away

(* A page is left only when the calls of its buttons have been answered,    *)
(* and the one that is opened fetches its request.                          *)
LEMMA PageMoves ==
  ASSUME Patient, AppInv, PatientInv, [AppNext]_allVars, page' # page
  PROVE  /\ ~ InFlight(RequestOps)
         /\ Show(page')
         /\ UNCHANGED <<user, role, accepted, rows>>
<1>0. PressedHere /\ Admitted /\ OneCreation /\ page \in Pages
  BY DEF PatientInv, AppInv, AppTypeOK
<1>1. page.of = Nobody => ~ InFlight(RequestOps)
  BY <1>0 DEF PressedHere, InFlight, Under
<1>2. page.name \in {"home", "onboarding", "mine", "form"} => page.of = Nobody
  BY <1>0, PageNames
<1>3. ASSUME NEW p, Show(p) PROVE Show(page')
  BY <1>3 DEF Show
<1>4. CASE UserStep
  <2>1. PICK q \in Pages : Show(q) /\ MayLeaveFor(q) /\ UNCHANGED mockVars
    <3>1. \A p \in Pages : Open(p) =>
            /\ Redirected(p, session) \in Pages /\ Show(Redirected(p, session))
            /\ MayLeaveFor(Redirected(p, session)) /\ UNCHANGED mockVars
      BY RedirectedType DEF Open
    <3>2. CancelForm => /\ Plain("home") \in Pages /\ Show(Plain("home"))
                        /\ MayLeaveFor(Plain("home")) /\ UNCHANGED mockVars
      BY PageShapes DEF CancelForm
    <3>3. (\E p \in Pages : Open(p)) \/ CancelForm
      BY <1>4 DEF UserStep, Fill, Midnight, LoadSession, RefreshSession, ToggleRole,
         Submit, Accept, Press
    <3> QED
      BY <3>1, <3>2, <3>3
  <2>2. ~ InFlight(RequestOps)
    BY <2>1 DEF MayLeaveFor, RequestOps
  <2> QED
    BY <1>3, <2>1, <2>2 DEF mockVars
<1>5. CASE Delivery
  <2>1. ASSUME NEW c \in Slots, TakeSession(c)
        PROVE  page.of = Nobody /\ Show(page') /\ memoryUnchanged
    <3>1. ~ Away
      BY <1>0, <2>1, SessionStays
    <3>2. page.of = Nobody
      BY <1>2, <3>1, HomeNames
    <3>3. \E p : Show(p)
      BY <2>1 DEF TakeSession
    <3> QED
      BY <1>3, <2>1, <3>2, <3>3 DEF TakeSession
  <2>2. ASSUME NEW c \in Slots, TakeCreated(c)
        PROVE  page.of = Nobody /\ Show(page') /\ memoryUnchanged
    <3>1. Under(c, {"create"})
      BY <2>2 DEF TakeCreated, Returned, Under
    <3>2. page.of = Nobody
      BY <1>0, <1>2, <3>1 DEF OneCreation
    <3>3. \E p : Show(p)
      BY <2>2 DEF TakeCreated
    <3> QED
      BY <1>3, <2>2, <3>2, <3>3 DEF TakeCreated
  <2>3. ASSUME NEW r \in Requests, GoToCreated(r)
        PROVE  page.of = Nobody /\ Show(page') /\ memoryUnchanged
    <3>1. page.of = Nobody
      BY <1>0, <1>2, <2>3 DEF OneCreation, GoToCreated
    <3>2. \E p : Show(p)
      BY <2>3 DEF GoToCreated
    <3> QED
      BY <1>3, <2>3, <3>1, <3>2 DEF GoToCreated, mockVars, memoryUnchanged
  <2>4. \/ \E c \in Slots : TakeSession(c) \/ TakeCreated(c)
        \/ \E r \in Requests : GoToCreated(r)
    BY <1>5 DEF Delivery, Serve, TakeConsent, TakeMutation, ServeView, TakeView, TakeRefusal
  <2> QED
    BY <1>1, <2>1, <2>2, <2>3, <2>4 DEF memoryUnchanged
<1> QED
  BY <1>4, <1>5 DEF AppNext, allVars, appVars

(* A button's call is made where the user still is when it ends.            *)
LEMMA NextPressedHere ==
  ASSUME Patient, AppInv, PatientInv, [AppNext]_allVars
  PROVE  PressedHere'
<1> SUFFICES ASSUME NEW d \in Slots, calls'[d].pc # "idle", calls'[d].op \in RequestOps
             PROVE  page'.of # Nobody /\ page'.of = calls'[d].target
  BY DEF PressedHere, Under
<1>0. PressedHere
  BY DEF PatientInv
<1>1. \A op \in RequestOps : op \notin {"create", "session", "consent"}
  BY DEF RequestOps, SyncOps, AwaitOps
<1>2. CASE \E op \in RequestOps : Press(d, op)
  <2>1. calls'[d].target = page.of /\ page.of # Nobody
    BY <1>2, PressedCalls, InvTypes
  <2>2. page' = page
    BY <1>2 DEF Press
  <2> QED
    BY <2>1, <2>2
<1>3. CASE Under(d, RequestOps) /\ calls'[d].target = calls[d].target
  <2>1. page' = page
    BY <1>3, PageMoves DEF InFlight, Under
  <2> QED
    BY <1>0, <1>3, <2>1 DEF PressedHere
<1>4. ~ Submit(d) /\ ~ Accept(d)
  BY <1>1, PressedCalls, InvTypes
<1> QED
  BY <1>1, <1>2, <1>3, <1>4, CallMoves DEF Under

(* Who presses, goes home or creates can still do so.                       *)
LEMMA NextOneConsent ==
  ASSUME Patient, AppInv, PatientInv, [AppNext]_allVars
  PROVE  OneConsent'
<1>0. OneConsent
  BY DEF PatientInv
<1>1. \A op \in RequestOps : op # "consent"
  BY DEF RequestOps, SyncOps, AwaitOps
<1>2. ASSUME NEW d \in Slots, calls'[d].pc # "idle", calls'[d].op = "consent"
      PROVE  Accept(d) \/ Under(d, {"consent"})
  BY <1>1, <1>2, CallMoves, PressedCalls, InvTypes DEF Under
<1>3. CASE \E c \in Slots : Accept(c)
  <2>1. PICK c \in Slots : Accept(c)
    BY <1>3
  <2>2. goingHome = "no" /\ goingHome' = "posting"
    BY <2>1 DEF Accept
  <2>3. \A d \in Slots : ~ Under(d, {"consent"})
    BY <1>0, <2>2 DEF OneConsent
  <2>4. \A d \in Slots : Under(d, {"consent"})' => d = c
    BY <2>1, <2>3, PressedCalls, InvTypes DEF Under
  <2> QED
    BY <2>2, <2>4 DEF OneConsent
<1>4. CASE ~ \E c \in Slots : Accept(c)
  <2>1. \A d \in Slots : Under(d, {"consent"})' => Under(d, {"consent"})
    BY <1>2, <1>4 DEF Under
  <2>2. CASE goingHome # "posting"
    BY <1>0, <2>1, <2>2 DEF OneConsent
  <2>3. CASE goingHome = "posting"
    <3>1. CASE \E c \in Slots : TakeConsent(c)
      <4>1. PICK c \in Slots : TakeConsent(c)
        BY <3>1
      <4>2. Under(c, {"consent"})
        BY <4>1 DEF TakeConsent, Returned, Under
      <4>3. calls'[c].op = "session"
        BY <4>1, StartEffect, InvTypes DEF TakeConsent, TypeOK
      <4>4. \A d \in Slots : ~ Under(d, {"consent"})'
        BY <1>0, <2>1, <4>2, <4>3 DEF OneConsent, Under
      <4> QED
        BY <4>4 DEF OneConsent
    <3>2. CASE ~ \E c \in Slots : TakeConsent(c)
      <4>1. goingHome' = "posting"
        <5>1. CASE UserStep
          BY <1>4, <2>3, <5>1
             DEF UserStep, Open, Fill, Midnight, CancelForm, LoadSession,
                 RefreshSession, ToggleRole, Submit, Press
        <5>2. CASE Delivery
          BY <2>3, <3>2, <5>2
             DEF Delivery, Serve, TakeSession, TakeMutation, TakeCreated, ServeView,
                 TakeView, TakeRefusal, GoToCreated
        <5> QED
          BY <2>3, <5>1, <5>2 DEF AppNext, allVars, appVars
      <4> QED
        BY <1>0, <2>1, <4>1 DEF OneConsent
    <3> QED
      BY <3>1, <3>2
  <2> QED
    BY <2>2, <2>3
<1> QED
  BY <1>3, <1>4

(* The ways to another page: the user's own, an answer about the session    *)
(* that finds the user at home, and a creation's end.                       *)
LEMMA Leaves ==
  ASSUME AppInv, Admitted, [AppNext]_allVars, page' # page
  PROVE  \/ /\ MayLeaveFor(page') /\ session # NoData /\ UNCHANGED <<mockVars, session>>
            /\ UNCHANGED <<sessionCall, carried, goingHome, created>>
            /\ \/ page' = Plain("home") /\ page.name = "form"
               \/ \E p \in Pages : /\ p.of # Nobody => p.of \in Existing
                                   /\ page' = Redirected(p, session)
         \/ ~ Away /\ \E c \in Slots : TakeSession(c)
         \/ \E c \in Slots : TakeCreated(c)
         \/ \E r \in Requests : GoToCreated(r)
<1>1. CASE UserStep
  <2>1. (\E p \in Pages : (p.of # Nobody => p.of \in Existing) /\ Open(p)) \/ CancelForm
    BY <1>1 DEF UserStep, Fill, Midnight, LoadSession, RefreshSession, ToggleRole,
       Submit, Accept, Press
  <2>2. CancelForm => session # NoData
    BY DEF CancelForm, AppInv, ConsentInv
  <2> QED
    BY <2>1, <2>2 DEF Open, CancelForm, Show
<1>2. CASE Delivery
  <2>1. \/ \E c \in Slots : TakeSession(c) \/ TakeCreated(c)
        \/ \E r \in Requests : GoToCreated(r)
    BY <1>2 DEF Delivery, Serve, TakeConsent, TakeMutation, ServeView, TakeView, TakeRefusal
  <2> QED
    BY <2>1, SessionStays
<1> QED
  BY <1>1, <1>2 DEF AppNext, allVars, appVars

(* A form that waits for its creation goes on waiting.                      *)
LEMMA SubmittingStays ==
  ASSUME [AppNext]_allVars, page' = page, submitting, submitting \in BOOLEAN
  PROVE  submitting'
<1>1. \A p : Show(p) => submitting'
  BY DEF Show
<1>2. CASE UserStep
  BY <1>1, <1>2
     DEF UserStep, Open, Fill, Midnight, CancelForm, LoadSession, RefreshSession,
         ToggleRole, Submit, Accept, Press
<1>3. CASE Delivery
  BY <1>1, <1>3
     DEF Delivery, Serve, TakeSession, TakeConsent, TakeMutation, TakeCreated,
         ServeView, TakeView, TakeRefusal, GoToCreated
<1> QED
  BY <1>2, <1>3 DEF AppNext, allVars, appVars

(* One creation at a time, and its end finds the user at the form or at the *)
(* list.                                                                    *)
LEMMA NextOneCreation ==
  ASSUME Patient, AppInv, PatientInv, [AppNext]_allVars
  PROVE  OneCreation'
<1>0. OneCreation /\ Admitted /\ submitting \in BOOLEAN
  BY DEF PatientInv, AppInv, AppTypeOK
<1>1. \A op \in RequestOps : op # "create"
  BY DEF RequestOps, SyncOps, AwaitOps
<1>2. \A d \in Slots : Under(d, {"create"})' => Submit(d) \/ Under(d, {"create"})
  BY <1>1, CallMoves, PressedCalls, InvTypes DEF Under
<1>3. CASE \E c \in Slots : Submit(c)
  <2>1. PICK c \in Slots : Submit(c)
    BY <1>3
  <2>2. /\ page.name = "form" /\ ~ submitting /\ submitting'
        /\ UNCHANGED <<page, created>>
    BY <2>1 DEF Submit
  <2>3. created = {} /\ \A d \in Slots : ~ Under(d, {"create"})
    BY <1>0, <2>2 DEF OneCreation
  <2>4. \A d \in Slots : Under(d, {"create"})' => d = c
    BY <2>1, <2>3, PressedCalls, InvTypes DEF Under
  <2> QED
    BY <2>2, <2>3, <2>4 DEF OneCreation
<1>4. CASE \E c \in Slots : TakeCreated(c)
  <2>1. PICK c \in Slots : TakeCreated(c)
    BY <1>4
  <2>2. Under(c, {"create"}) /\ calls'[c].pc = "idle"
        /\ \A d \in Slots : d # c => calls'[d] = calls[d]
    BY <2>1, InvTypes DEF TakeCreated, Returned, Under, Become, Idle, TypeOK
  <2>3. \A d \in Slots : ~ Under(d, {"create"})'
    BY <1>0, <2>2 DEF OneCreation, Under
  <2>4. created = {}
    BY <1>0, <2>2 DEF OneCreation
  <2>5. \/ created' = {}
        \/ created' = {calls[c].target} /\ page.name = "mine" /\ page' = page
    BY <2>1, <2>4 DEF TakeCreated
  <2> QED
    BY <2>3, <2>5 DEF OneCreation
<1>5. CASE \E r \in Requests : GoToCreated(r)
  <2>1. PICK r \in Requests : GoToCreated(r)
    BY <1>5
  <2>2. r \in created /\ created' = created \ {r} /\ UNCHANGED calls
    BY <2>1 DEF GoToCreated, mockVars
  <2>3. created' = {}
    BY <1>0, <2>2 DEF OneCreation
  <2>4. \A d \in Slots : ~ Under(d, {"create"})'
    BY <1>0, <2>2 DEF OneCreation, Under
  <2> QED
    BY <2>3, <2>4 DEF OneCreation
<1>6. CASE /\ ~ \E c \in Slots : Submit(c) \/ TakeCreated(c)
           /\ ~ \E r \in Requests : GoToCreated(r)
  <2>1. created' = created
    <3>1. CASE UserStep
      BY <1>6, <3>1
         DEF UserStep, Open, Fill, Midnight, CancelForm, LoadSession, RefreshSession,
             ToggleRole, Accept, Press
    <3>2. CASE Delivery
      BY <1>6, <3>2
         DEF Delivery, Serve, TakeSession, TakeConsent, TakeMutation, ServeView,
             TakeView, TakeRefusal
    <3> QED
      BY <3>1, <3>2 DEF AppNext, allVars, appVars
  <2>2. \A d \in Slots : Under(d, {"create"})' => Under(d, {"create"})
    BY <1>2, <1>6
  <2>3. CASE page' = page
    BY <1>0, <2>1, <2>2, <2>3, SubmittingStays DEF OneCreation
  <2>4. CASE page' # page /\ ~ Away
    <3>1. created = {} /\ \A d \in Slots : ~ Under(d, {"create"})
      BY <1>0, <2>4, HomeNames DEF OneCreation
    <3> QED
      BY <2>1, <2>2, <3>1 DEF OneCreation
  <2>5. CASE page' # page /\ Away
    <3>1. MayLeaveFor(page')
      BY <1>0, <1>6, <2>5, Leaves
    <3>2. InFlight({"create"}) \/ created # {} => page'.name = "mine"
      BY <3>1 DEF MayLeaveFor
    <3>3. (\E d \in Slots : Under(d, {"create"})) => InFlight({"create"})
      BY DEF InFlight, Under
    <3> QED
      BY <1>0, <2>1, <2>2, <3>2, <3>3 DEF OneCreation
  <2> QED
    BY <2>3, <2>4, <2>5
<1> QED
  BY <1>3, <1>4, <1>5, <1>6

(* Whoever is away from home has been let in by the current session.        *)
AdmittedPage ==
  /\ Away => /\ session # NoData /\ ~ session.required /\ session.role = role
             /\ goingHome = "no"
  /\ page.name \in {"queue", "card"} => role \in AdminRoles

AnswerAdmits ==
  sessionCall # Nobody /\ calls[sessionCall].pc = "answered"
    /\ session # NoData /\ ~ session.required => ~ carried[sessionCall].required

LEMMA AdmittedParts == Admitted <=> AdmittedPage /\ AnswerAdmits
  BY DEF Admitted, AdmittedPage, AnswerAdmits

LEMMA NextAdmittedPage ==
  ASSUME Patient, AppInv, PatientInv, [AppNext]_allVars
  PROVE  AdmittedPage'
<1>0. Admitted /\ AdmittedPage /\ OneConsent /\ OneCreation
  BY AdmittedParts DEF PatientInv
<1>1. Plain("home").name = "home" /\ Plain("onboarding").name = "onboarding"
  BY DEF Plain
<1>2. ASSUME NEW t, page.name \in {"form", "mine"},
             Show(Redirected(Details(t), session)), UNCHANGED <<role, session, goingHome>>
      PROVE  AdmittedPage'
  <2>1. Away
    BY <1>2 DEF Away
  <2>2. Redirected(Details(t), session) = Details(t)
    BY <1>0, <2>1, Redirections DEF AdmittedPage, Details
  <2>3. page'.name = "details"
    BY <1>2, <2>2 DEF Show, Details
  <2> QED
    BY <1>0, <1>2, <2>1, <2>3 DEF AdmittedPage
<1>3. CASE page' # page
  <2>1. ASSUME MayLeaveFor(page'), session # NoData,
               UNCHANGED <<role, session, goingHome>>,
               \/ page' = Plain("home")
               \/ \E p \in Pages : page' = Redirected(p, session)
        PROVE  AdmittedPage'
    <3>1. goingHome = "no" /\ session.role = role
      BY <2>1 DEF MayLeaveFor
    <3>2. CASE page' = Plain("home")
      BY <1>1, <3>2 DEF AdmittedPage, Away
    <3>3. ASSUME NEW p \in Pages, page' = Redirected(p, session) PROVE AdmittedPage'
      BY <1>1, <2>1, <3>1, <3>3, Redirections DEF AdmittedPage, Away
    <3> QED
      BY <2>1, <3>2, <3>3
  <2>2. ASSUME NEW c \in Slots, TakeSession(c), ~ Away PROVE AdmittedPage'
    BY <1>0, <1>1, <1>3, <2>2, SessionStays DEF AdmittedPage, Away
  <2>3. ASSUME NEW c \in Slots, TakeCreated(c) PROVE AdmittedPage'
    <3>1. Under(c, {"create"})
      BY <2>3 DEF TakeCreated, Returned, Under
    <3>2. page.name \in {"form", "mine"}
      BY <1>0, <3>1 DEF OneCreation
    <3> QED
      BY <1>2, <1>3, <2>3, <3>2 DEF TakeCreated, memoryUnchanged
  <2>4. ASSUME NEW r \in Requests, GoToCreated(r) PROVE AdmittedPage'
    <3>1. page.name = "mine"
      BY <1>0, <2>4 DEF OneCreation, GoToCreated
    <3> QED
      BY <1>2, <2>4, <3>1 DEF GoToCreated, mockVars
  <2> QED
    BY <1>0, <1>3, <2>1, <2>2, <2>3, <2>4, Leaves DEF mockVars
<1>4. CASE page' = page /\ ~ Away
  BY <1>4, HomeNames DEF AdmittedPage, Away
<1>5. CASE page' = page /\ Away
  <2>1. page.name \notin {"home", "onboarding"} /\ session # NoData /\ goingHome = "no"
    BY <1>0, <1>5 DEF AdmittedPage, Away
  <2>2. \A c \in Slots : ~ TakeConsent(c)
    BY <1>0, <2>1 DEF TakeConsent, Returned, OneConsent, Under
  <2>3. CASE \E c \in Slots : TakeSession(c)
    <3>1. PICK c \in Slots : TakeSession(c)
      BY <2>3
    <3>2. role' = role
      BY <3>1 DEF TakeSession, memoryUnchanged
    <3> QED
      BY <1>0, <1>5, <3>1, <3>2, SessionStays DEF AdmittedPage
  <2>4. CASE ~ \E c \in Slots : TakeSession(c)
    <3>1. \A c \in Slots : Serve(c) => role' = role
      BY InvTypes, HandleEffect DEF Serve
    <3>2. UNCHANGED <<role, session, goingHome>>
      <4>1. CASE UserStep
        BY <2>1, <4>1
           DEF UserStep, Open, Fill, Midnight, CancelForm, LoadSession, RefreshSession,
               ToggleRole, Submit, Accept, Press, Send, memoryUnchanged, mockVars
      <4>2. CASE Delivery
        BY <2>2, <2>4, <3>1, <4>2
           DEF Delivery, Serve, TakeMutation, TakeCreated, ServeView, TakeView, TakeRefusal,
               GoToCreated, memoryUnchanged, mockVars
      <4> QED
        BY <4>1, <4>2 DEF AppNext, allVars, appVars, mockVars
    <3> QED
      BY <1>0, <1>5, <3>2 DEF AdmittedPage, Away
  <2> QED
    BY <2>3, <2>4
<1> QED
  BY <1>3, <1>4, <1>5

LEMMA NextAnswerAdmits ==
  ASSUME AppInv, PatientInv, [AppNext]_allVars
  PROVE  AnswerAdmits'
<1>0. /\ AnswerAdmits /\ Consented(session) /\ calls \in [Slots -> CallRecords]
      /\ carried \in [Slots -> Session \cup {NoData}]
      /\ sessionCall \in Slots \cup {Nobody} /\ Nobody \notin Slots
  BY AdmittedParts, AppAssumption
     DEF PatientInv, AppInv, AppTypeOK, TypeOK, ConsentInv, AppAssumption
<1>1. ASSUME NEW c \in Slots, StartSession(c) PROVE AnswerAdmits'
  <2>1. sessionCall' = c /\ calls'[c].pc = "sent"
    BY <1>0, <1>1, StartEffect, InvTypes
  <2> QED
    BY <2>1 DEF AnswerAdmits
<1>2. ASSUME UNCHANGED <<session, sessionCall>>,
             sessionCall # Nobody => /\ calls'[sessionCall] = calls[sessionCall]
                                     /\ carried'[sessionCall] = carried[sessionCall]
      PROVE  AnswerAdmits'
  BY <1>0, <1>2 DEF AnswerAdmits
<1>3. ASSUME NEW c \in Slots, Serve(c) PROVE AnswerAdmits'
  <2>1. /\ \A d \in Slots : d # c => calls'[d] = calls[d]
        /\ calls'[c].pc = "answered" /\ calls[c].op = "session" => calls[c].pc = "body"
        /\ accepted => accepted'
    BY <1>3, HandleEffect, InvTypes DEF Serve
  <2>2. /\ UNCHANGED <<session, sessionCall>>
        /\ carried' = IF calls[c].op = "session" /\ calls[c].pc = "body"
                      THEN [carried EXCEPT ![c] = SessionNow] ELSE carried
    BY <1>3 DEF Serve
  <2>3. CASE sessionCall # c
    BY <1>0, <1>2, <2>1, <2>2, <2>3
  <2>4. CASE sessionCall = c
    <3>1. calls[c].op = "session"
      BY <1>0, <2>4 DEF AppInv, WaitsForSession
    <3>2. calls'[c].pc = "answered" => carried'[c].required = ~ accepted
      BY <1>0, <2>1, <2>2, <3>1 DEF SessionNow
    <3> QED
      BY <1>0, <2>2, <2>4, <3>2 DEF AnswerAdmits, Consented
  <2> QED
    BY <2>3, <2>4
<1>4. ASSUME NEW c \in Slots, TakeSession(c) PROVE AnswerAdmits'
  <2>1. CASE c # sessionCall
    BY <1>0, <1>2, <1>4, <2>1 DEF TakeSession, Become
  <2>2. CASE c = sessionCall /\ goingHome = "invalidated"
    BY <1>1, <1>4, <2>2 DEF TakeSession
  <2>3. CASE c = sessionCall /\ goingHome # "invalidated"
    BY <1>4, <2>3 DEF TakeSession, AnswerAdmits
  <2> QED
    BY <2>1, <2>2, <2>3
<1>5. ASSUME NEW c \in Slots, UNCHANGED <<session, sessionCall, carried>>,
             calls[c].pc = "idle" \/ calls[c].op # "session",
             \A d \in Slots : d # c => calls'[d] = calls[d]
      PROVE  AnswerAdmits'
  BY <1>0, <1>2, <1>5, NotAwaited
<1>6. ASSUME NEW c \in Slots,
             \/ Submit(c) \/ Accept(c) \/ \E op \in RequestOps : Press(c, op)
             \/ TakeMutation(c) \/ TakeCreated(c)
      PROVE  AnswerAdmits'
  <2>1. CASE Submit(c) \/ Accept(c) \/ \E op \in RequestOps : Press(c, op)
    <3>1. UNCHANGED <<session, sessionCall, carried>>
      BY <2>1 DEF Submit, Accept, Press
    <3> QED
      BY <1>5, <2>1, <3>1, PressedCalls, InvTypes
  <2>2. CASE TakeMutation(c) \/ TakeCreated(c)
    <3>1. /\ calls[c].op # "session" /\ Become(c, Idle)
          /\ UNCHANGED <<session, sessionCall, carried>>
      BY <2>2 DEF TakeMutation, TakeCreated, Returned, SyncOps, AwaitOps
    <3>2. \A d \in Slots : d # c => calls'[d] = calls[d]
      BY <1>0, <3>1 DEF Become
    <3> QED
      BY <1>5, <3>1, <3>2
  <2> QED
    BY <1>6, <2>1, <2>2
<1>7. CASE UserStep
  <2>1. \/ UNCHANGED <<calls, session, sessionCall, carried>>
        \/ \E c \in Slots : StartSession(c)
        \/ \E c \in Slots :
             Submit(c) \/ Accept(c) \/ \E op \in RequestOps : Press(c, op)
    BY <1>7
       DEF UserStep, Open, Fill, Midnight, CancelForm, LoadSession, RefreshSession,
           ToggleRole, RequestOps, mockVars
  <2> QED
    BY <1>1, <1>2, <1>6, <2>1
<1>8. CASE Delivery
  <2>1. \/ UNCHANGED <<calls, session, sessionCall, carried>>
        \/ \E c \in Slots : StartSession(c)
        \/ \E c \in Slots :
             Serve(c) \/ TakeSession(c) \/ TakeMutation(c) \/ TakeCreated(c)
    BY <1>8 DEF Delivery, TakeConsent, ServeView, TakeView, TakeRefusal, GoToCreated, mockVars
  <2> QED
    BY <1>1, <1>2, <1>3, <1>4, <1>6, <2>1
<1> QED
  BY <1>2, <1>7, <1>8 DEF AppNext, allVars, appVars, mockVars

LEMMA NextAdmitted ==
  ASSUME Patient, AppInv, PatientInv, [AppNext]_allVars
  PROVE  Admitted'
<1>1. AdmittedPage' /\ AnswerAdmits'
  BY NextAdmittedPage, NextAnswerAdmits
<1>2. Admitted' <=> AdmittedPage' /\ AnswerAdmits'
  BY DEF Admitted, AdmittedPage, AnswerAdmits
<1> QED
  BY <1>1, <1>2

(* What has come to be stays, so nothing the page has heard of is lost.     *)
LEMMA ExistsOn ==
  ASSUME AppInv, [AppNext]_allVars
  PROVE  \A r \in Requests : Exists(r) => Exists(r)'
<1>1. CASE \E c \in Slots : Serve(c)
  BY <1>1, HandleRows DEF Serve, AppInv
<1>2. CASE ~ \E c \in Slots : Serve(c)
  <2>1. rows' = rows
    <3>1. CASE UserStep
      BY <3>1
         DEF UserStep, Open, Fill, Midnight, CancelForm, LoadSession, RefreshSession,
             ToggleRole, Submit, Accept, Press, Send, memoryUnchanged, mockVars
    <3>2. CASE Delivery
      BY <1>2, <3>2
         DEF Delivery, TakeSession, TakeConsent, TakeMutation, TakeCreated, ServeView,
             TakeView, TakeRefusal, GoToCreated, memoryUnchanged, mockVars
    <3> QED
      BY <3>1, <3>2 DEF AppNext, allVars, mockVars
  <2> QED
    BY <2>1 DEF Exists
<1> QED
  BY <1>1, <1>2

LEMMA NextKnown ==
  ASSUME Patient, AppInv, PatientInv, [AppNext]_allVars
  PROVE  Known'
<1>0. /\ Known /\ Admitted
      /\ page \in Pages /\ created \subseteq Requests
      /\ viewFetch \in [Requests -> Fetches]
      /\ \A p \in Pages : p.of \in Requests \cup {Nobody}
  BY PageShapes DEF PatientInv, AppInv, AppTypeOK
<1>1. \A r \in Requests : Exists(r) => rows'[r] # Absent
  BY ExistsOn DEF Exists
<1>2. Plain("home").of = Nobody /\ Plain("onboarding").of = Nobody
  BY DEF Plain
<1>3. \A t : Details(t).of = t
  BY DEF Details
<1>4. \A c \in Slots : calls[c].pc = "answered" /\ calls[c].op = "create" =>
        calls[c].target \in Requests /\ Exists(calls[c].target)
  BY <1>0 DEF Known, AppInv, CallsCarry
<1>5. page'.of # Nobody => page'.of \in Requests /\ rows'[page'.of] # Absent
  <2>1. CASE page' = page
    BY <1>0, <1>1, <2>1 DEF Known
  <2>2. CASE page' # page
    <3>1. \/ page' = Plain("home")
          \/ \E p \in Pages : /\ p.of # Nobody => p.of \in Existing
                              /\ page' = Redirected(p, session)
          \/ ~ Away /\ \E c \in Slots : TakeSession(c)
          \/ \E c \in Slots : TakeCreated(c)
          \/ \E t \in Requests : GoToCreated(t)
      BY <1>0, <2>2, Leaves
    <3>2. ASSUME NEW p \in Pages, p.of # Nobody => p.of \in Existing,
                 page' = Redirected(p, session)
          PROVE  page'.of # Nobody => page'.of \in Requests /\ rows'[page'.of] # Absent
      <4>1. page' \in {p, Plain("home"), Plain("onboarding")}
        BY <3>2, Redirections
      <4> QED
        BY <1>1, <1>2, <3>2, <4>1 DEF Existing
    <3>3. ASSUME ~ Away, NEW c \in Slots, TakeSession(c)
          PROVE  page'.of = Nobody
      BY <1>0, <1>2, <2>2, <3>3, SessionStays
    <3>4. ASSUME NEW t \in Requests, Exists(t), Show(Redirected(Details(t), session))
          PROVE  page'.of # Nobody => page'.of \in Requests /\ rows'[page'.of] # Absent
      <4>1. page' \in {Details(t), Plain("home"), Plain("onboarding")}
        BY <3>4, Redirections DEF Show
      <4> QED
        BY <1>1, <1>2, <1>3, <3>4, <4>1
    <3>5. ASSUME NEW c \in Slots, TakeCreated(c)
          PROVE  page'.of # Nobody => page'.of \in Requests /\ rows'[page'.of] # Absent
      <4>1. Show(Redirected(Details(calls[c].target), session))
        BY <2>2, <3>5 DEF TakeCreated
      <4>2. calls[c].target \in Requests /\ Exists(calls[c].target)
        BY <1>4, <3>5 DEF TakeCreated, Returned
      <4> QED
        BY <3>4, <4>1, <4>2
    <3>6. ASSUME NEW t \in Requests, GoToCreated(t)
          PROVE  page'.of # Nobody => page'.of \in Requests /\ rows'[page'.of] # Absent
      <4>1. Show(Redirected(Details(t), session)) /\ t \in created
        BY <3>6 DEF GoToCreated
      <4> QED
        BY <1>0, <3>4, <4>1 DEF Known
    <3> QED
      BY <1>2, <3>1, <3>2, <3>3, <3>5, <3>6
  <2> QED
    BY <2>1, <2>2
<1>6. \A r \in created' : rows'[r] # Absent
  <2>1. \/ created' \subseteq created
        \/ \E c \in Slots : TakeCreated(c) /\ created' = created \cup {calls[c].target}
    <3>1. CASE UserStep
      BY <3>1
         DEF UserStep, Open, Fill, Midnight, CancelForm, LoadSession, RefreshSession,
             ToggleRole, Submit, Accept, Press
    <3>2. CASE Delivery
      BY <3>2
         DEF Delivery, Serve, TakeSession, TakeConsent, TakeMutation, TakeCreated,
             ServeView, TakeView, TakeRefusal, GoToCreated
    <3> QED
      BY <3>1, <3>2 DEF AppNext, allVars, appVars
  <2>2. ASSUME NEW c \in Slots, TakeCreated(c)
        PROVE  rows'[calls[c].target] # Absent
    <3>1. calls[c].target \in Requests /\ Exists(calls[c].target)
      BY <1>4, <2>2 DEF TakeCreated, Returned
    <3> QED
      BY <1>1, <3>1
  <2>3. \A r \in created : rows'[r] # Absent
    BY <1>0, <1>1 DEF Known
  <2> QED
    BY <2>1, <2>2, <2>3
<1>7. ASSUME NEW d \in Slots, calls'[d].pc = "answered", calls'[d].op = "create"
      PROVE  rows'[calls'[d].target] # Absent
  <2>1. CASE \E c \in Slots : Serve(c)
    <3>1. PICK c \in Slots : Serve(c)
      BY <2>1
    <3>2. /\ \A e \in Slots : e # c => calls'[e] = calls[e]
          /\ calls'[c].op = calls[c].op
      BY <3>1, HandleEffect, InvTypes DEF Serve
    <3>3. CASE d = c
      BY <1>7, <3>1, <3>2, <3>3, HandleRows DEF Serve, AppInv, Exists
    <3>4. CASE d # c
      BY <1>1, <1>4, <1>7, <3>2, <3>4
    <3> QED
      BY <3>3, <3>4
  <2>2. CASE ~ \E c \in Slots : Serve(c)
    <3>1. calls'[d] = calls[d]
      <4>1. \/ UNCHANGED calls
            \/ \E c \in Slots : StartSession(c) \/ Become(c, Idle)
            \/ \E c \in Slots :
                 Submit(c) \/ Accept(c) \/ \E op \in RequestOps : Press(c, op)
        <5>1. CASE UserStep
          BY <5>1
             DEF UserStep, Open, Fill, Midnight, CancelForm, LoadSession,
                 RefreshSession, ToggleRole, RequestOps, mockVars
        <5>2. CASE Delivery
          BY <2>2, <5>2
             DEF Delivery, TakeSession, TakeConsent, TakeMutation, TakeCreated,
                 ServeView, TakeView, TakeRefusal, GoToCreated, mockVars
        <5> QED
          BY <5>1, <5>2 DEF AppNext, allVars, mockVars
      <4>2. ASSUME NEW c \in Slots, StartSession(c) \/ Become(c, Idle)
            PROVE  calls'[d] = calls[d]
        BY <1>7, <4>2, InvTypes DEF StartSession, Become, Idle, TypeOK
      <4>3. ASSUME NEW c \in Slots,
                   Submit(c) \/ Accept(c) \/ \E op \in RequestOps : Press(c, op)
            PROVE  calls'[d] = calls[d]
        BY <1>7, <4>3, InvTypes, PressedCalls
      <4> QED
        BY <4>1, <4>2, <4>3
    <3> QED
      BY <1>1, <1>4, <1>7, <3>1
  <2> QED
    BY <2>1, <2>2
<1>8. ASSUME NEW r \in Requests, viewFetch'[r].state = "served"
      PROVE  rows'[r] # Absent
  <2>0. \A t : Fetching(t)[r] \in {viewFetch[r], Sent(FALSE)}
    BY <1>0 DEF Fetching
  <2>1. \/ viewFetch'[r] \in {viewFetch[r], Sent(FALSE), Sent(TRUE), NoFetch}
        \/ viewFetch'[r].state = "refused"
        \/ ServeView(r) /\ CanAccess(r)
    <3>1. \A p : Show(p) /\ p.of \in Requests \cup {Nobody} =>
                   viewFetch'[r] \in {viewFetch[r], Sent(FALSE)}
      BY <2>0 DEF Show
    <3>2. CASE page' # page
      <4>1. Show(page') /\ page'.of \in Requests \cup {Nobody}
        BY <1>5, <3>2, PageMoves
      <4> QED
        BY <3>1, <4>1
    <3>3. CASE page' = page
      <4>1. \A p : Show(p) => p.of \in Requests \cup {Nobody}
        BY <1>0, <3>3 DEF Show
      <4>2. CASE UserStep
        <5>1. (\E p : Show(p)) \/ UNCHANGED viewFetch
          BY <4>2
             DEF UserStep, Open, Fill, Midnight, CancelForm, LoadSession,
                 RefreshSession, ToggleRole, Submit, Accept, Press
        <5> QED
          BY <3>1, <4>1, <5>1
      <4>3. CASE Delivery
        <5>1. ASSUME NEW t \in Requests,
                     ServeView(t) \/ TakeView(t) \/ TakeRefusal(t)
              PROVE  \/ viewFetch'[r] \in {viewFetch[r], Sent(TRUE), NoFetch}
                     \/ viewFetch'[r].state = "refused"
                     \/ ServeView(r) /\ CanAccess(r)
          <6>1. CASE ServeView(t)
            <7>1. \/ viewFetch'[r] = viewFetch[r]
                  \/ viewFetch'[r] = [state |-> "refused", again |-> viewFetch[r].again]
                  \/ t = r /\ CanAccess(r)
              BY <1>0, <6>1 DEF ServeView
            <7>2. \A x : [state |-> "refused", again |-> x].state = "refused"
              OBVIOUS
            <7>3. CASE t = r /\ CanAccess(r)
              BY <6>1, <7>3
            <7> QED
              BY <7>1, <7>2, <7>3
          <6>2. CASE TakeView(t)
            BY <1>0, <6>2 DEF TakeView
          <6>3. CASE TakeRefusal(t)
            BY <1>0, <6>3 DEF TakeRefusal
          <6> QED
            BY <5>1, <6>1, <6>2, <6>3
        <5>2. ASSUME NEW c \in Slots, TakeMutation(c)
              PROVE  viewFetch'[r] \in {viewFetch[r], Sent(FALSE)}
          BY <1>0, <2>0, <5>2 DEF TakeMutation
        <5>3. \/ (\E p : Show(p)) \/ UNCHANGED viewFetch
              \/ \E t \in Requests : ServeView(t) \/ TakeView(t) \/ TakeRefusal(t)
              \/ \E c \in Slots : TakeMutation(c)
          BY <4>3
             DEF Delivery, Serve, TakeSession, TakeConsent, TakeCreated, GoToCreated
        <5> QED
          BY <3>1, <4>1, <5>1, <5>2, <5>3
      <4> QED
        BY <4>2, <4>3 DEF AppNext, allVars, appVars
    <3> QED
      BY <3>2, <3>3
  <2> QED
    BY <1>0, <1>1, <1>8, <2>1 DEF Known, CanAccess, NoFetch, Sent
<1> QED
  BY <1>5, <1>6, <1>7, <1>8 DEF Known, Exists

(* The answer of a request's button stays until its mutation takes it.      *)
LEMMA AnswersStay ==
  ASSUME AppInv, [AppNext]_allVars, NEW d \in Slots,
         calls[d].pc = "answered", calls[d].op \in RequestOps, ~ TakeMutation(d)
  PROVE  calls'[d] = calls[d]
<1>1. \A op \in RequestOps : op \notin {"session", "consent", "create"}
  BY DEF RequestOps, SyncOps, AwaitOps
<1>2. ASSUME NEW c \in Slots, c # d, NEW x, Become(c, x) PROVE calls'[d] = calls[d]
  BY <1>2, InvTypes DEF Become, TypeOK
<1>3. ASSUME NEW c \in Slots, c # d, StartSession(c) PROVE calls'[d] = calls[d]
  BY <1>2, <1>3 DEF StartSession
<1>4. ASSUME NEW c \in Slots, Serve(c) PROVE calls'[d] = calls[d]
  BY <1>4, HandleEffect, InvTypes DEF Serve
<1>5. ASSUME NEW c \in Slots,
             Submit(c) \/ Accept(c) \/ \E op \in RequestOps : Press(c, op)
      PROVE  calls'[d] = calls[d]
  BY <1>5, PressedCalls, InvTypes
<1>6. CASE UserStep
  <2>1. \/ UNCHANGED calls
        \/ \E c \in Slots : calls[c] = Idle /\ StartSession(c)
        \/ \E c \in Slots :
             Submit(c) \/ Accept(c) \/ \E op \in RequestOps : Press(c, op)
    BY <1>6
       DEF UserStep, Open, Fill, Midnight, CancelForm, LoadSession, RefreshSession,
           ToggleRole, RequestOps, mockVars
  <2>2. Idle.pc # "answered"
    BY DEF Idle
  <2> QED
    BY <1>3, <1>5, <2>1, <2>2
<1>7. CASE Delivery
  <2>1. \/ UNCHANGED calls
        \/ \E c \in Slots : Serve(c)
        \/ \E c \in Slots : c # d /\ (StartSession(c) \/ Become(c, Idle))
    BY <1>1, <1>7
       DEF Delivery, TakeSession, TakeConsent, TakeMutation, TakeCreated, Returned,
           ServeView, TakeView, TakeRefusal, GoToCreated, mockVars
  <2> QED
    BY <1>2, <1>3, <1>4, <2>1
<1> QED
  BY <1>6, <1>7 DEF AppNext, allVars, mockVars

(* Nobody but a handler changes the rows.                                   *)
LEMMA MemoryQuiet ==
  ASSUME [AppNext]_allVars, ~ \E c \in Slots : Serve(c)
  PROVE  rows' = rows
<1>1. CASE UserStep
  BY <1>1
     DEF UserStep, Open, Fill, Midnight, CancelForm, LoadSession, RefreshSession,
         ToggleRole, Submit, Accept, Press, Send, memoryUnchanged, mockVars
<1>2. CASE Delivery
  BY <1>2
     DEF Delivery, TakeSession, TakeConsent, TakeMutation, TakeCreated, ServeView,
         TakeView, TakeRefusal, GoToCreated, memoryUnchanged, mockVars
<1> QED
  BY <1>1, <1>2 DEF AppNext, allVars, mockVars

(* A handler that changes the row leaves the answer that has it fetched     *)
(* again.                                                                   *)
LEMMA FreshServed ==
  ASSUME AppInv, PatientInv, NEW c \in Slots, Serve(c),
         NEW r \in Requests, ~ Changed(r)'
  PROVE  FreshView(r)'
<1>0. /\ FreshView(r) /\ Known
      /\ UNCHANGED <<page, view, viewFetch, refused>> /\ Handle(c)
  BY DEF PatientInv, FreshViews, Serve
<1>1. /\ \A d \in Slots : d # c => calls'[d] = calls[d]
      /\ calls[c].pc # "answered"
  BY <1>0, HandleEffect, InvTypes
<1>2. ~ Changed(r)
  BY <1>1 DEF Changed
<1>3. Exists(r) => rows'[r] = rows[r]
  BY <1>0, HandleRows DEF Changed, AppInv
<1>4. page.of = r => Exists(r)
  BY <1>0, AppAssumption DEF Known, AppAssumption
<1> QED
  BY <1>0, <1>2, <1>3, <1>4 DEF FreshView, Known

(* A fetch or its answer.                                                   *)
LEMMA FreshFetched ==
  ASSUME AppInv, NEW t \in Requests, ServeView(t) \/ TakeView(t) \/ TakeRefusal(t),
         NEW r \in Requests, FreshView(r)
  PROVE  FreshView(r)'
<1>0. /\ viewFetch \in [Requests -> Fetches] /\ view \in [Requests -> Row \cup {NoData}]
      /\ UNCHANGED <<page, rows, calls>>
  BY DEF AppInv, AppTypeOK, ServeView, TakeView, TakeRefusal, mockVars
<1>1. Changed(r)' = Changed(r)
  BY <1>0 DEF Changed
<1>2. CASE t # r
  <2>1. /\ viewFetch'[r] = viewFetch[r] /\ view'[r] = view[r]
        /\ r \in refused' <=> r \in refused
    BY <1>0, <1>2 DEF ServeView, TakeView, TakeRefusal
  <2> QED
    BY <1>0, <1>1, <2>1 DEF FreshView
<1>3. CASE t = r /\ ServeView(r)
  <2>1. \/ viewFetch'[r] = [state |-> "served", row |-> rows[r]]
        \/ viewFetch'[r] = [state |-> "refused", again |-> viewFetch[r].again]
    BY <1>0, <1>3 DEF ServeView
  <2>2. /\ viewFetch'[r] # NoFetch
        /\ viewFetch'[r].state = "served" => viewFetch'[r].row = rows[r]
    BY <2>1 DEF NoFetch
  <2> QED
    BY <1>0, <2>2 DEF FreshView
<1>4. CASE t = r /\ TakeView(r)
  <2>1. /\ viewFetch[r].state = "served" /\ view'[r] = viewFetch[r].row
        /\ viewFetch'[r] = NoFetch /\ NoFetch.state # "served"
    BY <1>0, <1>4 DEF TakeView, NoFetch
  <2> QED
    BY <1>0, <1>1, <2>1 DEF FreshView
<1>5. CASE t = r /\ TakeRefusal(r)
  <2>1. \/ viewFetch'[r] = Sent(TRUE)
        \/ viewFetch'[r] = NoFetch /\ r \in refused'
    BY <1>0, <1>5 DEF TakeRefusal
  <2>2. Sent(TRUE) # NoFetch /\ Sent(TRUE).state # "served" /\ NoFetch.state # "served"
    BY DEF Sent, NoFetch
  <2> QED
    BY <2>1, <2>2 DEF FreshView
<1> QED
  BY <1>2, <1>3, <1>4, <1>5

(* Every page that opens fetches its request, every change has the page     *)
(* that made it fetch its request again, and nothing else lets an old row   *)
(* show.                                                                    *)
LEMMA NextFreshViews ==
  ASSUME Patient, AppInv, PatientInv, [AppNext]_allVars
  PROVE  FreshViews'
<1> SUFFICES ASSUME NEW r \in Requests, ~ Changed(r)'
             PROVE  FreshView(r)'
  BY DEF FreshViews, FreshView
<1>0. /\ FreshView(r) /\ PressedHere
      /\ viewFetch \in [Requests -> Fetches] /\ r # Nobody
  BY AppAssumption DEF PatientInv, FreshViews, AppInv, AppTypeOK, AppAssumption
<1> DEFINE sent == Sent(FALSE)
<1>1. sent # NoFetch /\ sent.state # "served"
  BY DEF NoFetch, Sent
<1>2. \A t : Fetching(t)[r] \in {viewFetch[r], sent}
  BY <1>0 DEF Fetching
<1>3. Fetching(r)[r] = sent
  BY <1>0 DEF Fetching
<1> HIDE DEF sent
<1>4. CASE \E c \in Slots : Serve(c)
  BY <1>4, FreshServed
<1>5. CASE \E t \in Requests : ServeView(t) \/ TakeView(t) \/ TakeRefusal(t)
  BY <1>0, <1>5, FreshFetched
<1>6. CASE \E c \in Slots : TakeMutation(c) /\ calls[c].ok /\ calls[c].target = r
  <2>1. PICK c \in Slots : TakeMutation(c) /\ calls[c].ok /\ calls[c].target = r
    BY <1>6
  <2>2. page.of = r
    BY <1>0, <2>1 DEF PressedHere, Under, TakeMutation, Returned, RequestOps
  <2>3. viewFetch'[r] = sent
    BY <1>3, <2>1, <2>2 DEF TakeMutation
  <2> QED
    BY <1>1, <2>3 DEF FreshView
<1>7. CASE /\ ~ \E c \in Slots : Serve(c)
           /\ ~ \E t \in Requests : ServeView(t) \/ TakeView(t) \/ TakeRefusal(t)
           /\ ~ \E c \in Slots : TakeMutation(c) /\ calls[c].ok /\ calls[c].target = r
  <2>1. ~ Changed(r)
    BY <1>7, AnswersStay DEF Changed
  <2>2. rows' = rows
    BY <1>7, MemoryQuiet
  <2>3. UNCHANGED <<view, refused>>
    <3>1. CASE UserStep
      BY <3>1
         DEF UserStep, Open, Fill, Midnight, CancelForm, LoadSession, RefreshSession,
             ToggleRole, Submit, Accept, Press
    <3>2. CASE Delivery
      BY <1>7, <3>2
         DEF Delivery, TakeSession, TakeConsent, TakeMutation, TakeCreated, GoToCreated
    <3> QED
      BY <3>1, <3>2 DEF AppNext, allVars, appVars
  <2>4. CASE page' # page
    <3>1. Show(page')
      BY <2>4, PageMoves
    <3>2. viewFetch'[r] \in {viewFetch[r], sent}
      BY <1>2, <3>1 DEF Show
    <3>3. page'.of = r => viewFetch'[r] # NoFetch
      BY <1>0, <1>1, <1>3, <2>4, <3>1 DEF Show
    <3> QED
      BY <1>0, <1>1, <2>1, <2>2, <3>2, <3>3 DEF FreshView
  <2>5. CASE page' = page
    <3>1. viewFetch'[r] \in {viewFetch[r], sent}
      <4>1. \A p : Show(p) => viewFetch' = viewFetch
        BY <2>5 DEF Show
      <4>2. \A c \in Slots : TakeMutation(c) => viewFetch'[r] \in {viewFetch[r], sent}
        BY <1>2 DEF TakeMutation
      <4>3. CASE UserStep
        BY <4>1, <4>3
           DEF UserStep, Open, Fill, Midnight, CancelForm, LoadSession, RefreshSession,
               ToggleRole, Submit, Accept, Press
      <4>4. CASE Delivery
        BY <1>7, <4>1, <4>2, <4>4
           DEF Delivery, TakeSession, TakeConsent, TakeCreated, GoToCreated
      <4> QED
        BY <4>3, <4>4 DEF AppNext, allVars, appVars
    <3> QED
      BY <1>0, <1>1, <2>1, <2>2, <2>3, <2>5, <3>1 DEF FreshView
  <2> QED
    BY <2>4, <2>5
<1> QED
  BY <1>4, <1>5, <1>6, <1>7

LEMMA AppInitPatientInv == AppInit => PatientInv
<1> SUFFICES ASSUME AppInit PROVE PatientInv
  OBVIOUS
<1>1. page.name = "home" /\ page.of = Nobody
  BY DEF AppInit, Plain
<1>2. \A c \in Slots : calls[c].pc = "idle"
  BY DEF AppInit, Init, Idle
<1>3. Admitted /\ OneConsent /\ OneCreation /\ PressedHere
  BY <1>1, <1>2
     DEF AppInit, Admitted, Away, OneConsent, OneCreation, PressedHere, Under
<1>4. Known /\ FreshViews
  BY <1>1, <1>2, AppAssumption
     DEF AppInit, Known, FreshViews, FreshView, NoFetch, AppAssumption
<1> QED
  BY <1>3, <1>4 DEF PatientInv

LEMMA AppNextPatientInv ==
  Patient /\ AppInv /\ PatientInv /\ [AppNext]_allVars => PatientInv'
  BY NextAdmitted, NextOneConsent, NextOneCreation, NextKnown,
     NextPressedHere, NextFreshViews DEF PatientInv

(* Whatever a page's fetches and its buttons' calls do to each other, once  *)
(* they have all ended it shows the request as the mock has it, or the last *)
(* fetch of it was refused (useRequestMutations, RequestDetailsPage,        *)
(* AdminCardPage): for a user who waits for the buttons, whoever the        *)
(* session calls name.                                                      *)
THEOREM PatientShowsTruth == Patient => (AppSpec => []ShowsTruth)
<1> SUFFICES ASSUME Patient PROVE AppSpec => []ShowsTruth
  OBVIOUS
<1>1. AppInv /\ PatientInv /\ [AppNext]_allVars => PatientInv'
  BY AppNextPatientInv
<1>2. AppInv /\ PatientInv => ShowsTruth
  <2> SUFFICES ASSUME AppInv, PatientInv, NEW r, r = page.of, r # Nobody,
                      view[r] # NoData, viewFetch[r] = NoFetch, r \notin refused,
                      ~ InFlight(SyncOps \cup AwaitOps)
               PROVE  view[r] = rows[r]
    BY DEF ShowsTruth
  <2>1. r \in Requests
    BY PageShapes DEF AppInv, AppTypeOK
  <2>2. ~ Changed(r)
    BY DEF Changed, InFlight, RequestOps
  <2> QED
    BY <2>1, <2>2 DEF PatientInv, FreshViews, FreshView
<1> QED
  BY <1>1, <1>2, AppInitPatientInv, AppSpecInv, PTL DEF AppSpec
=============================================================================
