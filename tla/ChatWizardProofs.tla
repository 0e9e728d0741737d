------------------------- MODULE ChatWizardProofs -------------------------
(***************************************************************************)
(* Proofs about ChatWizard: the types, for any number of handlers; and,     *)
(* for one handler at a time (long polling), that the bot_sessions row and  *)
(* the _pending_text dictionary stay in step.                               *)
(***************************************************************************)
EXTENDS ChatWizard, TLAPS

-----------------------------------------------------------------------------
(* Types.                                                                   *)

(* What is known of a handler from its program counter.                     *)
LEMMA Shapes ==
  ASSUME TypeOK, NEW h \in Handlers
  PROVE  /\ handler[h].pc \in {"idle", "begin", "save", "write", "delete",
                               "usecase", "finish"}
         /\ handler[h].pc = "idle" => handler[h] = Idle
         /\ handler[h].pc # "idle" =>
              /\ handler[h].user \in Users
              /\ handler[h].event \in Events
              /\ handler[h].request \in Requests \cup {Nothing}
         /\ handler[h].pc \in {"save", "write"} =>
              /\ handler[h].entity \in Session
              /\ handler[h].base \in Session \cup {Nothing}
<1> QED
  BY DEF TypeOK, Idle

LEMMA MarkTyped ==
  ASSUME NEW s \in Session, NEW e, NEW r \in Requests \cup {Nothing},
         CardWait[e] \in Waits
  PROVE  Mark(s, e, r) \in Session
<1> DEFINE t == [s EXCEPT !.draft.request = r]
<1>1. t \in Session
  BY DEF Session, Draft
<1>2. Mark(s, e, r) = [t EXCEPT !.draft.waiting = CardWait[e]]
  BY DEF Mark
<1> HIDE DEF t
<1> QED
  BY <1>1, <1>2 DEF Session, Draft

(* What a handler saves is a session.                                       *)
LEMMA SavedTyped ==
  ASSUME NEW e \in Savers, NEW r \in Requests \cup {Nothing},
         NEW row \in Session \cup {Nothing},
         row = Nothing => e \notin NeedRow \cup {"back_time"}
  PROVE  Saved(e, r, row) \in Session
<1>1. \A step \in Steps : NewSession(step) \in Session
  BY DEF NewSession, EmptyDraft, Session, Draft
<1>2. \A s \in Session, k \in DraftKeys, st \in Steps, w \in Waits \cup {Nothing} :
        Fill(s, k, st, w) \in Session
  BY DEF Fill, Session, Draft
<1>3. \A s \in Session : s.draft.waiting \in Waits \cup {Nothing}
  BY DEF Session, Draft
<1>4. CASE e \in {"new", "back_zone", "edit_zone"}
  BY <1>1, <1>4 DEF Saved, Steps, WizardSteps
<1>5. CASE e = "zone"
  <2> DEFINE s == IF row = Nothing THEN NewSession("choose_zone") ELSE row
  <2>1. s \in Session
    BY <1>1 DEF Steps, WizardSteps
  <2>2. Saved(e, r, row) = Fill(s, "zone_id", "choose_time", s.draft.waiting)
    BY <1>5 DEF Saved
  <2> HIDE DEF s
  <2> QED
    BY <1>2, <1>3, <2>1, <2>2 DEF DraftKeys, Steps, WizardSteps
<1>6. CASE e \in NeedRow
  <2>1. row \in Session
    BY <1>6
  <2>2. \E k \in DraftKeys, st \in Steps, w \in Waits \cup {Nothing} :
          Saved(e, r, row) = Fill(row, k, st, w)
    <3>1. CASE e = "time"
      BY <1>3, <2>1, <3>1 DEF Saved, DraftKeys, Steps, WizardSteps
    <3>2. CASE e = "date"
      BY <3>2 DEF Saved, DraftKeys, Steps, WizardSteps, Waits
    <3>3. CASE e = "guest"
      BY <3>3 DEF Saved, DraftKeys, Steps, WizardSteps, Waits
    <3>4. CASE e = "purpose"
      BY <3>4 DEF Saved, DraftKeys, Steps, WizardSteps, Waits
    <3> QED
      BY <1>6, <3>1, <3>2, <3>3, <3>4 DEF NeedRow
  <2> QED
    BY <1>2, <2>1, <2>2
<1>7. CASE e = "back_time"
  BY <1>7 DEF Saved, Session, Steps, WizardSteps
<1>8. CASE e \in {"answer", "clar"}
  <2> DEFINE s == IF row = Nothing
                  THEN NewSession(IF e = "answer" THEN "answer" ELSE "admin")
                  ELSE row
  <2>1. s \in Session
    BY <1>1 DEF Steps
  <2>2. Saved(e, r, row) = Mark(s, e, r)
    BY <1>8 DEF Saved
  <2>3. CardWait[e] \in Waits
    BY <1>8 DEF CardWait, Waits
  <2> HIDE DEF s
  <2> QED
    BY <2>1, <2>2, <2>3, MarkTyped
<1> QED
  BY <1>4, <1>5, <1>6, <1>7, <1>8 DEF Savers, NeedRow

LEMMA NextPendingTyped ==
  ASSUME NEW e, NEW p \in Waits \cup {Nothing}
  PROVE  NextPending(e, p) \in Waits \cup {Nothing}
<1> QED
  BY DEF NextPending, Waits

LEMMA InitTyped == Init => TypeOK
<1> QED
  BY DEF Init, TypeOK

LEMMA ReceiveTyped ==
  ASSUME TypeOK, NEW h \in Handlers, NEW u \in Users,
         \/ Start(h, u) \/ Accept(h, u) \/ SetAdmin(h, u)
         \/ Tap(h, u) \/ TapCard(h, u) \/ Text(h, u) \/ TextWithoutConsent(h, u)
  PROVE  TypeOK'
<1>0. \A k \in Keyboards : ButtonsOf[k] \subseteq Events
  BY DEF Events
<1>1. Buttons(u) \subseteq Events
  BY <1>0 DEF Buttons, TypeOK
<1>2. CASE Start(h, u)
  BY <1>2 DEF Start, Show, TypeOK, Keyboards, ButtonsOf
<1>3. CASE Accept(h, u)
  BY <1>3 DEF Accept, TypeOK, Keyboards, ButtonsOf
<1>4. CASE SetAdmin(h, u)
  BY <1>4 DEF SetAdmin, TypeOK, Waits
<1>5. CASE Tap(h, u)
  <2>1. PICK e \in Events : Become(h, Call("begin", u, e, Nothing))
    BY <1>1, <1>5 DEF Tap
  <2> QED
    BY <1>5, <2>1 DEF Tap, TypeOK, Become, Call
<1>6. CASE TapCard(h, u)
  <2>1. PICK e \in Events \cap {"answer", "clar"}, r \in Requests :
          /\ Become(h, Call("begin", u, e, r))
          /\ pending' = [pending EXCEPT ![u] = CardWait[e]]
          /\ asked' = [asked EXCEPT ![u] = <<e, r>>]
    BY <1>1, <1>6 DEF TapCard
  <2>2. CardWait[e] \in Waits
    BY DEF CardWait, Waits
  <2>3. handler' \in [Handlers -> {Idle}
          \cup [pc : {"begin", "finish"}, user : Users, event : Events,
                request : Requests \cup {Nothing}]
          \cup [pc : {"save", "write"}, user : Users, event : Events,
                request : Requests \cup {Nothing}, entity : Session,
                base : Session \cup {Nothing}]
          \cup [pc : {"delete", "usecase"}, user : Users, event : Events,
                request : Requests \cup {Nothing}]]
    BY <2>1 DEF Become, Call, TypeOK
  <2>4. asked' \in [Users -> ({"answer", "clar"} \X Requests) \cup {Nothing}]
    BY <2>1 DEF TypeOK
  <2> QED
    BY <1>6, <2>1, <2>2, <2>3, <2>4 DEF TapCard, TypeOK
<1>7. CASE Text(h, u)
  <2>1. pending[u] \in Waits
    BY <1>7 DEF Text, TypeOK
  <2>2. TextEvent[pending[u]] \in Events
    BY <2>1 DEF Events
  <2> DEFINE e == TextEvent[pending[u]]
  <2>3. handler' = [handler EXCEPT ![h] = Call("begin", u, e, Nothing)]
    BY <1>7 DEF Text, Become
  <2> HIDE DEF e
  <2>4. e \in Events
    BY <2>2 DEF e
  <2> QED
    BY <1>7, <2>3, <2>4 DEF Text, TypeOK, Call
<1>8. CASE TextWithoutConsent(h, u)
  BY <1>8 DEF TextWithoutConsent, Show, TypeOK, Keyboards, ButtonsOf
<1> QED
  BY <1>2, <1>3, <1>4, <1>5, <1>6, <1>7, <1>8

LEMMA ProceedTyped ==
  ASSUME TypeOK, NEW h \in Handlers, Proceed(h)
  PROVE  TypeOK'
<1> DEFINE c == handler[h]
<1>1. CASE SelectAndEdit(h)
  <2>1. c.user \in Users /\ c.event \in Savers /\ c.event \in Events
        /\ c.request \in Requests \cup {Nothing}
        /\ session[c.user] \in Session \cup {Nothing}
    BY <1>1, Shapes DEF SelectAndEdit, TypeOK
  <2>2. CASE session[c.user] = Nothing /\ c.event \in NeedRow
    BY <1>1, <2>1, <2>2 DEF SelectAndEdit, Become, TypeOK
  <2>3. CASE session[c.user] = Nothing /\ c.event = "back_time"
    BY <1>1, <2>1, <2>3 DEF SelectAndEdit, Become, Call, TypeOK, NeedRow
  <2>4. CASE session[c.user] = Nothing => c.event \notin NeedRow \cup {"back_time"}
    <3>1. Saved(c.event, c.request, session[c.user]) \in Session
      BY <2>1, <2>4, SavedTyped
    <3>2. handler' = [handler EXCEPT ![h] =
            [pc |-> "save", user |-> c.user, event |-> c.event,
             request |-> c.request, base |-> Nothing,
             entity |-> Saved(c.event, c.request, session[c.user])]]
      BY <1>1, <2>4 DEF SelectAndEdit, Become
    <3> QED
      BY <1>1, <2>1, <3>1, <3>2 DEF SelectAndEdit, TypeOK
  <2> QED
    BY <2>2, <2>3, <2>4
<1>2. CASE RejectInput(h)
  BY <1>2 DEF RejectInput, Become, TypeOK
<1>3. CASE SelectForSave(h)
  <2> DEFINE Saving == [pc : {"save", "write"}, user : Users, event : Events,
                        request : Requests \cup {Nothing}, entity : Session,
                        base : Session \cup {Nothing}]
             row == session[c.user]
             d == [c EXCEPT !.pc = "write", !.base = row]
  <2>1. c \in Saving /\ c.user \in Users
    BY <1>3 DEF SelectForSave, TypeOK, Idle
  <2>2. row \in Session \cup {Nothing}
    BY <2>1 DEF TypeOK
  <2>3. handler' = [handler EXCEPT ![h] = d]
    BY <1>3 DEF SelectForSave, Become
  <2>4. d \in Saving
    <3> HIDE DEF c, row
    <3> QED
      BY <2>1, <2>2
  <2> HIDE DEF d, c, row
  <2> QED
    BY <1>3, <2>3, <2>4 DEF SelectForSave, TypeOK
<1>4. CASE WriteAndCommit(h)
  <2>1. c.user \in Users /\ c.event \in Events /\ c.request \in Requests \cup {Nothing}
        /\ c.entity \in Session /\ c.base \in Session \cup {Nothing}
    BY <1>4, Shapes DEF WriteAndCommit
  <2>2. session[c.user] # Nothing /\ c.base # Nothing
          => Written(session[c.user], c.entity, c.base) \in Session
    BY <2>1 DEF Written, Session, TypeOK
  <2>3. session' \in [Users -> Session \cup {Nothing}]
    BY <1>4, <2>1, <2>2 DEF WriteAndCommit, TypeOK
  <2>4. handler' = [handler EXCEPT ![h] = Idle]
        \/ handler' = [handler EXCEPT ![h] = Call("finish", c.user, c.event, c.request)]
    BY <1>4 DEF WriteAndCommit, Become
  <2> QED
    BY <1>4, <2>1, <2>3, <2>4 DEF WriteAndCommit, TypeOK, Call
<1>5. CASE SelectForDelete(h)
  BY <1>5, Shapes DEF SelectForDelete, Become, Call, TypeOK
<1>6. CASE DeleteAndCommit(h)
  BY <1>6, Shapes DEF DeleteAndCommit, Become, Call, TypeOK
<1>7. CASE CallUseCase(h)
  <2>1. c.user \in Users /\ c.event \in Events
        /\ session[c.user] \in Session \cup {Nothing}
    BY <1>7, Shapes DEF CallUseCase, UseCases, TypeOK
  <2>2. Arguments(c) /\ c.event \in {"reply", "question"}
          => session[c.user].draft.request \in Requests \cup {Nothing}
    BY <2>1 DEF Arguments, Session, Draft
  <2>3. handler' = [handler EXCEPT ![h] = Idle]
        \/ \E r \in Requests \cup {Nothing} :
             handler' = [handler EXCEPT ![h] = Call("usecase", c.user, c.event, r)]
    BY <1>7, <2>2 DEF CallUseCase, Become
  <2> QED
    BY <1>7, <2>1, <2>3 DEF CallUseCase, Call, TypeOK
<1>8. CASE UseCaseCommits(h)
  BY <1>8, Shapes DEF UseCaseCommits, Become, Call, TypeOK
<1>9. CASE UseCaseRefuses(h)
  BY <1>9 DEF UseCaseRefuses, Become, TypeOK
<1>10. CASE Finish(h)
  <2>1. c.user \in Users
    BY <1>10, Shapes DEF Finish
  <2>2. NextPending(c.event, pending[c.user]) \in Waits \cup {Nothing}
    BY <2>1, NextPendingTyped DEF TypeOK
  <2>3. shown' \in [Users -> SUBSET Keyboards]
    BY <1>10, <2>1 DEF Finish, Show, TypeOK, NextKeyboard, Keyboards, ButtonsOf
  <2> QED
    BY <1>10, <2>1, <2>2, <2>3 DEF Finish, Become, TypeOK
<1> QED
  BY <1>1, <1>2, <1>3, <1>4, <1>5, <1>6, <1>7, <1>8, <1>9, <1>10 DEF Proceed

LEMMA NextTyped ==
  ASSUME TypeOK, [Next]_vars
  PROVE  TypeOK'
<1>1. ASSUME NEW h \in Handlers, Receive(h) PROVE TypeOK'
  BY <1>1, ReceiveTyped DEF Receive
<1>2. ASSUME NEW h \in Handlers, DbFails(h) PROVE TypeOK'
  BY <1>2 DEF DbFails, Become, TypeOK
<1>3. CASE Restart
  BY <1>3 DEF Restart, TypeOK
<1>4. CASE UNCHANGED vars
  BY <1>4 DEF vars, TypeOK
<1> QED
  BY <1>1, <1>2, <1>3, <1>4, ProceedTyped DEF Next

(* The session row, _pending_text, the chat and every handler have their    *)
(* types in every reachable state, for any number of users and handlers.    *)
THEOREM SpecTypeOK == Spec => []TypeOK
<1> QED
  BY InitTyped, NextTyped, PTL DEF Spec

-----------------------------------------------------------------------------
(* One event at a time.                                                     *)

OneHandler == \A g, h \in Handlers : g = h

(* What the row and the awaited text say of each other, and of the card.    *)
Fits(p, s, a) ==
  /\ p \notin {Nothing, "tech_target"} =>
       s # Nothing /\ s.draft.waiting \in {Nothing, p}
  /\ p \in {"clarify_answer", "admin_question"} /\ s # Nothing
       /\ s.draft.request # Nothing =>
       a = <<AskedBy[TextEvent[p]], s.draft.request>>

HasItsKey(s) == s.step \in DOMAIN KeyBefore => KeyBefore[s.step] \in s.draft.keys

(* What holds of a handler, given its user's awaited text, row and card, and *)
(* unless a call has failed: it is about to make them fit.                  *)
Expected(c, p, s, a) ==
  /\ c.pc = "begin" /\ c.event \in {"answer", "clar"} =>
       /\ p = CardWait[c.event]
       /\ a = <<c.event, c.request>> /\ c.request \in Requests
  /\ c.pc = "begin" /\ c.event \notin {"answer", "clar"} => Fits(p, s, a)
  /\ c.pc = "begin" /\ c.event \in DOMAIN AskedBy =>
       p \in Waits /\ c.event = TextEvent[p]
  /\ c.pc \in {"save", "write"} => Fits(NextPending(c.event, p), c.entity, a)
  /\ c.pc \in {"delete", "usecase"} => Fits(p, s, a)
  /\ c.pc = "usecase" /\ c.event \in DOMAIN AskedBy =>
       a = <<AskedBy[c.event], c.request>>
  /\ c.pc = "finish" => Fits(NextPending(c.event, p), s, a)

Placed(c, p, s, a, f) ==
  /\ c.pc = "delete" => c.event = "cancel"
  /\ c.pc = "usecase" => c.event \in UseCases
  /\ c.pc \in {"save", "write"} => c.event \in Savers /\ HasItsKey(c.entity)
  /\ c.pc = "write" => c.base = s
  /\ c.pc = "finish" /\ c.event \in {"date", "guest"} => s # Nothing
  /\ f \/ Expected(c, p, s, a)

FormTexts == {"guest_name", "purpose"}

(* The row is about to lose a form's text because the handler ends the form. *)
Ending(c, u) ==
  c.pc = "finish" /\ c.user = u /\ c.event \in {"cancel", "submit"}

WizardInv ==
  /\ \A u \in Users : session[u] # Nothing => HasItsKey(session[u])
  /\ \A u \in Users : pending[u] \in FormTexts /\ session[u] = Nothing =>
       \E h \in Handlers : Ending(handler[h], u)
  /\ \A u \in Users : failed \/ (Quiet(u) => Fits(pending[u], session[u], asked[u]))
  /\ \A h \in Handlers : handler[h] # Idle =>
       Placed(handler[h], pending[handler[h].user], session[handler[h].user],
              asked[handler[h].user], failed)

(* The fields of what a handler saves.                                      *)
LEMMA FillFields ==
  ASSUME NEW s \in Session, NEW k, NEW st, NEW w
  PROVE  /\ Fill(s, k, st, w).step = st
         /\ Fill(s, k, st, w).draft.keys = s.draft.keys \cup {k}
         /\ Fill(s, k, st, w).draft.waiting = w
         /\ Fill(s, k, st, w).draft.request = s.draft.request
<1> DEFINE d == [s.draft EXCEPT !.keys = @ \cup {k}]
           n == [d EXCEPT !.waiting = w]
<1>1. s.draft \in Draft
  BY DEF Session
<1>2. d.keys = s.draft.keys \cup {k} /\ d.request = s.draft.request
      /\ d \in [keys : SUBSET (DraftKeys \cup {k}), waiting : Waits \cup {Nothing},
                request : Requests \cup {Nothing}]
  BY <1>1 DEF Draft
<1>3. n.keys = d.keys /\ n.request = d.request /\ n.waiting = w
  <2> HIDE DEF d
  <2> QED
    BY <1>2
<1>4. Fill(s, k, st, w) = [step |-> st, draft |-> n]
  BY DEF Fill
<1> HIDE DEF d, n
<1> QED
  BY <1>2, <1>3, <1>4

LEMMA MarkFields ==
  ASSUME NEW s \in Session, NEW e, NEW r
  PROVE  /\ Mark(s, e, r).step = s.step
         /\ Mark(s, e, r).draft.keys = s.draft.keys
         /\ Mark(s, e, r).draft.waiting = CardWait[e]
         /\ Mark(s, e, r).draft.request = r
<1> DEFINE d == [s.draft EXCEPT !.request = r]
           n == [d EXCEPT !.waiting = CardWait[e]]
<1>1. s.draft \in Draft
  BY DEF Session
<1>2. d.keys = s.draft.keys /\ d.request = r
      /\ d \in [keys : SUBSET DraftKeys, waiting : Waits \cup {Nothing}, request : {r}]
  BY <1>1 DEF Draft
<1>3. n.keys = s.draft.keys /\ n.request = r /\ n.waiting = CardWait[e]
  <2> HIDE DEF d
  <2> QED
    BY <1>2
<1>4. Mark(s, e, r) = [[s EXCEPT !.draft = d] EXCEPT !.draft = n]
  BY DEF Mark, Session
<1>5. Mark(s, e, r).step = s.step /\ Mark(s, e, r).draft = n
  <2> HIDE DEF d, n
  <2> QED
    BY <1>4 DEF Session
<1> QED
  BY <1>3, <1>5

LEMMA NewFields ==
  ASSUME NEW st
  PROVE  /\ NewSession(st).step = st
         /\ NewSession(st).draft.waiting = Nothing
         /\ NewSession(st).draft.request = Nothing
         /\ st \in Steps => NewSession(st) \in Session
<1> QED
  BY DEF NewSession, EmptyDraft, Session, Draft

(* Every button of the form and of a card leaves a row whose step has its    *)
(* key ...                                                                  *)
LEMMA SavedHasItsKey ==
  ASSUME NEW e \in Savers, NEW r, NEW row \in Session \cup {Nothing},
         row = Nothing => e \notin NeedRow \cup {"back_time"},
         row # Nothing => HasItsKey(row)
  PROVE  HasItsKey(Saved(e, r, row))
<1>1. CASE e \in {"new", "back_zone", "edit_zone"}
  <2>1. Saved(e, r, row) = NewSession("choose_zone")
    BY <1>1 DEF Saved
  <2>2. Saved(e, r, row).step = "choose_zone"
    BY <2>1, NewFields
  <2> QED
    BY <2>2 DEF HasItsKey, KeyBefore
<1>2. CASE e = "zone"
  <2> DEFINE s == IF row = Nothing THEN NewSession("choose_zone") ELSE row
  <2>1. s \in Session
    BY NewFields DEF Steps, WizardSteps
  <2>2. Saved(e, r, row) = Fill(s, "zone_id", "choose_time", s.draft.waiting)
    BY <1>2 DEF Saved
  <2> HIDE DEF s
  <2> QED
    BY <2>1, <2>2, FillFields DEF HasItsKey, KeyBefore
<1>3. CASE e \in NeedRow
  <2>1. row \in Session
    BY <1>3
  <2>2. CASE e = "time"
    BY <2>1, <2>2, FillFields DEF Saved, HasItsKey, KeyBefore
  <2>3. CASE e = "date"
    BY <2>1, <2>3, FillFields DEF Saved, HasItsKey, KeyBefore
  <2>4. CASE e = "guest"
    BY <2>1, <2>4, FillFields DEF Saved, HasItsKey, KeyBefore
  <2>5. CASE e = "purpose"
    BY <2>1, <2>5, FillFields DEF Saved, HasItsKey, KeyBefore
  <2> QED
    BY <1>3, <2>2, <2>3, <2>4, <2>5 DEF NeedRow
<1>4. CASE e = "back_time"
  BY <1>4 DEF Saved, HasItsKey, KeyBefore, Session
<1>5. CASE e \in {"answer", "clar"}
  <2> DEFINE st == IF e = "answer" THEN "answer" ELSE "admin"
             s == IF row = Nothing THEN NewSession(st) ELSE row
  <2>1. s \in Session
    BY NewFields DEF Steps
  <2>2. HasItsKey(s)
    BY NewFields DEF HasItsKey, KeyBefore
  <2>3. Saved(e, r, row) = Mark(s, e, r)
    BY <1>5 DEF Saved
  <2> HIDE DEF s
  <2> QED
    BY <2>1, <2>2, <2>3, MarkFields DEF HasItsKey
<1> QED
  BY <1>1, <1>2, <1>3, <1>4, <1>5 DEF Savers, NeedRow

(* ... and fits the text that will be awaited once the handler has ended.   *)
LEMMA SavedFits ==
  ASSUME NEW e \in Savers, NEW r \in Requests \cup {Nothing},
         NEW row \in Session \cup {Nothing},
         NEW p \in Waits \cup {Nothing}, NEW a,
         row = Nothing => e \notin NeedRow \cup {"back_time"},
         e \in {"answer", "clar"} => p = CardWait[e] /\ a = <<e, r>>,
         e \notin {"answer", "clar"} => Fits(p, row, a)
  PROVE  Fits(NextPending(e, p), Saved(e, r, row), a)
<1>0. Saved(e, r, row) # Nothing
  BY SavedTyped, NothingAssumption
<1>1. CASE e \in {"new", "back_zone", "edit_zone"}
  BY <1>0, <1>1, NewFields DEF Saved, NextPending, Fits
<1>2. CASE e = "zone"
  <2> DEFINE s == IF row = Nothing THEN NewSession("choose_zone") ELSE row
  <2>1. s \in Session
    BY NewFields DEF Steps, WizardSteps
  <2>2. s.draft.waiting \in {Nothing, p} \/ p \in {Nothing, "tech_target"}
    BY <1>2, NewFields DEF Fits
  <2>3. p \in {"clarify_answer", "admin_question"} /\ s.draft.request # Nothing =>
          a = <<AskedBy[TextEvent[p]], s.draft.request>>
    BY <1>2, NewFields DEF Fits
  <2>4. Saved(e, r, row) = Fill(s, "zone_id", "choose_time", s.draft.waiting)
    BY <1>2 DEF Saved
  <2>5. NextPending(e, p) = p
    BY <1>2 DEF NextPending, UseCases
  <2> HIDE DEF s
  <2> QED
    BY <1>0, <2>1, <2>2, <2>3, <2>4, <2>5, FillFields DEF Fits
<1>3. CASE e = "time"
  <2>1. row \in Session
    BY <1>3 DEF NeedRow
  <2>2. NextPending(e, p) = p
    BY <1>3 DEF NextPending, UseCases
  <2> DEFINE t == Saved(e, r, row)
  <2>3. t = Fill(row, "visit_time", "choose_date", row.draft.waiting)
    BY <1>3 DEF Saved
  <2>4. t.draft.waiting = row.draft.waiting /\ t.draft.request = row.draft.request
    BY <2>1, <2>3, FillFields
  <2>5. Fits(p, row, a) /\ row # Nothing /\ t # Nothing
    BY <1>0, <1>3, <2>1, NothingAssumption
  <2> HIDE DEF t
  <2>6. Fits(p, t, a)
    BY <2>4, <2>5 DEF Fits
  <2> QED
    BY <2>2, <2>6 DEF t
<1>4. CASE e \in {"date", "guest", "purpose"}
  <2>1. row \in Session
    BY <1>4 DEF NeedRow
  <2> DEFINE t == Saved(e, r, row)
             n == NextPending(e, p)
  <2>2. CASE e \in {"date", "guest"}
    <3>1. n \in {"guest_name", "purpose"}
      BY <2>2 DEF NextPending, UseCases
    <3>2. t.draft.waiting = n
      <4>1. CASE e = "date"
        <5>1. t = Fill(row, "visit_date", "enter_guest_name", "guest_name")
          BY <4>1 DEF Saved
        <5> QED
          BY <2>1, <4>1, <5>1, FillFields DEF NextPending, UseCases
      <4>2. CASE e = "guest"
        <5>1. t = Fill(row, "guest_full_name", "enter_purpose", "purpose")
          BY <4>2 DEF Saved
        <5> QED
          BY <2>1, <4>2, <5>1, FillFields DEF NextPending, UseCases
      <4> QED
        BY <2>2, <4>1, <4>2
    <3> HIDE DEF t, n
    <3> QED
      BY <1>0, <3>1, <3>2 DEF Fits, t, n
  <2>3. CASE e = "purpose"
    <3>1. n = Nothing
      BY <2>3 DEF NextPending
    <3>2. n \notin Waits
      BY <3>1, NothingAssumption
    <3> HIDE DEF t, n
    <3> QED
      BY <3>1, <3>2 DEF Fits, Waits, t, n
  <2> QED
    BY <1>4, <2>2, <2>3
<1>5. CASE e = "back_time"
  <2>1. row \in Session
    BY <1>5
  <2>2. NextPending(e, p) = p
    BY <1>5 DEF NextPending, UseCases
  <2>3. Saved(e, r, row).draft = row.draft
    BY <1>5, <2>1 DEF Saved, Session
  <2> QED
    BY <1>0, <1>5, <2>1, <2>2, <2>3 DEF Fits
<1>6. CASE e \in {"answer", "clar"}
  <2> DEFINE st == IF e = "answer" THEN "answer" ELSE "admin"
             s == IF row = Nothing THEN NewSession(st) ELSE row
  <2>1. s \in Session
    BY NewFields DEF Steps
  <2>2. Saved(e, r, row) = Mark(s, e, r)
    BY <1>6 DEF Saved
  <2>3. NextPending(e, p) = p /\ p = CardWait[e]
    BY <1>6 DEF NextPending, UseCases
  <2>4. AskedBy[TextEvent[CardWait[e]]] = e
    BY <1>6 DEF AskedBy, TextEvent, CardWait
  <2> HIDE DEF s
  <2> QED
    BY <1>0, <1>6, <2>1, <2>2, <2>3, <2>4, MarkFields DEF Fits
<1> QED
  BY <1>1, <1>2, <1>3, <1>4, <1>5, <1>6 DEF Savers, NeedRow

(* A step that only moves the handler on, or ends it with the row as it was. *)
LEMMA HandlerOnly ==
  ASSUME OneHandler, TypeOK, WizardInv, NEW h \in Handlers, NEW x,
         handler[h] # Idle, handler[h].pc # "finish",
         handler' = [handler EXCEPT ![h] = x],
         UNCHANGED <<session, pending, asked>>, failed => failed',
         x = Idle => failed' \/ Fits(pending[handler[h].user],
                                     session[handler[h].user], asked[handler[h].user]),
         x # Idle => x.user = handler[h].user
                     /\ Placed(x, pending[x.user], session[x.user], asked[x.user], failed')
  PROVE  WizardInv'
<1>1. handler'[h] = x /\ \A g \in Handlers : g = h
  BY DEF TypeOK, OneHandler
<1>2. \A u \in Users : session'[u] # Nothing => HasItsKey(session'[u])
  BY DEF WizardInv
<1>3. \A u \in Users : ~ (pending[u] \in FormTexts /\ session[u] = Nothing)
  BY <1>1 DEF WizardInv, Ending
<1>4. \A u \in Users : failed' \/ (Quiet(u)' => Fits(pending[u], session[u], asked[u]))
  <2>1. SUFFICES ASSUME NEW u \in Users, ~ failed', Quiet(u)'
                 PROVE  Fits(pending[u], session[u], asked[u])
    OBVIOUS
  <2>2. CASE x = Idle /\ u = handler[h].user
    BY <2>1, <2>2
  <2>3. CASE u # handler[h].user
    <3>1. Quiet(u)
      BY <1>1, <2>3 DEF Quiet
    <3> QED
      BY <2>1, <3>1 DEF WizardInv
  <2>4. CASE x # Idle
    <3>1. x.user # u
      BY <1>1, <2>1, <2>4 DEF Quiet
    <3> QED
      BY <2>3, <2>4, <3>1
  <2> QED
    BY <2>2, <2>3, <2>4
<1>5. \A g \in Handlers : handler'[g] # Idle =>
        Placed(handler'[g], pending[handler'[g].user], session[handler'[g].user],
               asked[handler'[g].user], failed')
  BY <1>1
<1> QED
  BY <1>2, <1>3, <1>4, <1>5 DEF WizardInv

(* While nothing is being handled, row and awaited text fit for every user. *)
LEMMA AllQuiet ==
  ASSUME OneHandler, WizardInv, NEW h \in Handlers, handler[h] = Idle
  PROVE  /\ \A g \in Handlers : handler[g] = Idle
         /\ \A u \in Users : failed \/ Fits(pending[u], session[u], asked[u])
         /\ \A u \in Users : pending[u] \in FormTexts => session[u] # Nothing
<1>1. \A g \in Handlers : handler[g] = Idle
  BY DEF OneHandler
<1>2. \A u \in Users : Quiet(u)
  BY <1>1 DEF Quiet
<1>3. \A u \in Users : pending[u] \in FormTexts => session[u] # Nothing
  BY <1>1 DEF WizardInv, Ending, Idle
<1> QED
  BY <1>1, <1>2, <1>3 DEF WizardInv

(* The first step of a handler: at most the awaited text and the card have   *)
(* been set.                                                                *)
LEMMA Begun ==
  ASSUME OneHandler, TypeOK, WizardInv, NEW h \in Handlers, handler[h] = Idle,
         NEW x, x.pc = "begin", NEW u \in Users, x.user = u,
         handler' = [handler EXCEPT ![h] = x], UNCHANGED <<session, failed>>,
         \A v \in Users : v # u => pending'[v] = pending[v] /\ asked'[v] = asked[v],
         pending'[u] \in FormTexts => pending'[u] = pending[u],
         failed \/ Expected(x, pending'[u], session[u], asked'[u])
  PROVE  WizardInv'
<1>1. handler'[h] = x /\ \A g \in Handlers : g = h
  BY DEF TypeOK, OneHandler
<1>2. \A v \in Users : session'[v] # Nothing => HasItsKey(session'[v])
  BY DEF WizardInv
<1>3. \A v \in Users : ~ (pending'[v] \in FormTexts /\ session'[v] = Nothing)
  <2>1. \A v \in Users : pending[v] \in FormTexts => session[v] # Nothing
    BY AllQuiet, Zenon
  <2> QED
    BY <2>1
<1>4. \A v \in Users : failed' \/ (Quiet(v)' => Fits(pending'[v], session'[v], asked'[v]))
  <2>1. ASSUME Quiet(u)' PROVE FALSE
    BY <1>1, <2>1 DEF Quiet, Idle
  <2>2. \A v \in Users : failed \/ Fits(pending[v], session[v], asked[v])
    BY AllQuiet, Zenon
  <2>3. ASSUME NEW v \in Users, v # u
        PROVE  failed' \/ Fits(pending'[v], session'[v], asked'[v])
    BY <2>2, <2>3 DEF Fits
  <2> QED
    BY <2>1, <2>3
<1>5. Placed(x, pending'[u], session'[u], asked'[u], failed')
  BY DEF Placed
<1> QED
  BY <1>1, <1>2, <1>3, <1>4, <1>5 DEF WizardInv

LEMMA WizardInit == Init => WizardInv
<1> QED
  BY NothingAssumption DEF Init, WizardInv, FormTexts, Fits, Waits

LEMMA Frame ==
  ASSUME WizardInv, UNCHANGED <<session, pending, handler, asked, failed>>
  PROVE  WizardInv'
<1> QED
  BY DEF WizardInv, Quiet

(* Receiving an event keeps the invariant.                                  *)
LEMMA ReceiveKeeps ==
  ASSUME OneHandler, TypeOK, WizardInv, NEW h \in Handlers, NEW u \in Users,
         \/ Start(h, u) \/ Accept(h, u) \/ SetAdmin(h, u)
         \/ Tap(h, u) \/ TapCard(h, u) \/ Text(h, u) \/ TextWithoutConsent(h, u)
  PROVE  WizardInv'
<1>0. /\ handler[h] = Idle
      /\ \A g \in Handlers : handler[g] = Idle
      /\ \A v \in Users : failed \/ Fits(pending[v], session[v], asked[v])
      /\ \A v \in Users : pending[v] \in FormTexts => session[v] # Nothing
  <2>1. handler[h] = Idle
    BY DEF Start, Accept, SetAdmin, Tap, TapCard, Text, TextWithoutConsent
  <2> QED
    BY <2>1, AllQuiet, Zenon
<1>1. CASE Start(h, u) \/ Accept(h, u) \/ TextWithoutConsent(h, u)
  BY <1>1, Frame DEF Start, Accept, TextWithoutConsent
<1>2. CASE SetAdmin(h, u)
  <2>1. pending' = [pending EXCEPT ![u] = "tech_target"]
        /\ UNCHANGED <<session, handler, asked, failed>>
    BY <1>2 DEF SetAdmin
  <2>2. \A v \in Users : pending'[v] = pending[v] \/ pending'[v] = "tech_target"
    BY <2>1 DEF TypeOK
  <2>3. \A v \in Users : pending'[v] \in FormTexts => session'[v] # Nothing
    BY <1>0, <2>1, <2>2 DEF FormTexts
  <2>4. \A s, a : Fits("tech_target", s, a)
    BY DEF Fits
  <2>5. ASSUME NEW v \in Users
        PROVE  failed' \/ Fits(pending'[v], session'[v], asked'[v])
    <3>1. CASE pending'[v] = pending[v]
      BY <1>0, <2>1, <3>1
    <3>2. CASE pending'[v] = "tech_target"
      BY <2>4, <3>2
    <3> QED
      BY <2>2, <3>1, <3>2
  <2>6. \A v \in Users : session'[v] # Nothing => HasItsKey(session'[v])
    BY <2>1 DEF WizardInv
  <2> QED
    BY <1>0, <2>1, <2>3, <2>5, <2>6 DEF WizardInv
<1>3. CASE Tap(h, u)
  <2>1. PICK e \in Buttons(u) \ {"accept", "setadmin", "answer", "clar"} :
          Become(h, Call("begin", u, e, Nothing))
    BY <1>3 DEF Tap
  <2>2. \A k \in Keyboards : {"reply", "question"} \cap ButtonsOf[k] = {}
    BY DEF Keyboards, ButtonsOf
  <2>3. e \notin {"reply", "question"}
    BY <2>1, <2>2 DEF Buttons, TypeOK
  <2> DEFINE x == Call("begin", u, e, Nothing)
  <2>4. x.pc = "begin" /\ x.user = u /\ x.event = e
    BY DEF Call
  <2> HIDE DEF x
  <2>5. failed \/ Expected(x, pending[u], session[u], asked[u])
    BY <1>0, <2>1, <2>3, <2>4 DEF Expected, AskedBy
  <2> QED
    BY <1>0, <1>3, <2>1, <2>4, <2>5, Begun DEF Tap, Become, x
<1>4. CASE TapCard(h, u)
  <2>1. PICK e \in {"answer", "clar"}, r \in Requests :
          /\ Become(h, Call("begin", u, e, r))
          /\ pending' = [pending EXCEPT ![u] = CardWait[e]]
          /\ asked' = [asked EXCEPT ![u] = <<e, r>>]
    BY <1>4 DEF TapCard
  <2> DEFINE x == Call("begin", u, e, r)
  <2>2. x.pc = "begin" /\ x.user = u /\ x.event = e /\ x.request = r
    BY DEF Call
  <2>3. pending'[u] = CardWait[e] /\ asked'[u] = <<e, r>>
        /\ \A v \in Users : v # u => pending'[v] = pending[v] /\ asked'[v] = asked[v]
    BY <2>1 DEF TypeOK
  <2>4. CardWait[e] \notin FormTexts
    BY DEF CardWait, FormTexts
  <2> HIDE DEF x
  <2>5. Expected(x, pending'[u], session[u], asked'[u])
    BY <2>2, <2>3 DEF Expected, AskedBy
  <2> QED
    BY <1>0, <1>4, <2>1, <2>2, <2>3, <2>4, <2>5, Begun DEF TapCard, Become, x
<1>5. CASE Text(h, u)
  <2> DEFINE e == TextEvent[pending[u]]
             x == Call("begin", u, e, Nothing)
  <2>1. pending[u] \in Waits
    BY <1>5 DEF Text, TypeOK
  <2>2. e \notin {"answer", "clar"}
    BY <2>1 DEF TextEvent, Waits
  <2>3. x.pc = "begin" /\ x.user = u /\ x.event = e
    BY DEF Call
  <2>4. handler' = [handler EXCEPT ![h] = x]
    BY <1>5 DEF Text, Become
  <2>5. failed \/ Expected(x, pending[u], session[u], asked[u])
    <3> HIDE DEF x
    <3> QED
      BY <1>0, <2>1, <2>2, <2>3 DEF Expected
  <2> HIDE DEF x, e
  <2> QED
    BY <1>0, <1>5, <2>3, <2>4, <2>5, Begun DEF Text
<1> QED
  BY <1>1, <1>2, <1>3, <1>4, <1>5

(* A text nobody waits for fits any row.                                    *)
LEMMA FitsNothing == \A s, a : Fits(Nothing, s, a)
<1> QED
  BY NothingAssumption DEF Fits, Waits

LEMMA CallFields ==
  \A pc, u, e, r : LET x == Call(pc, u, e, r) IN
    x.pc = pc /\ x.user = u /\ x.event = e /\ x.request = r
<1> QED
  BY DEF Call

(* With one handler, the row it writes is the one it has read twice.        *)
LEMMA WrittenEntity ==
  ASSUME NEW row \in Session, NEW entity \in Session
  PROVE  Written(row, entity, row) = entity
<1>1. entity = [step |-> entity.step, draft |-> entity.draft]
  BY DEF Session
<1>2. Written(row, entity, row) = [step |-> entity.step, draft |-> entity.draft]
  BY DEF Written
<1> QED
  BY <1>1, <1>2

(* A step that changes its user's row and is about to end.                  *)
LEMMA RowChanged ==
  ASSUME OneHandler, TypeOK, WizardInv, NEW h \in Handlers, NEW x, NEW t,
         NEW u \in Users, u = handler[h].user,
         handler[h] # Idle, handler[h].pc # "finish",
         x.pc = "finish", x.user = u, x.event = handler[h].event,
         handler' = [handler EXCEPT ![h] = x], UNCHANGED <<pending, asked, failed>>,
         session'[u] = t, \A v \in Users : v # u => session'[v] = session[v],
         t # Nothing => HasItsKey(t),
         t = Nothing => x.event \in {"cancel", "submit"} \/ session[u] = Nothing,
         Placed(x, pending[u], t, asked[u], failed)
  PROVE  WizardInv'
<1>1. handler'[h] = x /\ \A g \in Handlers : g = h
  BY DEF TypeOK, OneHandler
<1>2. \A v \in Users : ~ (pending[v] \in FormTexts /\ session[v] = Nothing)
  BY <1>1 DEF WizardInv, Ending
<1>3. ASSUME NEW v \in Users, pending'[v] \in FormTexts, session'[v] = Nothing
      PROVE  \E g \in Handlers : Ending(handler'[g], v)
  <2>1. v = u /\ t = Nothing
    BY <1>2, <1>3
  <2>2. x.event \in {"cancel", "submit"}
    BY <1>2, <1>3, <2>1
  <2> QED
    BY <1>1, <2>1, <2>2 DEF Ending
<1>4. ASSUME NEW v \in Users, Quiet(v)'
      PROVE  failed' \/ Fits(pending'[v], session'[v], asked'[v])
  <2>1. v # u
    BY <1>1, <1>4 DEF Quiet, Idle
  <2>2. Quiet(v)
    BY <1>1, <2>1 DEF Quiet
  <2> QED
    BY <2>1, <2>2 DEF WizardInv
<1>5. \A v \in Users : session'[v] # Nothing => HasItsKey(session'[v])
  BY DEF WizardInv
<1>6. \A g \in Handlers :
        Placed(handler'[g], pending'[handler'[g].user], session'[handler'[g].user],
               asked'[handler'[g].user], failed')
  BY <1>1
<1> QED
  BY <1>3, <1>4, <1>5, <1>6 DEF WizardInv

(* Going on with an event keeps the invariant.                              *)
LEMMA ProceedKeeps ==
  ASSUME OneHandler, TypeOK, WizardInv, NEW h \in Handlers, Proceed(h)
  PROVE  WizardInv'
<1> DEFINE c == handler[h]
           u == c.user
           p == pending[u]
           s == session[u]
           a == asked[u]
<1>0. /\ c.pc # "idle" /\ c # Idle
      /\ u \in Users /\ c.event \in Events /\ c.request \in Requests \cup {Nothing}
      /\ p \in Waits \cup {Nothing} /\ s \in Session \cup {Nothing}
      /\ Placed(c, p, s, a, failed)
      /\ s # Nothing => HasItsKey(s)
  <2>1. c.pc # "idle"
    BY DEF Proceed, SelectAndEdit, RejectInput, SelectForSave, WriteAndCommit,
           SelectForDelete, DeleteAndCommit, CallUseCase, UseCaseCommits,
           UseCaseRefuses, Finish
  <2>2. c # Idle
    BY <2>1 DEF Idle
  <2>3. u \in Users /\ c.event \in Events /\ c.request \in Requests \cup {Nothing}
    BY <2>1, Shapes
  <2> QED
    BY <2>1, <2>2, <2>3 DEF TypeOK, WizardInv
<1>1. CASE SelectAndEdit(h)
  <2>1. c.pc = "begin" /\ c.event \in Savers /\ UNCHANGED <<session, pending, asked, failed>>
    BY <1>1 DEF SelectAndEdit
  <2>2. c.event \notin {"answer", "clar"} => failed \/ Fits(p, s, a)
    BY <1>0, <2>1 DEF Placed, Expected
  <2>3. CASE s = Nothing /\ c.event \in NeedRow
    <3>1. handler' = [handler EXCEPT ![h] = Idle]
      BY <1>1, <2>3 DEF SelectAndEdit, Become
    <3>2. failed' \/ Fits(p, s, a)
      BY <2>1, <2>2, <2>3 DEF NeedRow
    <3> QED
      BY <1>0, <2>1, <3>1, <3>2, HandlerOnly
  <2>4. CASE s = Nothing /\ c.event = "back_time"
    <3> DEFINE x == Call("finish", u, c.event, Nothing)
    <3>1. handler' = [handler EXCEPT ![h] = x]
      BY <1>1, <2>4 DEF SelectAndEdit, Become, NeedRow
    <3>2. x.pc = "finish" /\ x.user = u /\ x.event = "back_time"
      BY <2>4, CallFields
    <3>3. NextPending("back_time", p) = p
      BY DEF NextPending, UseCases
    <3> HIDE DEF x
    <3>4. Placed(x, p, s, a, failed')
      BY <2>1, <2>2, <2>4, <3>2, <3>3 DEF Placed, Expected
    <3>5. x # Idle
      BY <3>2 DEF Idle
    <3>6. Placed(x, pending[x.user], session[x.user], asked[x.user], failed')
      BY <3>2, <3>4
    <3> QED
      BY <1>0, <2>1, <3>1, <3>2, <3>5, <3>6, HandlerOnly
  <2>5. CASE s = Nothing => c.event \notin NeedRow \cup {"back_time"}
    <3> DEFINE e == Saved(c.event, c.request, s)
               x == [pc |-> "save", user |-> u, event |-> c.event,
                     request |-> c.request, base |-> Nothing, entity |-> e]
    <3>1. handler' = [handler EXCEPT ![h] = x]
      BY <1>1, <2>5 DEF SelectAndEdit, Become
    <3>2. HasItsKey(e)
      BY <1>0, <2>1, <2>5, SavedHasItsKey
    <3>3. failed \/ Fits(NextPending(c.event, p), e, a)
      <4>1. SUFFICES ASSUME ~ failed PROVE Fits(NextPending(c.event, p), e, a)
        OBVIOUS
      <4>2. c.event \in {"answer", "clar"} => p = CardWait[c.event] /\ a = <<c.event, c.request>>
        BY <1>0, <2>1, <4>1 DEF Placed, Expected
      <4> QED
        BY <1>0, <2>1, <2>2, <2>5, <4>1, <4>2, SavedFits
    <3> HIDE DEF e
    <3>4. x.pc = "save" /\ x.user = u /\ x.event = c.event /\ x.entity = e
      OBVIOUS
    <3> HIDE DEF x
    <3>5. Placed(x, p, s, a, failed')
      BY <2>1, <3>2, <3>3, <3>4 DEF Placed, Expected
    <3>6. x # Idle
      BY <3>4 DEF Idle
    <3>7. Placed(x, pending[x.user], session[x.user], asked[x.user], failed')
      BY <3>4, <3>5
    <3> QED
      BY <1>0, <2>1, <3>1, <3>4, <3>6, <3>7, HandlerOnly
  <2> QED
    BY <2>3, <2>4, <2>5
<1>2. CASE RejectInput(h)
  <2>1. c.pc = "begin" /\ c.event \in {"date", "guest", "purpose"}
        /\ handler' = [handler EXCEPT ![h] = Idle]
        /\ UNCHANGED <<session, pending, asked, failed>>
    BY <1>2 DEF RejectInput, Become
  <2>2. failed \/ Fits(p, s, a)
    BY <1>0, <2>1 DEF Placed, Expected
  <2> QED
    BY <1>0, <2>1, <2>2, HandlerOnly
<1>3. CASE SelectForSave(h)
  <2> DEFINE x == [c EXCEPT !.pc = "write", !.base = s]
  <2>1. c.pc = "save" /\ handler' = [handler EXCEPT ![h] = x]
        /\ UNCHANGED <<session, pending, asked, failed>>
    BY <1>3 DEF SelectForSave, Become
  <2>2. x.pc = "write" /\ x.user = u /\ x.event = c.event /\ x.entity = c.entity
        /\ x.base = s
    <3>1. c \in [pc : {"save", "write"}, user : Users, event : Events,
                request : Requests \cup {Nothing}, entity : Session,
                base : Session \cup {Nothing}]
      BY <2>1 DEF TypeOK, Idle
    <3> HIDE DEF c, s
    <3> QED
      BY <3>1
  <2> HIDE DEF x
  <2>3. Placed(x, p, s, a, failed')
    BY <1>0, <2>1, <2>2 DEF Placed, Expected
  <2>4. x # Idle
    BY <2>2 DEF Idle
  <2>5. Placed(x, pending[x.user], session[x.user], asked[x.user], failed')
    BY <2>2, <2>3
  <2> QED
    BY <1>0, <2>1, <2>2, <2>4, <2>5, HandlerOnly
<1>4. CASE WriteAndCommit(h)
  <2>1. c.pc = "write" /\ c.base = s /\ c.event \in Savers /\ HasItsKey(c.entity)
        /\ c.entity \in Session /\ UNCHANGED <<pending, asked, failed>>
    BY <1>0, <1>4, Shapes DEF WriteAndCommit, Placed
  <2>2. session' = [session EXCEPT ![u] = c.entity]
    <3>1. s # Nothing => Written(s, c.entity, c.base) = c.entity
      BY <1>0, <2>1, WrittenEntity
    <3> QED
      BY <1>4, <2>1, <3>1 DEF WriteAndCommit
  <2> DEFINE x == Call("finish", u, c.event, c.request)
  <2>3. handler' = [handler EXCEPT ![h] = x]
    BY <1>4, <2>1 DEF WriteAndCommit, Become
  <2>4. x.pc = "finish" /\ x.user = u /\ x.event = c.event
    BY CallFields
  <2>5. session'[u] = c.entity /\ c.entity # Nothing
        /\ \A v \in Users : v # u => session'[v] = session[v]
    BY <1>0, <2>1, <2>2, NothingAssumption DEF TypeOK
  <2> HIDE DEF x
  <2>6. Placed(x, p, c.entity, a, failed)
    BY <1>0, <2>1, <2>4, <2>5 DEF Placed, Expected
  <2> QED
    BY <1>0, <2>1, <2>3, <2>4, <2>5, <2>6, RowChanged
<1>5. CASE SelectForDelete(h)
  <2> DEFINE x == Call(IF s = Nothing THEN "finish" ELSE "delete", u, c.event, Nothing)
  <2>1. c.pc = "begin" /\ c.event = "cancel" /\ handler' = [handler EXCEPT ![h] = x]
        /\ UNCHANGED <<session, pending, asked, failed>>
    BY <1>5 DEF SelectForDelete, Become
  <2>2. x.pc \in {"finish", "delete"} /\ x.user = u /\ x.event = "cancel"
    BY <2>1, CallFields
  <2>3. failed \/ Fits(p, s, a)
    BY <1>0, <2>1 DEF Placed, Expected
  <2>4. NextPending("cancel", p) = Nothing
    BY DEF NextPending
  <2> HIDE DEF x
  <2>5. Placed(x, p, s, a, failed')
    BY <2>1, <2>2, <2>3, <2>4, FitsNothing DEF Placed, Expected
  <2>6. x # Idle
    BY <2>2 DEF Idle
  <2>7. Placed(x, pending[x.user], session[x.user], asked[x.user], failed')
    BY <2>2, <2>5
  <2> QED
    BY <1>0, <2>1, <2>2, <2>6, <2>7, HandlerOnly
<1>6. CASE DeleteAndCommit(h)
  <2> DEFINE x == Call("finish", u, c.event, Nothing)
  <2>1. c.pc = "delete" /\ c.event = "cancel" /\ handler' = [handler EXCEPT ![h] = x]
        /\ session' = [session EXCEPT ![u] = Nothing]
        /\ UNCHANGED <<pending, asked, failed>>
    BY <1>0, <1>6 DEF DeleteAndCommit, Become, Placed
  <2>2. x.pc = "finish" /\ x.user = u /\ x.event = "cancel"
    BY <2>1, CallFields
  <2>3. session'[u] = Nothing /\ \A v \in Users : v # u => session'[v] = session[v]
    BY <1>0, <2>1 DEF TypeOK
  <2>4. NextPending("cancel", p) = Nothing
    BY DEF NextPending
  <2> HIDE DEF x
  <2>5. Placed(x, p, Nothing, a, failed)
    BY <2>2, <2>4, FitsNothing DEF Placed, Expected
  <2> QED
    BY <1>0, <2>1, <2>2, <2>3, <2>5, RowChanged
<1>7. CASE CallUseCase(h)
  <2>1. c.pc = "begin" /\ c.event \in UseCases /\ UNCHANGED <<session, pending, asked, failed>>
    BY <1>7 DEF CallUseCase
  <2>2. failed \/ Fits(p, s, a)
    BY <1>0, <2>1 DEF Placed, Expected, UseCases
  <2>3. CASE ~ Arguments(c)
    <3>1. handler' = [handler EXCEPT ![h] = Idle]
      BY <1>7, <2>3 DEF CallUseCase, Become
    <3> QED
      BY <1>0, <2>1, <2>2, <3>1, HandlerOnly
  <2>4. CASE Arguments(c)
    <3> DEFINE r == IF c.event \in {"reply", "question"} THEN s.draft.request ELSE Nothing
               x == Call("usecase", u, c.event, r)
    <3>1. handler' = [handler EXCEPT ![h] = x]
      BY <1>7, <2>4 DEF CallUseCase, Become
    <3>2. x.pc = "usecase" /\ x.user = u /\ x.event = c.event /\ x.request = r
      BY CallFields
    <3>3. ASSUME ~ failed, c.event \in DOMAIN AskedBy
          PROVE  a = <<AskedBy[c.event], r>>
      <4>1. p \in Waits /\ c.event = TextEvent[p] /\ Fits(p, s, a)
        BY <1>0, <2>1, <2>2, <3>3 DEF Placed, Expected
      <4>2. p \in {"clarify_answer", "admin_question"}
        BY <3>3, <4>1 DEF AskedBy, TextEvent, Waits
      <4>3. c.event \in {"reply", "question"}
        BY <3>3 DEF AskedBy
      <4>4. s # Nothing /\ s.draft.request # Nothing
        BY <2>4, <4>3 DEF Arguments
      <4> QED
        BY <4>1, <4>2, <4>3, <4>4 DEF Fits
    <3> HIDE DEF x, r
    <3>4. Placed(x, p, s, a, failed')
      BY <2>1, <2>2, <3>2, <3>3 DEF Placed, Expected
    <3>5. x # Idle
      BY <3>2 DEF Idle
    <3>6. Placed(x, pending[x.user], session[x.user], asked[x.user], failed')
      BY <3>2, <3>4
    <3> QED
      BY <1>0, <2>1, <3>1, <3>2, <3>5, <3>6, HandlerOnly
  <2> QED
    BY <2>3, <2>4
<1>8. CASE UseCaseCommits(h)
  <2> DEFINE x == Call("finish", u, c.event, c.request)
             t == IF c.event = "submit" THEN Nothing ELSE s
  <2>1. c.pc = "usecase" /\ c.event \in UseCases /\ handler' = [handler EXCEPT ![h] = x]
        /\ UNCHANGED <<pending, asked, failed>>
    BY <1>0, <1>8 DEF UseCaseCommits, Become, Placed
  <2>2. x.pc = "finish" /\ x.user = u /\ x.event = c.event
    BY CallFields
  <2>3. session'[u] = t /\ \A v \in Users : v # u => session'[v] = session[v]
    BY <1>0, <1>8 DEF UseCaseCommits, TypeOK
  <2>4. NextPending(c.event, p) = Nothing
    BY <2>1 DEF NextPending, UseCases
  <2>5. c.event \notin {"date", "guest"}
    BY <2>1 DEF UseCases
  <2> HIDE DEF x
  <2>6. Placed(x, p, t, a, failed)
    BY <2>2, <2>4, <2>5, FitsNothing DEF Placed, Expected
  <2>7. t = Nothing => s = Nothing \/ c.event = "submit"
    OBVIOUS
  <2>8. t # Nothing => HasItsKey(t)
    BY <1>0
  <2> HIDE DEF t
  <2> QED
    BY <1>0, <2>1, <2>2, <2>3, <2>6, <2>7, <2>8, RowChanged
<1>9. CASE UseCaseRefuses(h)
  <2>1. c.pc = "usecase" /\ handler' = [handler EXCEPT ![h] = Idle]
        /\ UNCHANGED <<session, pending, asked, failed>>
    BY <1>9 DEF UseCaseRefuses, Become
  <2>2. failed \/ Fits(p, s, a)
    BY <1>0, <2>1 DEF Placed, Expected
  <2> QED
    BY <1>0, <2>1, <2>2, HandlerOnly
<1>10. CASE Finish(h)
  <2> DEFINE n == NextPending(c.event, p)
  <2>1. c.pc = "finish" /\ handler' = [handler EXCEPT ![h] = Idle]
        /\ pending' = [pending EXCEPT ![u] = n]
        /\ UNCHANGED <<session, asked, failed>>
    BY <1>10 DEF Finish, Become
  <2>2. pending'[u] = n /\ \A v \in Users : v # u => pending'[v] = pending[v]
    BY <1>0, <2>1 DEF TypeOK
  <2>3. \A g \in Handlers : g = h /\ handler'[g] = Idle
    BY <2>1 DEF OneHandler, TypeOK
  <2>4. failed \/ Fits(n, s, a)
    BY <1>0, <2>1 DEF Placed, Expected
  <2>5. n \in FormTexts => s # Nothing
    <3>1. SUFFICES ASSUME s = Nothing PROVE n \notin FormTexts
      OBVIOUS
    <3>2. c.event \notin {"date", "guest"}
      BY <1>0, <2>1, <3>1 DEF Placed
    <3>3. p \in FormTexts => c.event \in {"cancel", "submit"}
      BY <1>0, <3>1 DEF WizardInv, Ending, OneHandler
    <3>4. n = Nothing \/ n = p
      BY <3>2 DEF NextPending
    <3>5. c.event \in {"cancel", "submit"} => n = Nothing
      BY DEF NextPending, UseCases
    <3> QED
      BY <3>3, <3>4, <3>5, NothingAssumption DEF FormTexts, Waits
  <2>6. ASSUME NEW v \in Users, pending'[v] \in FormTexts PROVE session'[v] # Nothing
    <3>1. CASE v = u
      BY <2>1, <2>2, <2>5, <2>6, <3>1
    <3>2. CASE v # u
      BY <2>1, <2>2, <2>3, <2>6, <3>2 DEF WizardInv, Ending
    <3> QED
      BY <3>1, <3>2
  <2>7. ASSUME NEW v \in Users
        PROVE  failed' \/ Fits(pending'[v], session'[v], asked'[v])
    <3>1. CASE v = u
      BY <2>1, <2>2, <2>4, <3>1
    <3>2. CASE v # u
      <4>1. Quiet(v)
        BY <2>3, <3>2 DEF Quiet
      <4> QED
        BY <2>1, <2>2, <3>2, <4>1 DEF WizardInv
    <3> QED
      BY <3>1, <3>2
  <2>8. \A v \in Users : session'[v] # Nothing => HasItsKey(session'[v])
    BY <2>1 DEF WizardInv
  <2> QED
    BY <2>3, <2>6, <2>7, <2>8 DEF WizardInv
<1> QED
  BY <1>1, <1>2, <1>3, <1>4, <1>5, <1>6, <1>7, <1>8, <1>9, <1>10 DEF Proceed

LEMMA NextKeeps ==
  ASSUME OneHandler, TypeOK, WizardInv, [Next]_vars
  PROVE  WizardInv'
<1>1. ASSUME NEW h \in Handlers, Receive(h) PROVE WizardInv'
  BY <1>1, ReceiveKeeps DEF Receive
<1>2. ASSUME NEW h \in Handlers, DbFails(h) PROVE WizardInv'
  <2>1. handler[h] # Idle /\ handler[h].pc # "finish"
        /\ handler' = [handler EXCEPT ![h] = Idle] /\ failed' = TRUE
        /\ UNCHANGED <<session, pending, asked>>
    BY <1>2 DEF DbFails, Become, Idle
  <2> QED
    BY <2>1, HandlerOnly
<1>3. CASE Restart
  <2>1. \A h \in Handlers : handler'[h] = Idle
    BY <1>3 DEF Restart
  <2>2. \A u \in Users : pending'[u] = Nothing
    BY <1>3 DEF Restart
  <2>3. \A u \in Users : pending'[u] \notin FormTexts
    BY <2>2, NothingAssumption DEF FormTexts, Waits
  <2>4. \A u \in Users : Fits(pending'[u], session'[u], asked'[u])
    BY <2>2, FitsNothing
  <2> QED
    BY <1>3, <2>1, <2>3, <2>4 DEF Restart, WizardInv
<1>4. CASE UNCHANGED vars
  BY <1>4, Frame DEF vars
<1> QED
  BY <1>1, <1>2, <1>3, <1>4, ProceedKeeps DEF Next

LEMMA SpecWizardInv == OneHandler => (Spec => [](TypeOK /\ WizardInv))
<1> SUFFICES ASSUME OneHandler PROVE Spec => [](TypeOK /\ WizardInv)
  OBVIOUS
<1>1. Init => TypeOK /\ WizardInv
  BY InitTyped, WizardInit
<1>2. TypeOK /\ WizardInv /\ [Next]_vars => (TypeOK /\ WizardInv)'
  BY NextTyped, NextKeeps
<1> QED
  BY <1>1, <1>2, PTL DEF Spec

(* While events are handled one at a time, a step that follows an answer of *)
(* the form finds that answer in the draft, after any buttons, failures and *)
(* restarts.                                                                *)
THEOREM PollingStepHasItsKey == OneHandler => (Spec => []StepHasItsKey)
<1>1. WizardInv => StepHasItsKey
  BY DEF WizardInv, HasItsKey, StepHasItsKey
<1> QED
  BY <1>1, SpecWizardInv, PTL

(* While events are handled one at a time, a text of the form is only       *)
(* awaited while there is a bot_sessions row to put it in.                  *)
THEOREM PollingFormTextHasSession == OneHandler => (Spec => []FormTextHasSession)
<1>1. WizardInv => FormTextHasSession
  BY DEF WizardInv, FormTexts, FormTextHasSession, Quiet, Ending, Idle
<1> QED
  BY <1>1, SpecWizardInv, PTL

(* While events are handled one at a time and no call has failed, the       *)
(* _pending_text dictionary and the row name the same text.                 *)
THEOREM PollingWaitsAgree == OneHandler => (Spec => []WaitsAgree)
<1>1. WizardInv => WaitsAgree
  BY DEF WizardInv, Fits, WaitsAgree
<1> QED
  BY <1>1, SpecWizardInv, PTL

(* While events are handled one at a time and no call has failed, an answer *)
(* or a question reaches the request whose card was tapped last, whatever   *)
(* else of the shared draft was changed in between.                         *)
THEOREM PollingAnswersWhereAsked == OneHandler => (Spec => []AnswersWhereAsked)
<1>1. WizardInv => AnswersWhereAsked
  BY DEF WizardInv, Placed, Expected, AskedBy, AnswersWhereAsked, Idle
<1> QED
  BY <1>1, SpecWizardInv, PTL
=============================================================================
