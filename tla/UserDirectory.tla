--------------------------- MODULE UserDirectory ---------------------------
(***************************************************************************)
(* Who is who: the users table, from an empty database over start-ups with  *)
(* changing lists of technical administrators (seed.py, bootstrap.py), the  *)
(* first contact of each user (_resolve_user, upsert_from_max) and the      *)
(* command that names administrators (SetUserRole, set_role).  The handlers *)
(* are those of one process; each transaction may meet any other one        *)
(* between its SELECT and its flush.                                        *)
(*                                                                         *)
(* PassRequests starts where this module has given everybody a row.  Names  *)
(* with an underscore are slips, see RequestStateMachine.                   *)
(***************************************************************************)
EXTENDS Naturals, Sequences, RequestStateMachine

CONSTANTS Ids,              \* MAX user ids
          Nobody,
          Workers,          \* handlers that can be in flight at once
          Lists             \* the values TECH_ADMIN_MAX_IDS can have

ASSUME DirectoryAssumption ==
  /\ Nobody \notin Ids
  /\ Lists \subseteq Seq(Ids)

VARIABLES users,            \* role of the row of each id, or NoRow
          serving,          \* the start-up is done and events are handled
          listed,           \* ids the running process was configured with
          tx,               \* what each handler is doing
          appointed,        \* history: ids seeded by some start-up
          granter,          \* history: who named an id administrator last
          renamed           \* history: ids so named since the start-up

vars == <<users, serving, listed, tx, appointed, granter, renamed>>

NoRow == "no row"

Idle == [pc |-> "idle"]

Message == [kind : {"message"}, from : Ids, target : {Nobody}]
Command == [kind : {"setadmin"}, from : Ids, target : Ids]
Event   == Message \cup Command

Transactions ==
  {Idle}
  \cup [pc : {"received"}, event : Event]
  \cup [pc : {"absent"}, event : Event]
  \cup [pc : {"found", "named", "inserted", "resolved"}, event : Event, role : Roles]
  \cup [pc : {"granting", "granted"}, event : Command, base : Roles]

TypeOK ==
  /\ users \in [Ids -> Roles \cup {NoRow}]
  /\ serving \in BOOLEAN
  /\ listed \subseteq Ids
  /\ tx \in [Workers -> Transactions]
  /\ appointed \subseteq Ids
  /\ granter \in [Ids -> Ids \cup {Nobody}]
  /\ renamed \subseteq Ids

Init ==
  /\ users = [u \in Ids |-> NoRow]
  /\ serving = FALSE
  /\ listed = {}
  /\ tx = [w \in Workers |-> Idle]
  /\ appointed = {}
  /\ granter = [u \in Ids |-> Nobody]
  /\ renamed = {}

Become(w, t) == tx' = [tx EXCEPT ![w] = t]

tableUnchanged == UNCHANGED <<users, serving, listed, appointed, granter, renamed>>

-----------------------------------------------------------------------------
(* Start-up: one transaction seeds every listed id before the first event   *)
(* is handled.  The session does not flush between its SELECTs, so an id     *)
(* that is listed twice and has no row is inserted twice: the unique         *)
(* max_user_id then ends the process, and it stays down.                     *)
ListedTwice(l) ==
  {l[i] : i \in {j \in 1..Len(l) : \E k \in 1..Len(l) : j # k /\ l[j] = l[k]}}

SeedClash(l) == \E u \in ListedTwice(l) : users[u] = NoRow

(* Slip: the seed only inserts the missing rows.                            *)
Seeded_InsertOnly(ids) ==
  [u \in Ids |-> IF u \in ids /\ users[u] = NoRow THEN "tech_admin" ELSE users[u]]

Seeded(ids) == [u \in Ids |-> IF u \in ids THEN "tech_admin" ELSE users[u]]

StartUp(l) ==
  LET ids == {l[i] : i \in 1..Len(l)} IN
  /\ ~ serving
  /\ ~ SeedClash(l)
  /\ users' = Seeded(ids)
  /\ serving' = TRUE
  /\ listed' = ids
  /\ appointed' = appointed \cup ids
  /\ renamed' = {}
  /\ UNCHANGED <<tx, granter>>

(* The end of the process rolls back what its handlers were doing.          *)
Stop ==
  /\ serving
  /\ serving' = FALSE
  /\ tx' = [w \in Workers |-> Idle]
  /\ UNCHANGED <<users, listed, appointed, granter, renamed>>

-----------------------------------------------------------------------------
(* Every handler first resolves the sender in a transaction of its own.     *)
Receive(w) ==
  /\ serving /\ tx[w] = Idle
  /\ \E e \in Event : Become(w, [pc |-> "received", event |-> e])
  /\ tableUnchanged

(* The SELECT of upsert_from_max.  A row that is there keeps its role, and   *)
(* the listed ids are not looked at; the display name is written when it is *)
(* another than the row's.                                                  *)
SelectUser_NoUpsert(w) ==      \* slip: a user without a row is not added
  LET e == tx[w].event IN
  /\ tx[w].pc = "received"
  /\ Become(w, [pc |-> "resolved", event |-> e, role |-> users[e.from]])
  /\ tableUnchanged

SelectUser(w) ==
  LET e == tx[w].event IN
  /\ tx[w].pc = "received"
  /\ IF users[e.from] = NoRow
     THEN Become(w, [pc |-> "absent", event |-> e])
     ELSE \E pc \in {"found", "resolved"} :
            Become(w, [pc |-> pc, event |-> e, role |-> users[e.from]])
  /\ tableUnchanged

(* What a flush has written it holds until its transaction ends: the row    *)
(* inserted or renamed, and the row whose role was another than "admin".    *)
Writes(t) == t.pc = "granted" /\ t.base # "admin"

RowLocked(u) ==
  \E v \in Workers : \/ tx[v].pc \in {"inserted", "named"} /\ tx[v].event.from = u
                     \/ Writes(tx[v]) /\ tx[v].event.target = u

FlushName(w) ==
  /\ tx[w].pc = "found" /\ ~ RowLocked(tx[w].event.from)
  /\ Become(w, [tx[w] EXCEPT !.pc = "named"])
  /\ tableUnchanged

(* No column but the name is written, and the role is the one selected.     *)
CommitName(w) ==
  /\ tx[w].pc = "named"
  /\ Become(w, [tx[w] EXCEPT !.pc = "resolved"])
  /\ tableUnchanged

(* Two INSERTs of one max_user_id: the later one waits for the earlier      *)
(* transaction, and fails if that has committed.                            *)
FirstRole(u) == IF u \in listed THEN "tech_admin" ELSE "initiator"

(* Slip: the failed insert is tried again in the same transaction.          *)
InsertUser_Retry(w) ==
  LET e == tx[w].event IN
  /\ tx[w].pc = "absent" /\ ~ RowLocked(e.from) /\ users[e.from] = NoRow
  /\ Become(w, [pc |-> "inserted", event |-> e, role |-> FirstRole(e.from)])
  /\ tableUnchanged

(* Slip: an upsert in the database, which overwrites a row that is there.   *)
InsertUser_OnConflictUpdate(w) ==
  LET e == tx[w].event IN
  /\ tx[w].pc = "absent" /\ ~ RowLocked(e.from)
  /\ Become(w, [pc |-> "inserted", event |-> e, role |-> FirstRole(e.from)])
  /\ tableUnchanged

InsertUser(w) ==
  LET e == tx[w].event IN
  /\ tx[w].pc = "absent" /\ ~ RowLocked(e.from)
  /\ Become(w, IF users[e.from] = NoRow
               THEN [pc |-> "inserted", event |-> e, role |-> FirstRole(e.from)]
               ELSE Idle)
  /\ tableUnchanged

CommitUser(w) ==
  LET e == tx[w].event IN
  /\ tx[w].pc = "inserted"
  /\ users' = [users EXCEPT ![e.from] = tx[w].role]
  /\ Become(w, [pc |-> "resolved", event |-> e, role |-> tx[w].role])
  /\ UNCHANGED <<serving, listed, appointed, granter, renamed>>

-----------------------------------------------------------------------------
(* The command, in a second transaction, judged by the role just resolved.  *)
LoadTarget_Unchecked(w) ==     \* slip: only the button asks for the role
  LET e == tx[w].event IN
  /\ tx[w].pc = "resolved" /\ e.kind = "setadmin"
  /\ users[e.target] # NoRow
  /\ Become(w, [pc |-> "granting", event |-> e, base |-> users[e.target]])
  /\ tableUnchanged

LoadTarget(w) ==
  LET e == tx[w].event IN
  /\ tx[w].pc = "resolved" /\ e.kind = "setadmin"
  /\ RequireTechAdmin(tx[w].role)
  /\ users[e.target] # NoRow
  /\ Become(w, [pc |-> "granting", event |-> e, base |-> users[e.target]])
  /\ tableUnchanged

(* The flush writes the role only if it is another than the one read.       *)
FlushRole(w) ==
  /\ tx[w].pc = "granting"
  /\ tx[w].base # "admin" => ~ RowLocked(tx[w].event.target)
  /\ Become(w, [tx[w] EXCEPT !.pc = "granted"])
  /\ tableUnchanged

CommitRole(w) ==
  LET e == tx[w].event IN
  /\ tx[w].pc = "granted"
  /\ IF Writes(tx[w])
     THEN /\ users' = [users EXCEPT ![e.target] = "admin"]
          /\ granter' = [granter EXCEPT ![e.target] = e.from]
          /\ renamed' = renamed \cup {e.target}
     ELSE UNCHANGED <<users, granter, renamed>>
  /\ Become(w, Idle)
  /\ UNCHANGED <<serving, listed, appointed>>

(* Another use case than this one, a refusal (Forbidden), or a target that   *)
(* nobody knows (ValueError, which no handler catches): nothing is written.  *)
Done(w) ==
  /\ tx[w].pc = "resolved"
  /\ tx[w].event.kind = "setadmin" /\ RequireTechAdmin(tx[w].role)
       => users[tx[w].event.target] = NoRow
  /\ Become(w, Idle)
  /\ tableUnchanged

(* A failure before the commit.                                             *)
RollBack(w) ==
  /\ tx[w] # Idle
  /\ Become(w, Idle)
  /\ tableUnchanged

-----------------------------------------------------------------------------
Advance(w) ==
  \/ SelectUser(w) \/ FlushName(w) \/ CommitName(w) \/ InsertUser(w) \/ CommitUser(w)
  \/ LoadTarget(w) \/ FlushRole(w) \/ CommitRole(w) \/ Done(w)

Next ==
  \/ \E l \in Lists : StartUp(l)
  \/ Stop
  \/ \E w \in Workers : Receive(w) \/ Advance(w) \/ RollBack(w)

Spec == Init /\ [][Next]_vars

(* The statements that may wait for a row.                                  *)
TakesLock(w) == FlushName(w) \/ InsertUser(w) \/ FlushRole(w)

(* As in PassRequests: a handler keeps running, and PostgreSQL serves the    *)
(* waiters of a lock in turn.                                               *)
Fairness == \A w \in Workers : WF_vars(Advance(w)) /\ SF_vars(TakesLock(w))

FairSpec == Spec /\ Fairness

-----------------------------------------------------------------------------
(* Properties of any number of handlers.                                    *)

(* Nobody who has the rights of an administrator loses them: neither to the *)
(* command, nor to a start-up with a list that no longer names the user, nor *)
(* to a first contact whose SELECT came before the row and the promotion.   *)
(* PassRequests' AuthorisedTrail rests on this.                             *)
AdminsStay ==
  [][\A u \in Ids : users[u] \in AdminRoles => users'[u] \in AdminRoles]_users

(* A role comes only from the list or from the command (README of the bot,  *)
(* "Roles"): a technical administrator has been listed at some start-up, an *)
(* administrator has been listed or was named by somebody who has been.     *)
RolesHaveSource ==
  \A u \in Ids :
    /\ users[u] = "tech_admin" => u \in appointed
    /\ users[u] = "admin" => granter[u] \in appointed

(* Whoever the running process lists is technical administrator from the    *)
(* first event on, whatever row an earlier life of the bot has left, until  *)
(* somebody names that user administrator, which takes the higher role away. *)
TechAdminsInOffice ==
  serving => \A u \in listed \ renamed : users[u] = "tech_admin"

(* Each handler ends, those that wait for the row another has inserted,     *)
(* renamed or promoted included.                                            *)
HandlerFinishes == \A w \in Workers : tx[w] # Idle ~> tx[w] = Idle
=============================================================================
