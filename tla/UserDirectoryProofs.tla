------------------------ MODULE UserDirectoryProofs ------------------------
(***************************************************************************)
(* UserDirectory, for any ids, handlers and lists: types, AdminsStay,       *)
(* RolesHaveSource and TechAdminsInOffice.                                  *)
(***************************************************************************)
EXTENDS UserDirectory, TLAPS

(* Handlers run only while the process serves.                              *)
DownIdle == ~ serving => \A w \in Workers : tx[w] = Idle

(* A transaction that has inserted a row is the only one to hold its id,    *)
(* and the row is not there for anybody else before the commit.             *)
InsertAlone ==
  \A w \in Workers : tx[w].pc = "inserted" =>
    /\ users[tx[w].event.from] = NoRow
    /\ \A v \in Workers :
         tx[v].pc = "inserted" /\ tx[v].event.from = tx[w].event.from => v = w

(* Whoever a handler takes for a technical administrator has been listed,   *)
(* and the target of a command under way has a row.                         *)
Entitled(w) ==
  /\ tx[w].pc = "inserted" => tx[w].role \in {"initiator", "tech_admin"}
  /\ tx[w].pc \in {"found", "named", "inserted", "resolved"} /\ tx[w].role = "tech_admin"
       => tx[w].event.from \in appointed
  /\ tx[w].pc \in {"granting", "granted"} =>
       tx[w].event.from \in appointed /\ users[tx[w].event.target] # NoRow

DirectoryInv ==
  /\ TypeOK
  /\ DownIdle
  /\ InsertAlone
  /\ \A w \in Workers : Entitled(w)
  /\ listed \subseteq appointed
  /\ RolesHaveSource
  /\ TechAdminsInOffice

-----------------------------------------------------------------------------
(* Types.                                                                   *)

(* The shapes of a transaction, read off its program counter.               *)
LEMMA Shapes ==
  ASSUME NEW t \in Transactions
  PROVE  /\ t.pc = "idle" => t = Idle
         /\ t.pc \in {"received", "absent"} => t.event \in Event
         /\ t.pc \in {"found", "named", "inserted", "resolved"} =>
              t.event \in Event /\ t.role \in Roles
         /\ t.pc \in {"granting", "granted"} => t.event \in Command /\ t.base \in Roles
  BY DEF Transactions, Idle

LEMMA EventFields ==
  /\ \A e \in Event : e.from \in Ids
  /\ \A e \in Event : e.kind = "setadmin" => e \in Command
  /\ \A e \in Command : e \in Event /\ e.from \in Ids /\ e.target \in Ids
  BY DEF Event, Message, Command

(* The records handlers write.                                              *)
LEMMA NewShapes ==
  /\ Idle \in Transactions
  /\ \A e \in Event : /\ [pc |-> "received", event |-> e] \in Transactions
                      /\ [pc |-> "absent", event |-> e] \in Transactions
  /\ \A e \in Event, r \in Roles :
       /\ [pc |-> "inserted", event |-> e, role |-> r] \in Transactions
       /\ \A pc \in {"found", "resolved"} :
            [pc |-> pc, event |-> e, role |-> r] \in Transactions
  /\ \A e \in Command, r \in Roles :
       [pc |-> "granting", event |-> e, base |-> r] \in Transactions
  BY DEF Transactions

LEMMA FlushShape ==
  ASSUME NEW t \in Transactions, t.pc = "granting"
  PROVE  /\ [t EXCEPT !.pc = "granted"] \in Transactions
         /\ [t EXCEPT !.pc = "granted"].pc = "granted"
         /\ [t EXCEPT !.pc = "granted"].event = t.event
<1>1. t \in [pc : {"granting", "granted"}, event : Command, base : Roles]
  BY DEF Transactions, Idle
<1> QED
  BY <1>1 DEF Transactions

LEMMA NameShapes ==
  ASSUME NEW t \in Transactions, t.pc \in {"found", "named"},
         NEW pc \in {"named", "resolved"}
  PROVE  /\ [t EXCEPT !.pc = pc] \in Transactions
         /\ [t EXCEPT !.pc = pc].pc = pc
         /\ [t EXCEPT !.pc = pc].event = t.event
         /\ [t EXCEPT !.pc = pc].role = t.role
<1>1. t \in [pc : {"found", "named", "inserted", "resolved"}, event : Event,
           role : Roles]
  BY DEF Transactions, Idle
<1> QED
  BY <1>1 DEF Transactions

LEMMA BecomeType ==
  ASSUME NEW w \in Workers, NEW x \in Transactions,
         tx \in [Workers -> Transactions], Become(w, x)
  PROVE  /\ tx' \in [Workers -> Transactions]
         /\ tx'[w] = x
         /\ \A v \in Workers : v # w => tx'[v] = tx[v]
  BY DEF Become

(* The record each action leaves, and that it is one.                       *)
LEMMA StepShape ==
  ASSUME TypeOK, NEW w \in Workers, Receive(w) \/ Advance(w) \/ RollBack(w)
  PROVE  \E x \in Transactions : Become(w, x)
<1>0. tx[w] \in Transactions
  BY DEF TypeOK
<1>1. CASE Receive(w)
  BY <1>1, NewShapes DEF Receive
<1>2. CASE SelectUser(w)
  BY <1>0, <1>2, Shapes, NewShapes, EventFields DEF SelectUser, TypeOK
<1>3. CASE InsertUser(w)
  <2>1. FirstRole(tx[w].event.from) \in Roles
    BY DEF FirstRole, Roles
  <2> QED
    BY <1>0, <1>3, <2>1, Shapes, NewShapes DEF InsertUser
<1>4. CASE CommitUser(w)
  BY <1>0, <1>4, Shapes, NewShapes DEF CommitUser
<1>5. CASE LoadTarget(w)
  BY <1>0, <1>5, Shapes, NewShapes, EventFields DEF LoadTarget, TypeOK
<1>6. CASE FlushRole(w)
  BY <1>0, <1>6, FlushShape DEF FlushRole
<1>7. CASE CommitRole(w) \/ Done(w) \/ RollBack(w)
  BY <1>7, NewShapes DEF CommitRole, Done, RollBack
<1>8. CASE FlushName(w) \/ CommitName(w)
  BY <1>0, <1>8, NameShapes DEF FlushName, CommitName
<1> QED
  BY <1>1, <1>2, <1>3, <1>4, <1>5, <1>6, <1>7, <1>8 DEF Advance

(* Every step keeps the types.                                              *)
LEMMA NextType == TypeOK /\ [Next]_vars => TypeOK'
<1> SUFFICES ASSUME TypeOK, [Next]_vars PROVE TypeOK'
  OBVIOUS
<1>1. ASSUME NEW l \in Lists, StartUp(l) PROVE TypeOK'
  <2>1. {l[i] : i \in 1..Len(l)} \subseteq Ids
    BY DirectoryAssumption DEF DirectoryAssumption
  <2> DEFINE ids == {l[i] : i \in 1..Len(l)}
  <2>2. Seeded(ids) \in [Ids -> Roles \cup {NoRow}]
    BY DEF TypeOK, Seeded, Roles
  <2>3. users' = Seeded(ids) /\ serving' = TRUE /\ listed' = ids
        /\ appointed' = appointed \cup ids /\ renamed' = {}
        /\ UNCHANGED <<tx, granter>>
    BY <1>1 DEF StartUp
  <2> QED
    BY <2>1, <2>2, <2>3 DEF TypeOK
<1>2. CASE Stop
  BY <1>2, NewShapes DEF Stop, TypeOK
<1>3. ASSUME NEW w \in Workers, Receive(w) \/ Advance(w) \/ RollBack(w)
      PROVE  TypeOK'
  <2>1. tx' \in [Workers -> Transactions]
    BY <1>3, StepShape, BecomeType DEF TypeOK
  <2>2. CASE CommitUser(w)
    <3>1. tx[w].event.from \in Ids /\ tx[w].role \in Roles
      BY <2>2, Shapes, EventFields DEF CommitUser, TypeOK
    <3> QED
      BY <2>1, <2>2, <3>1 DEF CommitUser, TypeOK
  <2>3. CASE CommitRole(w)
    <3>1. tx[w].event.from \in Ids /\ tx[w].event.target \in Ids
      BY <2>3, Shapes, EventFields DEF CommitRole, TypeOK
    <3> QED
      BY <2>1, <2>3, <3>1 DEF CommitRole, TypeOK, Roles
  <2>4. CASE ~ CommitUser(w) /\ ~ CommitRole(w)
    <3>1. tableUnchanged
      BY <1>3, <2>4 DEF Advance, Receive, SelectUser, FlushName, CommitName,
                        InsertUser, LoadTarget,
                        FlushRole, Done, RollBack
    <3> QED
      BY <2>1, <3>1 DEF tableUnchanged, TypeOK
  <2> QED
    BY <2>2, <2>3, <2>4
<1>4. CASE UNCHANGED vars
  BY <1>4 DEF vars, TypeOK
<1> QED
  BY <1>1, <1>2, <1>3, <1>4 DEF Next

LEMMA InitType == Init => TypeOK
  BY NewShapes DEF Init, TypeOK, NoRow

-----------------------------------------------------------------------------
(* The invariant.                                                           *)

(* Besides the commits, a step of a handler changes its own record only, to *)
(* one of these.                                                            *)
LEMMA OtherSteps ==
  ASSUME DirectoryInv, NEW w \in Workers, Receive(w) \/ Advance(w) \/ RollBack(w),
         ~ CommitUser(w), ~ CommitRole(w)
  PROVE  /\ tableUnchanged
         /\ \A v \in Workers : v # w => tx'[v] = tx[v]
         /\ Entitled(w)'
         /\ tx'[w].pc = "inserted" =>
              /\ users[tx'[w].event.from] = NoRow
              /\ ~ RowLocked(tx'[w].event.from)
<1> USE DEF DirectoryInv, TypeOK
<1>0. tx[w] \in Transactions
  OBVIOUS
<1>1. CASE Receive(w) \/ Done(w) \/ RollBack(w)
  <2>1. CASE Receive(w)
    <3>1. PICK e \in Event : Become(w, [pc |-> "received", event |-> e])
      BY <2>1 DEF Receive
    <3> QED
      BY <2>1, <3>1 DEF Become, Entitled, Receive, tableUnchanged
  <2>2. CASE Done(w) \/ RollBack(w)
    BY <2>2 DEF Become, Entitled, Done, RollBack, tableUnchanged, Idle
  <2> QED
    BY <1>1, <2>1, <2>2
<1>2. CASE SelectUser(w)
  <2>1. tx[w].event.from \in Ids
    BY <1>0, <1>2, Shapes, EventFields DEF SelectUser
  <2>2. CASE users[tx[w].event.from] = NoRow
    BY <1>2, <2>2 DEF SelectUser, Become, Entitled, tableUnchanged
  <2>3. CASE users[tx[w].event.from] # NoRow
    <3>1. PICK pc \in {"found", "resolved"} :
            Become(w, [pc |-> pc, event |-> tx[w].event, role |-> users[tx[w].event.from]])
      BY <1>2, <2>3 DEF SelectUser
    <3> QED
      BY <1>2, <2>1, <3>1 DEF SelectUser, Become, Entitled, tableUnchanged, RolesHaveSource
  <2> QED
    BY <2>2, <2>3
<1>3. CASE InsertUser(w)
  <2>1. FirstRole(tx[w].event.from) \in {"initiator", "tech_admin"}
        /\ (FirstRole(tx[w].event.from) = "tech_admin" => tx[w].event.from \in appointed)
    BY DEF FirstRole
  <2> QED
    BY <1>3, <2>1 DEF InsertUser, Become, Entitled, tableUnchanged, Idle
<1>4. CASE LoadTarget(w)
  <2>1. tx[w].event.from \in appointed
    BY <1>4 DEF LoadTarget, Entitled, RequireTechAdmin
  <2> QED
    BY <1>4, <2>1 DEF LoadTarget, Become, Entitled, tableUnchanged
<1>5. CASE FlushRole(w)
  <2>1. tx[w].event.from \in appointed /\ users[tx[w].event.target] # NoRow
    BY <1>5 DEF FlushRole, Entitled
  <2> QED
    BY <1>0, <1>5, <2>1, FlushShape DEF FlushRole, Become, Entitled, tableUnchanged
<1>6. CASE FlushName(w) \/ CommitName(w)
  <2>1. PICK pc \in {"named", "resolved"} : Become(w, [tx[w] EXCEPT !.pc = pc])
    BY <1>6 DEF FlushName, CommitName
  <2>2. tx[w].pc \in {"found", "named"} /\ tableUnchanged
    BY <1>6 DEF FlushName, CommitName
  <2> DEFINE x == [tx[w] EXCEPT !.pc = pc]
  <2>3. /\ x.pc = pc /\ x.event = tx[w].event /\ x.role = tx[w].role
        /\ tx[w].role = "tech_admin" => tx[w].event.from \in appointed
    BY <1>0, <2>2, NameShapes DEF Entitled
  <2> HIDE DEF x
  <2>4. tx'[w] = x /\ \A v \in Workers : v # w => tx'[v] = tx[v]
    BY <2>1 DEF Become, x
  <2> QED
    BY <2>2, <2>3, <2>4 DEF Entitled, tableUnchanged
<1> QED
  BY <1>1, <1>2, <1>3, <1>4, <1>5, <1>6 DEF Advance

(* A first contact that commits fills an empty place of the table.          *)
LEMMA CommitUserInv ==
  ASSUME DirectoryInv, NEW w \in Workers, CommitUser(w)
  PROVE  /\ InsertAlone' /\ RolesHaveSource' /\ TechAdminsInOffice'
         /\ \A v \in Workers : Entitled(v)'
<1> USE DEF DirectoryInv, TypeOK
<1> DEFINE u == tx[w].event.from
<1>1. /\ tx[w].pc = "inserted" /\ users[u] = NoRow /\ u \in Ids
      /\ tx[w].role \in {"initiator", "tech_admin"}
      /\ tx[w].role = "tech_admin" => u \in appointed
  BY Shapes, EventFields DEF CommitUser, InsertAlone, Entitled
<1>2. /\ users' = [users EXCEPT ![u] = tx[w].role]
      /\ tx' = [tx EXCEPT ![w] = [pc |-> "resolved", event |-> tx[w].event,
                                  role |-> tx[w].role]]
      /\ UNCHANGED <<serving, listed, appointed, granter, renamed>>
  BY DEF CommitUser, Become
<1>3. InsertAlone'
  <2> SUFFICES ASSUME NEW v \in Workers, tx'[v].pc = "inserted"
               PROVE  /\ users'[tx'[v].event.from] = NoRow
                      /\ \A x \in Workers :
                           tx'[x].pc = "inserted"
                           /\ tx'[x].event.from = tx'[v].event.from => x = v
    BY DEF InsertAlone
  <2>1. v # w /\ tx'[v] = tx[v]
    BY <1>2
  <2>2. tx[v].event.from # u
    BY <1>1, <2>1 DEF InsertAlone
  <2>3. users'[tx[v].event.from] = NoRow
    BY <1>2, <2>1, <2>2 DEF InsertAlone
  <2>4. \A x \in Workers : tx'[x].pc = "inserted" => tx'[x] = tx[x]
    BY <1>2
  <2> QED
    BY <2>1, <2>3, <2>4 DEF InsertAlone
<1>4. RolesHaveSource'
  BY <1>1, <1>2 DEF RolesHaveSource
<1>5. TechAdminsInOffice'
  BY <1>1, <1>2 DEF TechAdminsInOffice, NoRow
<1>6. \A v \in Workers : Entitled(v)'
  BY <1>1, <1>2 DEF Entitled
<1> QED
  BY <1>3, <1>4, <1>5, <1>6

(* A command that commits is by somebody who has been listed.               *)
LEMMA CommitRoleInv ==
  ASSUME DirectoryInv, NEW w \in Workers, CommitRole(w)
  PROVE  /\ InsertAlone' /\ RolesHaveSource' /\ TechAdminsInOffice'
         /\ \A v \in Workers : Entitled(v)'
<1> USE DEF DirectoryInv, TypeOK
<1> DEFINE u == tx[w].event.target
<1>1. /\ tx[w].pc = "granted" /\ users[u] # NoRow /\ u \in Ids
      /\ tx[w].event.from \in appointed
  BY Shapes, EventFields DEF CommitRole, Entitled
<1>2. /\ tx' = [tx EXCEPT ![w] = Idle]
      /\ UNCHANGED <<serving, listed, appointed>>
  BY DEF CommitRole, Become
<1>3. \/ /\ users' = [users EXCEPT ![u] = "admin"]
         /\ granter' = [granter EXCEPT ![u] = tx[w].event.from]
         /\ renamed' = renamed \cup {u}
      \/ UNCHANGED <<users, granter, renamed>>
  BY DEF CommitRole
<1>4. InsertAlone'
  <2>1. \A v \in Workers : tx'[v].pc = "inserted" => v # w /\ tx'[v] = tx[v]
    BY <1>2 DEF Idle
  <2>2. \A x \in Ids : users[x] = NoRow => users'[x] = NoRow
    BY <1>1, <1>3
  <2>3. \A v \in Workers : tx[v].pc = "inserted" => tx[v].event.from \in Ids
    BY Shapes, EventFields
  <2> QED
    BY <2>1, <2>2, <2>3 DEF InsertAlone
<1>5. RolesHaveSource'
  BY <1>1, <1>2, <1>3 DEF RolesHaveSource
<1>6. TechAdminsInOffice'
  BY <1>1, <1>2, <1>3 DEF TechAdminsInOffice
<1>7. \A v \in Workers : Entitled(v)'
  <2>1. \A x \in Ids : users[x] # NoRow => users'[x] # NoRow
    BY <1>1, <1>3 DEF NoRow
  <2>2. \A v \in Workers : tx[v].pc \in {"granting", "granted"}
          => tx[v].event.target \in Ids
    BY Shapes, EventFields
  <2> QED
    BY <1>1, <1>2, <2>1, <2>2 DEF Entitled, Idle
<1> QED
  BY <1>4, <1>5, <1>6, <1>7

LEMMA NextInv == DirectoryInv /\ [Next]_vars => DirectoryInv'
<1> SUFFICES ASSUME DirectoryInv, [Next]_vars PROVE DirectoryInv'
  OBVIOUS
<1>0. TypeOK'
  BY NextType DEF DirectoryInv
<1>1. ASSUME NEW l \in Lists, StartUp(l) PROVE DirectoryInv'
  <2> DEFINE ids == {l[i] : i \in 1..Len(l)}
  <2>1. /\ users' = Seeded(ids) /\ listed' = ids /\ appointed' = appointed \cup ids
        /\ renamed' = {} /\ UNCHANGED <<tx, granter>>
    BY <1>1 DEF StartUp
  <2>2. ids \subseteq Ids
    BY DirectoryAssumption DEF DirectoryAssumption
  <2> HIDE DEF ids
  <2>3. \A u \in Ids : users'[u] = IF u \in ids THEN "tech_admin" ELSE users[u]
    BY <2>1 DEF Seeded
  <2>4. \A w \in Workers : tx[w] = Idle
    BY <1>1 DEF StartUp, DirectoryInv, DownIdle
  <2>5. InsertAlone' /\ (\A w \in Workers : Entitled(w)')
    BY <2>1, <2>4 DEF InsertAlone, Entitled, Idle
  <2>6. RolesHaveSource'
    BY <2>1, <2>3 DEF DirectoryInv, RolesHaveSource
  <2>7. TechAdminsInOffice'
    BY <2>1, <2>2, <2>3 DEF TechAdminsInOffice
  <2>8. listed' \subseteq appointed'
    BY <2>1
  <2>9. DownIdle'
    BY <1>1, <2>1, <2>4 DEF DownIdle
  <2> QED
    BY <1>0, <2>5, <2>6, <2>7, <2>8, <2>9 DEF DirectoryInv
<1>2. CASE Stop
  BY <1>0, <1>2 DEF Stop, DirectoryInv, InsertAlone, Entitled, RolesHaveSource,
                    TechAdminsInOffice, DownIdle, Idle
<1>3. ASSUME NEW w \in Workers, Receive(w) \/ Advance(w) \/ RollBack(w)
      PROVE  DirectoryInv'
  <2>1. serving /\ serving' = serving
    <3>1. CASE Receive(w)
      BY <3>1 DEF Receive, tableUnchanged
    <3>2. CASE Advance(w) \/ RollBack(w)
      <4>1. tx[w] # Idle
        BY <3>2 DEF Advance, SelectUser, FlushName, CommitName, InsertUser,
                    CommitUser, LoadTarget,
                    FlushRole, CommitRole, Done, RollBack, Idle
      <4>2. serving
        BY <4>1 DEF DirectoryInv, DownIdle
      <4> QED
        BY <3>2, <4>2 DEF Advance, SelectUser, FlushName, CommitName, InsertUser,
                    CommitUser, LoadTarget,
                    FlushRole, CommitRole, Done, RollBack, tableUnchanged
    <3> QED
      BY <1>3, <3>1, <3>2
  <2>2. DownIdle'
    BY <2>1 DEF DownIdle
  <2>3. CASE CommitUser(w)
    BY <1>0, <2>2, <2>3, CommitUserInv DEF CommitUser, DirectoryInv
  <2>4. CASE CommitRole(w)
    BY <1>0, <2>2, <2>4, CommitRoleInv DEF CommitRole, DirectoryInv
  <2>5. CASE ~ CommitUser(w) /\ ~ CommitRole(w)
    <3>1. /\ UNCHANGED <<users, serving, listed, appointed, granter, renamed>>
          /\ \A v \in Workers : v # w => tx'[v] = tx[v]
          /\ Entitled(w)'
          /\ tx'[w].pc = "inserted" =>
               /\ users[tx'[w].event.from] = NoRow
               /\ ~ RowLocked(tx'[w].event.from)
      BY <1>3, <2>5, OtherSteps DEF tableUnchanged
    <3>2. InsertAlone'
      BY <3>1 DEF DirectoryInv, InsertAlone, RowLocked
    <3>3. \A v \in Workers : Entitled(v)'
      BY <3>1 DEF DirectoryInv, Entitled
    <3> QED
      BY <1>0, <2>2, <3>1, <3>2, <3>3 DEF DirectoryInv, RolesHaveSource, TechAdminsInOffice
  <2> QED
    BY <2>3, <2>4, <2>5
<1>4. CASE UNCHANGED vars
  BY <1>0, <1>4 DEF vars, DirectoryInv, InsertAlone, Entitled, RolesHaveSource,
                    TechAdminsInOffice, DownIdle
<1> QED
  BY <1>1, <1>2, <1>3, <1>4 DEF Next

LEMMA InitInv == Init => DirectoryInv
<1> SUFFICES ASSUME Init PROVE DirectoryInv
  OBVIOUS
<1>1. \A w \in Workers : tx[w] = Idle
  BY DEF Init
<1>2. InsertAlone /\ DownIdle /\ \A w \in Workers : Entitled(w)
  BY <1>1 DEF InsertAlone, DownIdle, Entitled, Idle
<1>3. RolesHaveSource /\ TechAdminsInOffice /\ listed \subseteq appointed
  BY DEF Init, RolesHaveSource, TechAdminsInOffice, NoRow
<1> QED
  BY <1>2, <1>3, InitType DEF DirectoryInv

(* The invariant holds throughout.                                          *)
LEMMA SpecInv == Spec => []DirectoryInv
<1> QED
  BY InitInv, NextInv, PTL DEF Spec

-----------------------------------------------------------------------------
(* The users table and the handlers' records keep their types, over any     *)
(* number of start-ups, first contacts and commands.                        *)
THEOREM SpecTypeOK == Spec => []TypeOK
<1>1. DirectoryInv => TypeOK
  BY DEF DirectoryInv
<1> QED
  BY <1>1, SpecInv, PTL

(* Every role in the users table comes from a list that was configured, or  *)
(* from a command of somebody who had been on one (seed.py, SetUserRole).   *)
THEOREM SpecRolesHaveSource == Spec => []RolesHaveSource
<1>1. DirectoryInv => RolesHaveSource
  BY DEF DirectoryInv
<1> QED
  BY <1>1, SpecInv, PTL

(* While events are handled, the listed ids are technical administrators    *)
(* unless a command has renamed them since the start-up (seed_database).    *)
THEOREM SpecTechAdminsInOffice == Spec => []TechAdminsInOffice
<1>1. DirectoryInv => TechAdminsInOffice
  BY DEF DirectoryInv
<1> QED
  BY <1>1, SpecInv, PTL

(* No step takes an administrator's rights away: a first contact only       *)
(* commits where there is no row, and the seed and the command only write   *)
(* roles with those rights (upsert_from_max, set_role, seed_database).      *)
THEOREM SpecAdminsStay == Spec => AdminsStay
<1> DEFINE Kept == \A u \in Ids : users[u] \in AdminRoles => users'[u] \in AdminRoles
<1>1. DirectoryInv /\ [Next]_vars => [Kept]_users
  <2> SUFFICES ASSUME DirectoryInv, [Next]_vars PROVE [Kept]_users
    OBVIOUS
  <2>1. ASSUME NEW l \in Lists, StartUp(l) PROVE Kept
    BY <2>1 DEF StartUp, Seeded, AdminRoles
  <2>2. ASSUME NEW w \in Workers, CommitUser(w) PROVE Kept
    <3>1. users[tx[w].event.from] = NoRow
      BY <2>2 DEF DirectoryInv, InsertAlone, CommitUser
    <3> QED
      BY <2>2, <3>1 DEF CommitUser, DirectoryInv, TypeOK, AdminRoles, NoRow
  <2>3. ASSUME NEW w \in Workers, CommitRole(w) PROVE Kept
    BY <2>3 DEF CommitRole, DirectoryInv, TypeOK, AdminRoles
  <2>4. ASSUME NEW w \in Workers, Receive(w) \/ Advance(w) \/ RollBack(w),
               ~ CommitUser(w), ~ CommitRole(w)
        PROVE  UNCHANGED users
    BY <2>4, OtherSteps DEF tableUnchanged
  <2>5. CASE Stop \/ UNCHANGED vars
    BY <2>5 DEF Stop, vars
  <2> QED
    BY <2>1, <2>2, <2>3, <2>4, <2>5 DEF Next
<1> QED
  BY <1>1, SpecInv, PTL DEF Spec, AdminsStay
=============================================================================
