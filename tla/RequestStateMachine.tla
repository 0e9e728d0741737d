------------------------ MODULE RequestStateMachine ------------------------
(***************************************************************************)
(* The domain's rules: which status may follow which, and who may cause    *)
(* the move (domain/services/request_state_machine.py, role_policy.py,     *)
(* domain/enums.py).  Pure operators; no state.                            *)
(*                                                                         *)
(* Definitions whose name has an underscore are slips somebody could make   *)
(* in the code.  No specification uses them: substituted for the definition *)
(* of the same first name they show that a property can fail.               *)
(***************************************************************************)

Statuses == {"pending", "approved", "rejected", "clarification",
             "cancelled", "closed"}

Roles == {"initiator", "admin", "tech_admin"}

AdminRoles == {"admin", "tech_admin"}

(* RolePolicy.require_admin and require_tech_admin.  `is_active' is left    *)
(* out: no code path ever makes it false.                                   *)
RequireAdmin(role) == role \in AdminRoles

RequireTechAdmin(role) == role = "tech_admin"

(* The table of ensure_transition, one set of edges per kind of actor.      *)
AdminMoves == {<<"pending", "approved">>, <<"pending", "rejected">>,
               <<"pending", "clarification">>,
               <<"approved", "closed">>, <<"rejected", "closed">>}

InitiatorMoves == {<<"pending", "cancelled">>,
                   <<"clarification", "pending">>,
                   <<"clarification", "cancelled">>}

(* Slip: the table is looked up by the target status alone.                 *)
EnsureTransition_AnyCurrent(current, target, role, isInitiator) ==
  \/ (\E s \in Statuses : <<s, target>> \in AdminMoves) /\ role \in AdminRoles
  \/ (\E s \in Statuses : <<s, target>> \in InitiatorMoves) /\ isInitiator

EnsureTransition(current, target, role, isInitiator) ==
  \/ <<current, target>> \in AdminMoves /\ role \in AdminRoles
  \/ <<current, target>> \in InitiatorMoves /\ isInitiator

(* The statuses no edge leaves.                                             *)
Terminal == {s \in Statuses :
               \A t \in Statuses : <<s, t>> \notin AdminMoves \cup InitiatorMoves}
=============================================================================
