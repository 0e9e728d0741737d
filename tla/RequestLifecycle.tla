------------------------- MODULE RequestLifecycle -------------------------
(***************************************************************************)
(* What the request component promises: the life of each pass request as   *)
(* one atomic move per accepted operation, and an audit trail that records  *)
(* exactly those moves, in order.  No transactions, workers or failures.    *)
(***************************************************************************)
EXTENDS Sequences, RequestStateMachine

CONSTANTS Requests          \* the identifiers a request can be given

VARIABLES status,           \* status[r], "absent" before the request exists
          trail             \* trail[r], the statuses its audit events stand for

vars == <<status, trail>>

Init == /\ status = [r \in Requests |-> "absent"]
        /\ trail = [r \in Requests |-> << >>]

(* Every operation changes the status and appends its audit event together. *)
MoveTo(r, s) == /\ status' = [status EXCEPT ![r] = s]
                /\ trail' = [trail EXCEPT ![r] = Append(@, s)]

Submit(r) == status[r] = "absent" /\ MoveTo(r, "pending")

Decide(r, s) == <<status[r], s>> \in AdminMoves /\ MoveTo(r, s)

React(r, s) == <<status[r], s>> \in InitiatorMoves /\ MoveTo(r, s)

Next == \E r \in Requests :
          \/ Submit(r)
          \/ \E s \in Statuses : Decide(r, s) \/ React(r, s)

Spec == Init /\ [][Next]_vars
=============================================================================
