----------------------------- MODULE MCMiniApp -----------------------------
(* Model values for TLC: the user, the colleague of the demo data, the demo  *)
(* requests and one to create.                                              *)
EXTENDS MiniApp, TLC

CONSTANTS me, colleague, r1, r2, r3, c1, c2

MCUsers == {me, colleague}
MCRequests == {r1, r2, r3}
MCDemoRequests == {r1, r2}
MCSlots == {c1, c2}
MCMe == {me}
MCOne == {r1}

AllSymmetry == Permutations(MCRequests) \cup Permutations(MCSlots)
OpenedSymmetry == Permutations(MCRequests \ MCOne) \cup Permutations(MCSlots)
DemoSymmetry == Permutations(MCDemoRequests) \cup Permutations(MCSlots)

(* No guard reads more of the trails than their lengths, and the run that   *)
(* uses this view states nothing of them.                                   *)
WithoutEvents ==
  <<user, role, accepted, rows, [r \in Requests |-> Len(audit[r])], lastNumber,
    calls, appVars>>
=============================================================================
