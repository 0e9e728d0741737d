----------------------------- MODULE MCMockApi -----------------------------
(***************************************************************************)
(* Small instances of MockApi for TLC: the person at the page, the colleague *)
(* of the demo data and the two demo requests.                              *)
(***************************************************************************)
EXTENDS MockApi, TLC

CONSTANTS me, colleague, r1, r2, c1, c2

MCUsers == {me, colleague}
MCDemoRequests == {r1, r2}
MCSlots == {c1, c2}
MCMe == {me}

DemoSymmetry == Permutations(MCDemoRequests) \cup Permutations(MCSlots)
=============================================================================
