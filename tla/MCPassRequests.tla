--------------------------- MODULE MCPassRequests ---------------------------
(***************************************************************************)
(* Small instances of PassRequests for TLC.                                 *)
(***************************************************************************)
EXTENDS PassRequests, TLC

CONSTANTS anna, boris, tanya,       \* users; tanya is the technical admin
          w1, w2, w3, r1, r2, r3, nobody

OneYear == {2026}
TwoYears == {2026, 2027}

AllOps == AllOperations
SubmitOps == {"submit", "consent"}
DecisionOps == RequestOps \cup {"submit", "consent"}

(* Handlers, request identifiers and plain users are interchangeable.       *)
WorkerSymmetry == Permutations(Workers)
FullSymmetry == Permutations(Workers) \cup Permutations(Requests)
                  \cup Permutations(Users \ TechAdmins)

(* No guard reads consentLog, and the runs that use this view state nothing *)
(* of it: states that differ in it alone have the same successors.          *)
WithoutConsentLog == <<year, role, consented, draft, rows, audit, seq, tx>>
=============================================================================
