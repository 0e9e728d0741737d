\* The mini-app on the mock API: two calls in flight, a patient user.
SPECIFICATION AppSpec
CONSTANTS
  me = me
  colleague = colleague
  r1 = r1
  r2 = r2
  r3 = r3
  c1 = c1
  c2 = c2
  Nobody = Nobody
  Users <- MCUsers
  DefaultUser = me
  SessionUsers <- MCMe
  Colleague = colleague
  Requests <- MCRequests
  Slots <- MCSlots
  MaxNumber = 103
  MaxAudit = 2
  Opened <- MCOne
  Patient = TRUE
SYMMETRY OpenedSymmetry
VIEW WithoutEvents
INVARIANTS ShowsTruth
