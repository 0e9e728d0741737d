\* The mini-app on the mock API: the SDK names one of two
\* users at each session call, and the user leaves any page at any time.
SPECIFICATION AppSpec
CONSTANTS
  me = me
  colleague = colleague
  r1 = r1
  r2 = r2
  r3 = r3
  c1 = c1
  c2 = c2
  Nobody = Nobody
  Users <- MCUsers
  DefaultUser = me
  SessionUsers <- MCUsers
  Colleague = colleague
  Requests <- MCRequests
  Slots <- MCSlots
  MaxNumber = 103
  MaxAudit = 2
  Opened = {}
  Patient = FALSE
SYMMETRY AllSymmetry
INVARIANTS AppTypeOK ConsentBeforeRequest SessionSettles
