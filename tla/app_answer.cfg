\* What the page of a request in "clarification" offers.
SPECIFICATION AppSpec
CONSTANTS
  me = me
  colleague = colleague
  r1 = r1
  r2 = r2
  r3 = r3
  c1 = c1
  c2 = c2
  Nobody = Nobody
  Users <- MCUsers
  DefaultUser = me
  SessionUsers <- MCMe
  Colleague = colleague
  Requests <- MCDemoRequests
  Slots <- MCSlots
  MaxNumber = 103
  MaxAudit = 4
  Opened <- MCDemoRequests
  Patient = TRUE
SYMMETRY DemoSymmetry
INVARIANT AnswerOffered
