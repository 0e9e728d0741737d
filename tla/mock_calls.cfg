\* The mock API: two calls in flight, from anybody.
SPECIFICATION Spec
CONSTANTS
  me = me
  colleague = colleague
  r1 = r1
  r2 = r2
  c1 = c1
  c2 = c2
  Nobody = Nobody
  Users <- MCUsers
  DefaultUser = me
  SessionUsers <- MCMe
  Colleague = colleague
  Requests <- MCDemoRequests
  Slots <- MCSlots
  MaxNumber = 101
  MaxAudit = 3
SYMMETRY DemoSymmetry
INVARIANT TypeOK
INVARIANT StatusIsLastEvent
INVARIANT ColumnsAgree
PROPERTY MovesOfLifecycle
