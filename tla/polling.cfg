\* The long-polling bot: one event at a time, the whole life of two requests.
SPECIFICATION Spec
CONSTANTS
  anna = anna
  boris = boris
  tanya = tanya
  w1 = w1
  w2 = w2
  w3 = w3
  r1 = r1
  r2 = r2
  r3 = r3
  nobody = nobody
  Nobody = nobody
  Users = {anna, tanya}
  TechAdmins = {tanya}
  Workers = {w1}
  Requests = {r1, r2}
  Years <- OneYear
  Operations <- AllOps
  MaxAudit = 4
INVARIANTS TypeOK ColumnsAgree
PROPERTIES TerminalStable LifecycleSpec SubmitConsumesDraft
SYMMETRY FullSymmetry
