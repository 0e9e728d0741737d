\* The webhook bot: two handlers on one request.
SPECIFICATION Spec
CONSTANTS
  anna = anna
  boris = boris
  tanya = tanya
  w1 = w1
  w2 = w2
  w3 = w3
  r1 = r1
  r2 = r2
  r3 = r3
  nobody = nobody
  Nobody = nobody
  Users = {anna, tanya}
  TechAdmins = {tanya}
  Workers = {w1, w2}
  Requests = {r1}
  Years <- OneYear
  Operations <- DecisionOps
  MaxAudit = 3
PROPERTIES TerminalStable
