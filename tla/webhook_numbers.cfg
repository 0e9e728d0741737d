\* The webhook bot: two handlers submit at once, across a New Year, and finish.
SPECIFICATION FairSpec
CONSTANTS
  anna = anna
  boris = boris
  tanya = tanya
  w1 = w1
  w2 = w2
  w3 = w3
  r1 = r1
  r2 = r2
  r3 = r3
  nobody = nobody
  Nobody = nobody
  Users = {anna}
  TechAdmins = {}
  Workers = {w1, w2}
  Requests = {r1, r2, r3}
  Years <- TwoYears
  Operations <- SubmitOps
  MaxAudit = 1
INVARIANTS NumbersExact CounterInv ConsentTrail
PROPERTIES HandlerFinishes
