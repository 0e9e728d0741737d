\* The long-polling bot: one user, any old button, failing calls, restarts.
SPECIFICATION Spec
CONSTANTS
  anna = anna
  h1 = h1
  r1 = r1
  r2 = r2
  nothing = nothing
  Users = {anna}
  Techs = {anna}
  Handlers = {h1}
  Requests = {r1, r2}
  Nothing = nothing
  DbFailures = TRUE
INVARIANTS TypeOK FormTextHasSession WaitsAgree AnswersWhereAsked StepHasItsKey
