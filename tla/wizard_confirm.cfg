\* What the user is asked to confirm.
SPECIFICATION Spec
CONSTANTS
  anna = anna
  h1 = h1
  r1 = r1
  r2 = r2
  nothing = nothing
  Users = {anna}
  Techs = {anna}
  Handlers = {h1}
  Requests = {r1}
  Nothing = nothing
  DbFailures = FALSE
INVARIANTS ConfirmComplete
