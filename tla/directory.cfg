\* First contacts, commands and start-ups, two handlers at a time.
SPECIFICATION FairSpec
CONSTANTS
  u1 = u1
  u2 = u2
  w1 = w1
  w2 = w2
  Nobody = Nobody
  Ids <- MCIds
  Workers <- MCWorkers
  Lists <- MCLists
INVARIANTS TypeOK RolesHaveSource TechAdminsInOffice
PROPERTIES AdminsStay HandlerFinishes
