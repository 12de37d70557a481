SPECIFICATION Spec
CHECK_DEADLOCK FALSE
CONSTANTS
  Users = {a, o}
  Projects = {p}
  Threads = {t1, t2}
  MaxRequests = 2
  Starters = {api, worker}
  Api = api
  FirstAdmin = a
  MaxKills = 1
INVARIANTS
  TypeOK
  SchemaWhole
  AdminRemains
  MembersAreOperators
PROPERTIES
  NoGrantByStart
  StartsEnd
