SPECIFICATION FairSpec
CONSTANTS
  c1 = c1
  c2 = c2
  old = old
  Clients = {c1}
  Requests = {r1, r2}
  Fields = {1, 2}
  Queries <- AskedQueries
  Mutations <- AskedMutations
  MaxProjectsLimit = 1
  LegacyProjects = {old}
  Secrets <- SecretsHeld
  MaxUsers = 2
  MaxProjects = 3
  Faults = {"query", "save", "response"}
INVARIANTS
  TypeOK
  OneUserPerRequest
  OwnProjects
  LimitUpToRequests
PROPERTIES
  KeepsUser
  EveryRequestAnswered
