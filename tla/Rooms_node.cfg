SPECIFICATION MCSpec
CONSTANTS
  r1 = r1  i1 = i1  i2 = i2
  c1 = c1  c2 = c2  c3 = c3
  Conns = {c1, c2, c3}
  Rooms = {r1}
  Ids = {i1, i2}
  RoomOf <- ConnRoom
  IdOf <- ConnId
  Factories = {f1}
  None = None
INVARIANTS RoomFollowsClients ReadyClientsListed FactoriesFollow
PROPERTY LeavesRoom
CHECK_DEADLOCK FALSE
