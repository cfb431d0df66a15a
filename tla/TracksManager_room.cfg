SPECIFICATION MCSpec
CONSTANTS
  room = room  t1 = t1  t2 = t2  t3 = t3  t4 = t4  ca = ca  cb = cb  cd = cd
  None = None
  Rooms = {room}
  Clients = {t1, t3, t4}
  Transports = {t1, t2, t3, t4}
  RoomOf <- OneRoom
  ClientOf <- SameClient
  MaxManagers = 4
  Talkers = {ca, cb, cd}
INVARIANTS RoomsReachable Delivery
PROPERTIES EmptyIsClosed ChatEnds
CHECK_DEADLOCK FALSE
