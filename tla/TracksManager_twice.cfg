SPECIFICATION TracksSpec
CONSTANTS
  room = room  t1 = t1  t2 = t2  t3 = t3  t4 = t4  ca = ca  cb = cb  cd = cd
  None = None
  Rooms = {room}
  Clients = {t1, t3}
  Transports = {t1, t2, t3}
  RoomOf <- OneRoom
  ClientOf <- SameClient
  MaxManagers = 4
  Talkers = {ca, cb, cd}
CHECK_DEADLOCK FALSE
INVARIANT ClosedOnce
