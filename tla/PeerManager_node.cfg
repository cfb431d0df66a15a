SPECIFICATION NodesSpec
CONSTANTS
  a = a  b = b  s = s  a1 = a1  a2 = a2  b1 = b1  s1 = s1  t1 = t1  t2 = t2
  None = None
  Clients = {a, b, s}
  Transports = {a1, a2, b1, s1}
  Servers = {s1}
  Tracks = {t1, t2}
  ClientOf <- MCClientOf
  Remote <- MCRemote
CHECK_DEADLOCK FALSE
INVARIANT NodeCarriesAll
