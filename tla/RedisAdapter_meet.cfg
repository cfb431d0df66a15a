SPECIFICATION Spec
CONSTANTS
  n1 = n1  n2 = n2  a = a  b = b  p = p
  Nodes = {n1, n2}
  Clients = {a, b}
  NodeOf <- MCNodeOf
  Stay = {}
  MaxSessions = 1
  Handlers = {"mesh"}
  WritesFail = FALSE
CHECK_DEADLOCK FALSE
INVARIANT ReadyClientsMeet
