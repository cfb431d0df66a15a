CONSTANTS
  n1 = n1
  n2 = n2
  s1 = s1
  s2 = s2
  Nodes <- TwoNodes
  Peer <- OtherEnd
  Streams = {s1}
  Initiators <- AnyInitiator
  GetConnMayFail = FALSE
  DestroyTimeout = 0
  MaxPings = 0
SPECIFICATION Spec
CHECK_DEADLOCK FALSE
INVARIANT CrossingIsAcked
