CONSTANTS
  n1 = n1
  n2 = n2
  s1 = s1
  s2 = s2
  Nodes <- TwoNodes
  Peer <- OtherEnd
  Streams = {s1}
  Initiators <- AnyInitiator
  GetConnMayFail = FALSE
  DestroyTimeout = 1
  MaxPings = 1
SPECIFICATION FairSpec
CHECK_DEADLOCK FALSE
PROPERTY PendingIsRetried
