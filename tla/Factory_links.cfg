CONSTANTS
  n1 = n1
  n2 = n2
  s1 = s1
  s2 = s2
  Nodes <- TwoNodes
  Peer <- OtherEnd
  Streams = {s1, s2}
  Initiators <- MixedInitiators
  GetConnMayFail = TRUE
  DestroyTimeout = 1
  MaxPings = 1
SPECIFICATION FairSpec
INVARIANTS AddedOnBothSides IInv NoUnexpectedEvent
PROPERTIES RemoteRemovedFirst HandshakeEnds PeerFollows
CHECK_DEADLOCK FALSE
