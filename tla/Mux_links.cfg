SPECIFICATION MCSpec
CONSTANTS
  Keys = {s1, s2}
  MaxConns = 2
  MaxPackets = 2
  ReadChanSize = 1
  Addrs = {a1, a2}
  MaxFactories = 2
  None = None
INVARIANTS NoDoubleClose OneFactoryPerAddress FactoriesEnd
PROPERTIES KeepsPromise CloseEnds RequestAnswered
CHECK_DEADLOCK FALSE
