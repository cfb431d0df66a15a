CONSTANTS
  a = a
  b = b
  ta = ta
  Ends = {a, b}
  Tracks = {ta}
  Offers <- MCOffers
  SSRCs <- MCSSRCs
  Peer <- MCPeer
  Budgets <- MCBudgets
  None = None
SPECIFICATION FairSpec
INVARIANT EndsAgree
PROPERTIES CallsReturn TrackEnds
CHECK_DEADLOCK FALSE
