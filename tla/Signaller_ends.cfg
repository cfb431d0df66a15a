CONSTANTS
  server = server
  browser = browser
  Ends = {server, browser}
  Initiator = server
  Peer <- MCPeer
  Offers <- MCOffers
  Budgets <- MCBudgets
  None = None
SPECIFICATION FairSpec
INVARIANTS NoSendOnClosedChannel SignalsInOrder NothingLeftBehind
PROPERTY NobodyWaits
CHECK_DEADLOCK FALSE
