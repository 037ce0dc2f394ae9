SPECIFICATION Spec
CONSTANTS
  t1 = t1
  t2 = t2
  WalletTx <- MCWalletTx
  MaxHeights = 5
  MaxWeight = 64
  MaxBlocks = 3
  Fillers = {2}
  Paid <- MCPaid
  Rates <- MCRates
  MaxRequests = 2
  MaxCount = 3
  Counts = {1, 3}
  Protocols = {"1.4", "1.6"}
INVARIANTS
  MessagesDecode
  GivenHeadersAreTrue
  StatusTellsHistory
  CoinsAddUp
  RatesAreClose
  ScansAreAsked
  ProofsFitHeaders
  IInv
CHECK_DEADLOCK FALSE
