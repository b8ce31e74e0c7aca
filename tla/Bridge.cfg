\* Two messages, two adapters that keep trying, both admins at work.
CONSTANTS
  u1 = u1
  a1 = a1
  a2 = a2
  None = None
  ZeroAddress = ZeroAddress
  Contract = contract
  Integrators = {i1}
  Users = {u1}
  Adapters = {a1, a2}
  ChainIds = {0, 1, 2}
  MaxAdapters = 2
  OutboxKeys = {k1, k2}
  MaxSequence = 2
  Messages <- NoMessages
  CHAIN_ID = 1
  EvmChain = 2
SPECIFICATION BridgeSpec
INVARIANTS
  NothingFromNowhere
PROPERTIES
  SentIsReceivedAndAttested
CHECK_DEADLOCK FALSE
