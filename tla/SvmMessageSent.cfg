\* Sending and picking up, while the admin reconfigures.
CONSTANTS
  i1 = i1
  None = None
  Integrators = {i1}
  Users = {u1}
  Adapters = {a1, a2}
  ChainIds = {0, 1}
  MaxAdapters = 2
  OutboxKeys = {k1, k2}
  MaxSequence = 2
  Messages <- NoMessages
  CHAIN_ID = 1
SPECIFICATION EventSpec
PROPERTIES
  MessageSentSequence
CHECK_DEADLOCK FALSE
