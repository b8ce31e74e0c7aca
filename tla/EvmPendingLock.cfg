\* Admin and adapter functions, with room for three of four adapters.
CONSTANTS
  i1 = i1
  foreign = foreign
  ZeroAddress = ZeroAddress
  Integrators = {i1}
  Users = {u1, u2, ZeroAddress}
  Adapters = {a1, a2, a3, a4, ZeroAddress}
  ChainIds = {0, 1}
  MAX_ADAPTERS = 3
  Messages <- NoMessages
  ourChain = 1
SPECIFICATION Spec
PROPERTIES
  PendingLocksConfig
CHECK_DEADLOCK FALSE
