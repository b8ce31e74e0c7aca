\* The events of the functions that mark a message executed.
CONSTANTS
  i1 = i1
  foreign = foreign
  ZeroAddress = ZeroAddress
  Integrators = {i1}
  Users = {u1, u2, ZeroAddress}
  Adapters = {a1, a2, a3}
  ChainIds = {0, 2}
  MAX_ADAPTERS = 2
  Messages <- SomeMessages
  ourChain = 1
SPECIFICATION Spec
INVARIANTS
  DeliveryIsTraceable
CHECK_DEADLOCK FALSE
