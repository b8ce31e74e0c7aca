\* Nested calls of sendMessage and reconfiguration from within adapters.
CONSTANTS
  i1 = i1
  u1 = u1
  a1 = a1
  a2 = a2
  ZeroAddress = ZeroAddress
  Integrators = {i1}
  Users = {u1, ZeroAddress}
  Adapters = {a1, a2}
  ChainIds = {0, 2}
  MAX_ADAPTERS = 2
  Messages <- OneMessage
  ourChain = 1
  Prices = {0, 1}
  MaxSequence = 2
  MaxValue = 2
  MaxDepth = 2
SPECIFICATION ConfiguredSpec
INVARIANTS
  SentSequencesDense
  SentIsCarriedByAll
  FundsConserved
CHECK_DEADLOCK FALSE
