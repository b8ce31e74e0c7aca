\* Admins, adapters and inbox; no message is sent.
CONSTANTS
  i1 = i1
  foreign = foreign
  ZeroAddress = ZeroAddress
  Integrators = {i1}
  Users = {u1, u2, u3, ZeroAddress}
  Adapters = {a1, a2, a3, a4, ZeroAddress}
  ChainIds = {0, 2}
  MAX_ADAPTERS = 3
  Messages <- SomeMessages
  ourChain = 1
SYMMETRY AccountSymmetry
SPECIFICATION Spec
INVARIANTS
  TypeOK
  RegistryIndexesAgree
  SendArrayMatchesEvents
  RecvGetterMatchesEvents
  AttestationsAreAttributed
PROPERTIES
  ImplementsAdminRole
  ImplementsDelivery
CHECK_DEADLOCK FALSE
