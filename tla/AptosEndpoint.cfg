\* Admins, adapters, outbox and inbox together.
CONSTANTS
  i1 = i1
  None = None
  ZeroAddress = ZeroAddress
  Integrators = {i1}
  Users = {u1, u2, ZeroAddress}
  Adapters = {a1, a2, a3}
  ChainIds = {1}
  MAX_ADAPTERS = 2
  MaxSequence = 2
  Messages <- OneMessage
SPECIFICATION FairSpec
INVARIANTS
  TypeOK
  AdapterTablesAgree
  AttestationsAreAttributed
PROPERTIES
  ImplementsAdminRole
  ImplementsDelivery
  ImplementsOutbox
CHECK_DEADLOCK FALSE
