\* Admins, adapters and inbox with all events; no message is sent.
CONSTANTS
  i1 = i1
  None = None
  Integrators = {i1}
  Users = {u1, u2, u3}
  Adapters = {a1, a2, a3}
  ChainIds = {0, 1, 2}
  MaxAdapters = 2
  OutboxKeys = {}
  MaxSequence = 0
  Messages <- SomeMessages
  CHAIN_ID = 1
SYMMETRY AccountSymmetry
SPECIFICATION EventSpec
INVARIANTS
  AdapterIndexesAgree
  InitSentinelSound
  ReceivedWasAttested
  AttestationsAreAttributed
  ViewMatchesConfig
  ViewMatchesMessages
PROPERTIES
  AdaptersAppendOnly
  PendingLocksConfig
  DiscardIsForever
  ImplementsAdminRole
  ImplementsDelivery
CHECK_DEADLOCK FALSE
