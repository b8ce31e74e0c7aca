\* Admins and adapters only: no message is ever sent or attested to.
CONSTANTS
  i1 = i1
  None = None
  Integrators = {i1}
  Users = {u1, u2, u3}
  Adapters = {a1, a2, a3}
  ChainIds = {0, 1, 2}
  MaxAdapters = 2
  OutboxKeys = {}
  MaxSequence = 0
  Messages <- NoMessages
  CHAIN_ID = 1
SPECIFICATION EventSpec
PROPERTIES
  AdminUpdatedNamesOldAdmin
CHECK_DEADLOCK FALSE
