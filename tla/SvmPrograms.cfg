\* Two integrator programs and two adapter programs, one admin for both.
CONSTANTS
  i1 = i1
  i2 = i2
  None = None
  Integrators = {i1, i2}
  Users = {u1}
  Adapters = {a1, a2}
  ChainIds = {1}
  MaxAdapters = 1
  OutboxKeys = {k1}
  MaxSequence = 1
  Messages <- OneMessageEach
  CHAIN_ID = 1
SYMMETRY ProgramSymmetry
SPECIFICATION ProgramSpec
INVARIANTS
  TypeOK
PROPERTIES
  EachActsForItself
CHECK_DEADLOCK FALSE
