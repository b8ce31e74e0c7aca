\* Inputs of up to seven bytes of three values, and lists of instructions;
\* digests over small widths, on Aptos with vectors of wrong lengths.
CONSTANTS
  ByteSize = 3
  MaxLen = 7
  MaxAdapters = 2
  Lists <- SomeLists
  NoList = NoList
  Base = 2
  ChainWidth = 2
  SequenceWidth = 2
  AddressWidth = 2
  HashWidth = 1
  EvmWidth = 1
  None = None
SPECIFICATION EncodingsSpec
INVARIANTS
  AcceptedIsWellFormed
  RoundTrip
  DigestDeterminesMessage
  ReceivedByAddressee
CHECK_DEADLOCK FALSE
