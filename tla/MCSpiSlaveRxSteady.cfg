\* The host begins a transaction only with tasks() polling.
CONSTANTS
  MaxTxn = 5
  HostWaits = TRUE
SPECIFICATION FairSpec
INVARIANT WholePackets
PROPERTY ImplementsMailbox
