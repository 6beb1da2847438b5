\* The host may begin a transaction with tasks() anywhere.
CONSTANTS
  MaxTxn = 5
  HostWaits = FALSE
SPECIFICATION FairSpec
INVARIANTS TypeOK ChannelArmed VerdictIsCurrent FreshWhenQuiet
PROPERTIES NeverOlder WriteReachesCore
