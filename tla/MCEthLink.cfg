CONSTANTS
  MaxLate = 1
  Watchdog = 1
SPECIFICATION FairSpec
INVARIANTS TypeOK LossTripsCycle
PROPERTIES OffLatches LossIsNoticed RecoversFromLoss HostOffStopsCore
