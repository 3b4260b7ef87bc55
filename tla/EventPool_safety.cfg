SPECIFICATION PoolSpec
CONSTANTS
  Max = 5
  Delays <- MCDelays
  MaxBatch = 3
INVARIANTS
  PoolTypeOK
  LinksExact
  TimersExact
  FreshDelivery
  RingsWhole
  OnlyTunnelsTimed
  FdsOwned
