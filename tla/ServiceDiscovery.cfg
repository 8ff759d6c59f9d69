SPECIFICATION DiscoverySpec
CONSTANTS
  i1 = i1
  i2 = i2
  w = w
  Instances <- MCInstances
  Watchers <- MCWatchers
  ChanSize = 1
  MaxMishaps = 1
  Missing = Missing
  Failed = Failed
SYMMETRY Symmetry
INVARIANTS TypeOK DiscoveredWasAlive FreshIsDiscovered 
CHECK_DEADLOCK FALSE
