\* A route without a proxy, one with a proxy, a service without a route.
SPECIFICATION FairSpec
CONSTANTS
  N = 3
  M = 1
  External = {1, 2}
  ProxyOf <- OwnProxy
  Threshold = 2
  Cooldown = 2
  MaxFaults = 3
INVARIANTS TypeOK
PROPERTIES Guarded FastAgain
