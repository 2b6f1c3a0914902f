\* Threshold 3, the default of consecutive_threshold.
SPECIFICATION PatternSpec
CONSTANTS
  N = 1
  M = 1
  External = {1}
  ProxyOf <- OneProxy
  Threshold = 3
  Cooldown = 2
  MaxFaults = 2
INVARIANT PatternRepeats
