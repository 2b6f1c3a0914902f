\* Tester and discovery race.
SPECIFICATION Spec
CONSTANTS
  Names = {a}
  NoName = NoName
  PruneThreshold = 1
  RepliesLost = FALSE
  MaxAdds = 1
  MaxUserOps = 0
  MaxCrashes = 0
INVARIANT ManagedIsTracked
