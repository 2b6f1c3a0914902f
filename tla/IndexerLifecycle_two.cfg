\* Two definitions, no additions: jobs and the user interleave over two entries.
SPECIFICATION Spec
CONSTANTS
  Names = {a, b}
  NoName = NoName
  PruneThreshold = 1
  RepliesLost = FALSE
  MaxAdds = 0
  MaxUserOps = 1
  MaxCrashes = 0
SYMMETRY Symmetry
INVARIANT TypeOK
PROPERTY RecentPassNeverPruned
