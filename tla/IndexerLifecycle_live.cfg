\* One definition through its whole life: a replacement, lost replies, a crash.
SPECIFICATION FairSpec
CONSTANTS
  Names = {a}
  NoName = NoName
  PruneThreshold = 2
  RepliesLost = TRUE
  MaxAdds = 2
  MaxUserOps = 0
  MaxCrashes = 1
INVARIANTS DegradedHasTimer EnabledOnlyAfterPass
PROPERTIES TimerNeverRestarts StaleEntriesDropped NeverStuckDegraded
