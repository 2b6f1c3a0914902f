\* Three services, of which the container of the second can never be inspected;
\* exits, hangs and restarts of all containers; failing polls and requests.
SPECIFICATION OneFairSpec
CONSTANTS
  N = 3
  Threshold = 2
  Cooldown = 2
  Unreadable = {2}
  MaxFaults = 3
  QbitThreshold = 2
  QbitCooldown = 3
  MaxQbitFaults = 4
  IdleLimit = 0
  DirectplayLimit = 30
  TranscodeLimit = 5
  Grace = 2
  MaxRestarts = 2
INVARIANTS
  TypeOK
  QbitTypeOK RestartHasCause
  ThrottleTypeOK StreamingCapped
PROPERTIES
  Guarded Recovers
  QbitServes
  HeldThroughGrace LiftedInTheEnd
