\* Two servers that may publish each other's address.
SPECIFICATION FairSpec
CONSTANTS
  e1 = e1
  e2 = e2
  Endpoints = {e1, e2}
  NoEndpoint = NoEndpoint
  Remote = {}
  MaxChanges = 2
  MaxEdits = 1
INVARIANT TypeOK
PROPERTIES WorkingAddressKept HealedUnlessInterrupted
