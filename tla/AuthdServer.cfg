\* Three clients compete for two slots; any session may hang.
SPECIFICATION FairSpec
CONSTANTS
  Client = {c1, c2, c3}
  MaxClients = 2
INVARIANT
  ShutdownKnowsAll
PROPERTIES
  RefusedOnlyWhenFull
  ClientIsHeard
  StopEnds
