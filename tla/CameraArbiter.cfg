\* Three logins and two management sessions, each asking over and over again.
SPECIFICATION FairSpec
CONSTANTS
  AuthSession = {a1, a2, a3}
  ManageSession = {m1, m2}
  NoSession = none
INVARIANTS
  AuthWaitingExact
  NoLostWakeup
PROPERTIES
  ImplementsOwnership
  WaitersServed
