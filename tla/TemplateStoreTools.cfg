\* A request of the daemon and a command line tool, which does not take the lock.
SPECIFICATION Spec
CONSTANTS
  Request = {r1}
  Tool = {c1}
  NoOne = none
  Space = {sface}
  LegacySpace = sface
  MaxFaces = 4
INVARIANT IdsDistinct
PROPERTY NeverCorrupted
