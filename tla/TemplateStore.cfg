\* Two requests of the daemon against one file, in two embedding spaces.
SPECIFICATION Spec
CONSTANTS
  Request = {r1, r2}
  Tool = {}
  NoOne = none
  Space = {sface, dlib}
  LegacySpace = dlib
  MaxFaces = 5
SYMMETRY Symmetry
INVARIANT NoLostEnrollment
PROPERTIES
  IdFreshInFile
  ImplementsFaceModels
