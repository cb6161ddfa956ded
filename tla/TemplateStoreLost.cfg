\* A face is enrolled through the daemon while secureEye remove waits for the user's answer.
\* There is one face to capture, so the trace begins with the two models of an older file.
SPECIFICATION Spec
CONSTANTS
  Request = {r1}
  Tool = {c1}
  NoOne = none
  Space = {sface}
  LegacySpace = sface
  MaxFaces = 3
PROPERTY RemovalTakesOnlyIts
