\* Two runs of fetch-models and two threads over one file of dlib and
\* MediaPipe's two; one fault or restart of the daemon.
SPECIFICATION FairSpec
CONSTANTS
  Fetch = {p1, p2}
  Thread = {t1, t2}
  File = {f1}
  DlibKey = {dlib}
  OtherKey = {mediapipe}
  OtherFile = {m1, m2}
  MaxFaults = 1
  NoThread = nobody
INVARIANTS
  TypeOK
  FilesAreWhole
  FailureIsNew
PROPERTY LockComesBack
