\* A login and two enrollments: the login preempts, and the enrollments meet at the models
\* lock and race for the camera.
SPECIFICATION Spec
CONSTANTS
  AuthSession = {a1}
  EnrollSession = {e1, e2}
  TestSession = {}
  NoSession = none
  MalformedConfig = FALSE
SYMMETRY Symmetry
INVARIANTS
  DeviceHeldByHolder
  ModelsLockSpansEnrollment
  ToldWhatHappened
PROPERTIES
  KeepsPromise
  NoFalseDeviceError
