--------------------------- MODULE MCCameraSessions ----------------------------
\* An instance of CameraSessions in which the enrollments are interchangeable. For
\* safety only.
EXTENDS CameraSessions, TLC

Symmetry == Permutations(EnrollSession)

================================================================================
