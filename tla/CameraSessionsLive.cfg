\* One login whose session may hang, one enrollment that may be cancelled at any moment, and a
\* config.ini in which exposure or max_height is not a number.
SPECIFICATION FairSpec
CONSTANTS
  AuthSession = {a1}
  EnrollSession = {e1}
  TestSession = {}
  NoSession = none
  MalformedConfig = TRUE
PROPERTIES
  LoginAnswered
  HolderYields
