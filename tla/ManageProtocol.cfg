\* Two connections at a time and two face models.
SPECIFICATION FairSpec
CONSTANTS
  Request = {r1, r2}
  Model = {m1, m2}
  NoRequest = none
INVARIANTS
  PageShowsModels
  ToldIsTrue
PROPERTY CameraGivenBack
