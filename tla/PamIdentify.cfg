\* All workarounds, with and without a password, Enter pressed up to six times.
SPECIFICATION PamFairSpec
CONSTANT MaxRetries = 5
INVARIANTS
  ThreadsGone
  ResultIsEarned
  StuckPromptIsExplained
PROPERTIES
  LoginEnds
