\* A login with a search of one second and up to two rules, in ticks of half a second.
SPECIFICATION FairSpec
CONSTANTS
  Seconds = 1
  Step = 500
  MaxFrames = 3
  Rule <- MCRule
  MaxRules = 2
INVARIANTS
  SuccessWasEarned
  EndIsExplained
  AnswerIsTrue
  MarginsFit
PROPERTIES
  KeepsPromise
  SessionEnds
