CONSTANTS
  MaxAsked = 2
  DefaultTokens = 3
SPECIFICATION ApiSpec
INVARIANTS
  ShedAnswers503
CHECK_DEADLOCK FALSE
