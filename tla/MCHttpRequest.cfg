SPECIFICATION RequestSpec
CONSTANTS
  MaxResponseBytes = 2
  MaxSent = 4
INVARIANTS
  AnswerHonest
PROPERTIES
  SettlesAndReleases
CHECK_DEADLOCK FALSE
