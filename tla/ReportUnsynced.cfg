SPECIFICATION FairSpec
CONSTANTS
  j1 = j1  j2 = j2
  NoReport = NoReport  NoSession = NoSession
  Thread = {j1, j2}
  MaxAnswers = 1
  MaxAttempts = 2
  AdvisoryLock = TRUE
  MaxCalls = 1
  MaxFaults = 1
PROPERTY LinkNeverStuck
CHECK_DEADLOCK FALSE
