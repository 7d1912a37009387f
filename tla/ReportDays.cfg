SPECIFICATION FairSpec
CONSTANTS
  j1 = j1  j2 = j2
  NoReport = NoReport  NoSession = NoSession
  Thread = {j1, j2}
  MaxAnswers = 1
  MaxAttempts = 2
  AdvisoryLock = TRUE
  MaxCalls = 1
  MaxFaults = 1
INVARIANTS TypeOK ReportBehindReady AnswersScored PendingIsOwed CrmMatchesReport
PROPERTIES FinishedIsReported ReportReachesLink
CHECK_DEADLOCK FALSE
