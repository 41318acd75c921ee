SPECIFICATION FairSpec
CONSTANTS
  Dated = FALSE
  Workers = {w1, w2}
  MaxFailures = 1
CHECK_DEADLOCK FALSE
INVARIANT TypeOK
INVARIANT SuccessIsRecorded
INVARIANT RevokedInEntra
PROPERTY PhaseNeverGoesBack
PROPERTY EventsReachConsumer
