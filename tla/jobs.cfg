SPECIFICATION FairSpec
CONSTANTS
  c1 = c1
  c2 = c2
  callback = callback
  oidcKeys = oidcKeys
  Callers = {c1, c2}
  Jobs = {callback, oidcKeys}
  Deduplicated = {oidcKeys}
  Uncached = {}
  Attempts <- TwoAttempts
  MaxRuns = 2
  MaxStalls = 1
  NoEvent = NoEvent
  NoJob = NoJob
CHECK_DEADLOCK FALSE
INVARIANT TypeOK
INVARIANT FinalEventsAreTrue
INVARIANT KeyedResultKept
PROPERTY AwaitEnds
