CONSTANTS
  Threads = {t1, t2}
  Requests = {r1, r2, r3}
  Malformed = {r3}
  ExpireRate = 1
  NoRequest = NoRequest
SPECIFICATION FairSpec
INVARIANTS OneCopy SomeoneAwake DrainedWhenJoined BypassBounded
CHECK_DEADLOCK FALSE
PROPERTIES ScheduledIsNotified TerminateReturns
