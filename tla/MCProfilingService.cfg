CONSTANTS
  Selections = {s1, s2}
  Off = Off
  MaxReports = 2
  MaxSessions = 2
SPECIFICATION FairSpec
INVARIANTS ConnectionOutlivesThreads QuietWhenNotConnected CaptureOnlyWhenActive CaptureStartedOnce
PROPERTIES StopReturns ProducersStoppedFirst
CHECK_DEADLOCK FALSE
