CONSTANTS
  NSig = 3
  Kill = 2
  HostSignals = {1, 3}
  DefaultIgnored = {3}
  Masks <- SomeMasks
  Blocking = TRUE
  MaxRaised = 2
SPECIFICATION Spec
INVARIANT TypeOK
INVARIANT NoHostSignalLost
INVARIANT KillBlockedOnlyInHandlers
INVARIANT NoReentry
PROPERTY ForwardedUnlessBlocked
PROPERTY DispatchedEventually
CHECK_DEADLOCK FALSE
