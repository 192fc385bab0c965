CONSTANTS
  NSig = 3
  Kill = 2
  HostSignals = {1, 3}
  DefaultIgnored = {3}
  Masks <- SomeMasks
  Blocking = TRUE
  MaxRaised = 1
SPECIFICATION Spec
PROPERTY ForwardedEventually
CHECK_DEADLOCK FALSE
