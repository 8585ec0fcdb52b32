SPECIFICATION Spec
CONSTANTS
  Address = 5
  Script <- Enumeration
  Vendor <- Use
  MaxRequests = 3
  MaxFaults = 2
  MaxResets = 2
  MaxTries = 2
  ResetPolls = 2
INVARIANTS
  HostInStep
  FreshReply
  TimeoutReported
PROPERTIES
  EventuallyConfigured
