CONSTANTS
  c1 = c1
  c2 = c2
  NoClient = NoClient
  Clients = {c1}
  Domains = {0, 1}
  MaxReports = 1
SPECIFICATION Spec
INVARIANT GracefulStopReturnsTrue
