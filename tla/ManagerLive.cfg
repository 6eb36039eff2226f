CONSTANTS
  c1 = c1
  c2 = c2
  NoClient = NoClient
  Clients = {c1, c2}
  Domains = {0, 1}
  MaxReports = 1
SPECIFICATION FairSpec
PROPERTIES StopTerminates StatusIsRead ReportIsDecided
