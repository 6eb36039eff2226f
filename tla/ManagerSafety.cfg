CONSTANTS
  c1 = c1
  c2 = c2
  NoClient = NoClient
  Clients = {c1, c2}
  Domains = {0, 1}
  MaxReports = 2
SPECIFICATION Spec
SYMMETRY ClientPerms
INVARIANTS TypeOK Accounted PipelineOrder Lifecycle ExitHasCause
PROPERTY RelaySpec
