SPECIFICATION InstallSpec
CONSTANTS
  p = p
  q = q
  e = e
  d1 = d1
  None = None
  Jobs = {j1}
  Ipas <- TwoIpas
  ExtsOf <- NoExtensions
  Devices <- OneDevice
  Wishes <- NothingChosen
  Taken <- OneChoice
  Free = TRUE
  MaxQuota = 2
  MaxDisturbed = 0
  Disturbances = {}
INVARIANTS NoAppReplaced
CHECK_DEADLOCK FALSE
