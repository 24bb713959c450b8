SPECIFICATION Spec
CONSTANTS
  a1 = a1
  a2 = a2
  d1 = d1
  None = None
  AnyDevice = AnyDevice
  Apps <- OneApp
  Devices <- OneDevice
  DeviceOf <- MCDeviceOf
  Renewals = {n1}
  UiIds = {u1}
  UiMethods = {"install"}
  BackendOutcomes = {"ok"}
  PrefsValues <- RefreshOnly
  Disturbances = {}
  StaleAfter = 1
  NagEvery = 2
  DeviceRetry = 1
  Retry = 1
  RateRetry = 2
  SignInRetry = 3
  UpdateIdle = 1
  RefreshMargin = 1
  Lifetime = 1
  Start = 2
  MaxClock = 4
INVARIANT OneRefreshAtATime
CHECK_DEADLOCK FALSE
