SPECIFICATION Spec
CONSTANTS
  a1 = a1
  a2 = a2
  d1 = d1
  None = None
  AnyDevice = AnyDevice
  Apps <- OneApp
  Devices <- OneDevice
  DeviceOf <- MCDeviceOf
  Renewals = {}
  UiIds = {u1}
  UiMethods = {"login"}
  BackendOutcomes = {"ok", "signIn", "other", "cancelled"}
  PrefsValues <- OnlyAllOn
  Disturbances = {"sign-out", "relaunch"}
  StaleAfter = 1
  NagEvery = 2
  DeviceRetry = 1
  Retry = 1
  RateRetry = 2
  SignInRetry = 3
  UpdateIdle = 1
  RefreshMargin = 1
  Lifetime = 3
  Start = 2
  MaxClock = 6
INVARIANTS NoNoticeTwice RepeatedFailureTold
VIEW WithoutLastStatus
CHECK_DEADLOCK FALSE
