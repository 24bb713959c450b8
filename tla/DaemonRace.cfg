SPECIFICATION Spec
CONSTANTS
  a1 = a1
  a2 = a2
  d1 = d1
  None = None
  AnyDevice = AnyDevice
  Apps <- OneApp
  Devices <- OneDevice
  DeviceOf <- MCDeviceOf
  Renewals = {n1}
  UiIds = {u1}
  UiMethods = {"install", "login", "store.install"}
  BackendOutcomes = {"ok", "other"}
  PrefsValues <- RefreshOnly
  Disturbances = {"backend dies", "wake"}
  StaleAfter = 1
  NagEvery = 2
  DeviceRetry = 1
  Retry = 1
  RateRetry = 2
  SignInRetry = 3
  UpdateIdle = 1
  RefreshMargin = 1
  Lifetime = 1
  Start = 2
  MaxClock = 4
INVARIANTS TickChain BooksMatch
PROPERTY BackgroundYields
VIEW WithoutLastStatus
CHECK_DEADLOCK FALSE
