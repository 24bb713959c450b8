SPECIFICATION StoresSpec
CONSTANTS
  r1 = r1
  r2 = r2
  r3 = r3
  NoId = NoId
  Ids <- ThreeIds
  Menu <- TwoAndACancel
  p = p
  q = q
  e = e
  d1 = d1
  None = None
  Jobs = {j1}
  Ipas <- TwoIpas
  ExtsOf <- OnlyPHasAnExtension
  Devices <- OneDevice
  Wishes <- OneChoiceForP
  Taken <- OneChoice
  Free = TRUE
  MaxQuota = 2
  MaxDisturbed = 2
  Disturbances = {"app removed", "App ID deleted", "window moves on", "killed", "call fails", "answer lost"}
  CertJobs = {1, 2}
  Room = 2
  MaxKeys = 2
  MaxIssued = 2
  Phones = {phone}
  Private = {phone}
  Boxes = {box}
  Workers = {w1}
  People = {a, b}
  Nobody = Nobody
  AccountJobs = {i, j}
  MaxRequests = 3
  Shipped = {shipped}
  Added = {added}
  Others = {other}
  IPAs = {v, w}
  Loaders = {1, 2}
  StoreJobs = {1, 2}
  Chunks = 2
  MaxEdits = 3
  Versions <- TwoReleases
  NoVersion = NoVersion
  Oldest <- Old
  AutoUpdate = TRUE
  Calls = {1, 2}
  Pieces = 2
  MaxCalls = 2
  MaxKills = 1
INVARIANTS StoresTypeOK AnsweredIsOver CancelHeard QuotaStopsFirst ReusedIsFree RenewalInPlace InstalledIsRecorded OneCertificate OnlyAsked NoLostPoke TeamsTrue ViewFresh RemovedStaysRemoved CatalogMatches IpasWhole AppStaysWhole StartedWhole
PROPERTY KeepsContract
CHECK_DEADLOCK FALSE
