SPECIFICATION FairConversations
CONSTANTS
  r1 = r1
  r2 = r2
  r3 = r3
  NoId = NoId
  Ids <- ThreeIds
  Menu <- LongJobs
  TunnelJobs = {1, 2}
  NetworkAttempts = 2
  MaxServices = 2
  MaxCandidates = 2
  Majors = {15, 16, 17, 27}
  UnlockPolls = 2
  Interferences = 2
  Pages = 2
  MaxBreakpoints = 3
  LateAnswers = 1
  GsaMaxAttempts = 4
  TransportRetries = 3
  MaxIdentities = 2
INVARIANTS ConversationsTypeOK OneTunnel FixHelps TellsTruth IdentityGone
PROPERTIES Answered CancelEnds ProcessEnds TunnelJobEnds FixEnds JitEnds SignInEnds ConversationsGetOn
CHECK_DEADLOCK FALSE
