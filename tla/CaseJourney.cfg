SPECIFICATION Spec
CONSTANTS
  DayLength = 8
  MaxRetries = 3
  Cooldown = 2
  MessageCap = 2
  CapWindow = 8
  CaseTtl = 12
  QuietStart = 7
  QuietEnd = 3
  AllowedChannels = {"email", "sms", "whatsapp"}
  ConsentRequired = {"sms", "whatsapp"}
  VerifiedSenders = {"sms"}
  MerchantOffset = 2
  SettingsOffset = 2
  None = None
  Payments = {p1, p2}
  MaxLostReplies = 1
  Profiles <- MCProfiles
  Births <- MCBirths
  ReplayAges <- MCReplayAges
  PayDelays <- MCPayDelays
  HoldStep = 4
  MaxWakes = 8
  MaxWait = 1
  HostOffset = 0
  Horizon = 23
  MaxEffects = 1
INVARIANTS
  TypeOK
  PendingIffEscalated
  LedgerCounted
  AgentStaysWithinPolicy
  AwaitingHasACause
  CreditIffRecovered
  DeferralClearsTiming
  TtlClosesAsLost
  NoReviewForRoutine
  ReplayEndsAtNow
  ObservedAfterActing
PROPERTIES
  ClosedIsFinal
  OpenCaseCloses
  LifecycleSpec
