SPECIFICATION Spec
CONSTANTS
  DayLength = 4
  MaxRetries = 2
  Cooldown = 1
  MessageCap = 1
  CapWindow = 4
  CaseTtl = 5
  QuietStart = 0
  QuietEnd = 0
  AllowedChannels = {"email", "sms", "whatsapp"}
  ConsentRequired = {"sms", "whatsapp"}
  VerifiedSenders = {}
  MerchantOffset = 0
  SettingsOffset = 0
  None = None
  Payments = {p1}
  MaxLostReplies = 0
  PaymentOf <- MCPaymentOf
  InitialRows <- MCInitialRows
  Instant <- MCInstant
  Approvals = {}
  Passes = {}
  Successes = {s1}
  Failures = {f1}
  Scenarios = {{s1, f1}}
PROPERTY
  EveryRequestAnswered
CHECK_DEADLOCK FALSE
