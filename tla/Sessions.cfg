SPECIFICATION Spec
CONSTANTS
  DayLength = 4
  MaxRetries = 2
  Cooldown = 1
  MessageCap = 1
  CapWindow = 4
  CaseTtl = 5
  QuietStart = 0
  QuietEnd = 0
  AllowedChannels = {"email", "sms", "whatsapp"}
  ConsentRequired = {"sms", "whatsapp"}
  VerifiedSenders = {}
  MerchantOffset = 0
  SettingsOffset = 0
  None = None
  Payments = {p1, p2}
  MaxLostReplies = 1
  PaymentOf <- MCPaymentOf
  InitialRows <- MCInitialRows
  Instant <- MCInstant
  Approvals = {a1, a2}
  Passes = {m1, m2}
  Successes = {s1, s2, s3}
  Failures = {f1, f2}
  Scenarios = {{a1, s1, s2, s3}, {a1, a2, s1, s2}, {m1, m2, s1, s2}, {a1, m1, s1, s2},
               {a1, m1, m2}, {a1, a2, m1}, {a1, m1, f1, f2}}
INVARIANTS
  TypeOK
  CountedActionsExist
  EscalatedIsApprovable
PROPERTIES
  PaidCaseTakesNoPayment
  
