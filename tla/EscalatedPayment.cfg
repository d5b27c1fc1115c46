SPECIFICATION Spec
CONSTANTS
  c1 = c1
  c2 = c2
  o1 = o1
  DayLength = 4
  MaxRetries = 2
  Cooldown = 1
  MessageCap = 1
  CapWindow = 4
  CaseTtl = 4
  QuietStart = 3
  QuietEnd = 1
  AllowedChannels = {"email", "sms", "whatsapp"}
  ConsentRequired = {"sms", "whatsapp"}
  VerifiedSenders = {}
  MerchantOffset = 0
  SettingsOffset = 0
  None = None
  Payments = {p1}
  MaxLostReplies = 1
  Cases = {c1, c2}
  ProfileOf <- MCProfileOf
  OrderOf <- MCOrderOf
  AmountOf <- MCAmountOf
  Poisonings = {{}}
  MaxDeliveries = 2
  MaxAborts = 0
  MaxApprovals = 0
  LastBirth = 1
  Horizon = 5
INVARIANT
  ReferencedPaymentCredited
