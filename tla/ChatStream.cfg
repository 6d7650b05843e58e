SPECIFICATION Spec
CONSTANTS
  None = None
  gateway = gateway
  stranger = stranger
  SessionTtl = 2
  MaxRecentHashes = 2
  ThreeStrikeThreshold = 2
  Calls = {a, b}
  Conversations = {s}
  Messages = {x}
  Models = {m, free}
  FallbackModel = free
  SessionsOn = TRUE
  Polled = {"zero", "positive"}
  MaxTime = 3
  U64Max = 4
  Recipients <- MCRecipients
  ExpectedRecipient = gateway
  MaxPayment = 3
  Offers <- MCOffers
SYMMETRY Interchangeable
CHECK_DEADLOCK FALSE
INVARIANTS
  TypeOK
  OnePaymentPerStream
  StrikesHitOwnSession
PROPERTY
  ImplementsPaidForwarding
