SPECIFICATION Spec
CONSTANTS
  None = None
  gateway = gateway
  stranger = stranger
  space = space
  wordI = wordI
  wordCannot = wordCannot
  wordA = wordA
  cut = cut
  full = full
  Tokens <- MCTokens
  Space = space
  Bytes <- MCBytes
  Alphanumeric <- MCAlphanumeric
  KnownErrorPhrases <- MCPhrases
  RepetitionWindow = 3
  RepetitionThreshold = 5
  TruncationMinLen = 100
  Answers <- MCAnswers
  Calls = {c1, c2}
  U64Max = 4
  Recipients <- MCRecipients
  ExpectedRecipient = gateway
  MaxPayment = 3
  Offers <- MCOffers
  QualityCheck = TRUE
  MaxQualityRetries = 2
  InitialFunds = 5
  MaxBlockhash = 1
SYMMETRY Interchangeable
CHECK_DEADLOCK FALSE
INVARIANTS
  TypeOK
  Accounting
  TransfersHonourPolicy
  LossAccountedFor
  BoundedPosts
  SpendWithinTwiceCap
  OkIsGoodOrExhausted
PROPERTY
  ImplementsAllowance
