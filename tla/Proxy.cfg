SPECIFICATION FairSpec
CONSTANTS
  None = None
  gateway = gateway
  stranger = stranger
  Foreign = foreign
  Requests = {r1, r2}
  U64Max = 4
  Recipients <- MCRecipients
  ExpectedRecipient = gateway
  MaxPayment = 3
  Offers <- MCOffers
CHECK_DEADLOCK FALSE
INVARIANTS
  TypeOK
PROPERTIES
  ImplementsPaidForwarding
  Answered
