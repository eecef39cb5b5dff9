SPECIFICATION Spec
CONSTANTS
  Addresses = {"a1"}
  Members = {"ann"}
  AccountAddress <- MCAccountAddress
  Events = {"e1"}
  KindOf <- MCKindOf
  Clicks = {1, 2}
  REQUESTS_PER_ADDRESS = 2
  REQUESTS_PER_INSTANCE = 2
  RETRIES = 1
  SENDS_PER_ROUND = 1
  MaxEmails = 2
  MaxQueued = 2
  MaxInputs = 2
 
PROPERTIES ReceivesLikeAnInbox NeverBackUnasked
CHECK_DEADLOCK FALSE
