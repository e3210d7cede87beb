SPECIFICATION Spec
CONSTANTS
  Clients = {c1}
  Key <- MCKey
  Foreign = {"file"}
  ETag <- MCValidators
  LastModified <- MCValidators
  Requests <- MCRequests
  Kinds = {"html"}
  Offers <- OneOffer
  Refusals = {"forbidden"}
  MaxRedirects = 0
  MaxEditions = 1
  MaxTime = 1
  MaxChunks = 0
INVARIANT ExpectedTypeEnforced
CHECK_DEADLOCK FALSE
